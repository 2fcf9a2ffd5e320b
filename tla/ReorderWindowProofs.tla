------------------------- MODULE ReorderWindowProofs -------------------------
(***************************************************************************)
(* Proofs about what the reordering windows compute: the arithmetic of the  *)
(* sequence numbers, the three walks over a buffer, and what they preserve, *)
(* for any sequence space, window, pool and traffic.                        *)
(***************************************************************************)
EXTENDS ReorderProofs, FiniteSetTheorems, SequenceTheorems

-----------------------------------------------------------------------------
(* Numbers. *)

\* The assumption on the constants, in the form in which the steps use it.
LEMMA Constants ==
    /\ SeqSpace \in Nat /\ SeqSpace > 0 /\ WinSize \in Nat /\ WinSize > 0
    /\ PoolSize \in Nat /\ Reach \in Nat /\ First \in Nat /\ MaxArrivals \in Nat
    /\ 2 * WinSize + 2 * Reach <= SeqSpace /\ 4 * Reach <= SeqSpace
BY ReorderAssumption

\* Division with remainder.
LEMMA Remainder ==
    \A x \in Int : /\ x % SeqSpace \in 0 .. SeqSpace - 1 /\ x \div SeqSpace \in Int
                   /\ x = SeqSpace * (x \div SeqSpace) + (x % SeqSpace)
BY Constants

\* Two remainders that differ by a multiple are equal.
LEMMA OneRemainder ==
    ASSUME NEW a \in Int, NEW b \in Int, NEW k \in Int,
           0 <= a, a < SeqSpace, 0 <= b, b < SeqSpace, a - b = k * SeqSpace
    PROVE  a = b
BY Constants

\* What lies in the range of remainders and differs by a multiple is the remainder.
LEMMA RemainderIs ==
    ASSUME NEW x \in Int, NEW k \in Int, 0 <= x - k * SeqSpace, x - k * SeqSpace < SeqSpace
    PROVE  x % SeqSpace = x - k * SeqSpace
<1> DEFINE q == x \div SeqSpace
           r == x % SeqSpace
<1>1. q \in Int /\ r \in 0 .. SeqSpace - 1 /\ x = SeqSpace * q + r
  BY Remainder
<1> HIDE DEF q, r
<1>2. r - (x - k * SeqSpace) = (k - q) * SeqSpace
  BY <1>1, Constants
<1>3. k - q \in Int /\ x - k * SeqSpace \in Int /\ SeqSpace \in Nat
  BY <1>1, Constants
<1>4. r = x - k * SeqSpace
  BY <1>1, <1>2, <1>3, OneRemainder
<1> QED
  BY <1>4 DEF r

\* Sequence numbers are remainders.
LEMMA SnType == \A a \in Int : Sn(a) \in 0 .. SeqSpace - 1
BY Remainder DEF Sn

\* The remainder of the difference of two sequence numbers is that of the difference of the
\* frames' numbers.
LEMMA SnDifference ==
    ASSUME NEW a \in Int, NEW b \in Int
    PROVE  /\ 0 <= a - b /\ a - b < SeqSpace => (Sn(a) - Sn(b)) % SeqSpace = a - b
           /\ a - b < 0 /\ b - a <= SeqSpace => (Sn(a) - Sn(b)) % SeqSpace = a - b + SeqSpace
<1> DEFINE q == a \div SeqSpace
           r == b \div SeqSpace
           k == r - q
           x == Sn(a) - Sn(b)
<1>1. q \in Int /\ r \in Int /\ Sn(a) \in Int /\ Sn(b) \in Int
  BY Remainder DEF Sn
<1>2. a = SeqSpace * q + Sn(a) /\ b = SeqSpace * r + Sn(b)
  BY Remainder DEF Sn
<1> HIDE DEF q, r
<1>3. x - k * SeqSpace = a - b /\ x \in Int /\ k \in Int
  BY <1>1, <1>2, Constants
<1>4. x - (k - 1) * SeqSpace = a - b + SeqSpace /\ k - 1 \in Int
  BY <1>1, <1>2, Constants
<1> HIDE DEF x, k
<1>5. ASSUME 0 <= a - b, a - b < SeqSpace PROVE x % SeqSpace = a - b
  BY <1>3, <1>5, RemainderIs
<1>6. ASSUME a - b < 0, b - a <= SeqSpace PROVE x % SeqSpace = a - b + SeqSpace
  <2>1. 0 <= a - b + SeqSpace /\ a - b + SeqSpace < SeqSpace
    BY <1>6, Constants
  <2> QED
    BY <1>3, <1>4, <2>1, RemainderIs
<1> QED
  BY <1>5, <1>6 DEF x

\* SN_LESS tells which of two frames is older, if they are less than half the space apart.
LEMMA SnLess ==
    ASSUME NEW a \in Int, NEW b \in Int, 2 * (b - a) <= SeqSpace, 2 * (a - b) < SeqSpace
    PROVE  SN_LESS(Sn(a), Sn(b)) <=> a < b
<1> DEFINE d == (Sn(a) - Sn(b)) % SeqSpace
<1>1. CASE a < b
  <2>1. a - b < 0 /\ b - a <= SeqSpace
    BY <1>1, Constants
  <2>2. d = a - b + SeqSpace
    BY <2>1, SnDifference
  <2> HIDE DEF d
  <2>3. 2 * d >= SeqSpace
    BY <2>2, Constants
  <2> QED
    BY <1>1, <2>3 DEF SN_LESS, d
<1>2. CASE ~(a < b)
  <2>1. 0 <= a - b /\ a - b < SeqSpace
    BY <1>2, Constants
  <2>2. d = a - b
    BY <2>1, SnDifference
  <2> HIDE DEF d
  <2>3. ~(2 * d >= SeqSpace)
    BY <2>2, Constants
  <2> QED
    BY <1>2, <2>3 DEF SN_LESS, d
<1> QED
  BY <1>1, <1>2

\* Frames less than the space apart have different sequence numbers.
LEMMA SnEqual ==
    ASSUME NEW a \in Int, NEW b \in Int, b - a < SeqSpace, a - b < SeqSpace
    PROVE  Sn(a) = Sn(b) <=> a = b
<1> SUFFICES ASSUME Sn(a) = Sn(b) PROVE a = b
  OBVIOUS
<1>1. (Sn(a) - Sn(b)) % SeqSpace = 0
  <2>1. Sn(a) - Sn(b) = 0
    BY SnType
  <2>2. 0 % SeqSpace = 0
    BY Constants
  <2> QED
    BY <2>1, <2>2
<1>2. CASE a >= b
  <2>1. a - b = 0
    BY <1>1, <1>2, SnDifference
  <2> QED
    BY <2>1
<1>3. CASE a < b
  <2>1. a - b < 0 /\ b - a <= SeqSpace
    BY <1>3, Constants
  <2>2. a - b + SeqSpace = 0
    BY <1>1, <2>1, SnDifference
  <2> QED
    BY <2>2, Constants
<1> QED
  BY <1>2, <1>3

\* Steps forward and backward in the sequence space.
LEMMA SnSteps ==
    ASSUME NEW a \in Int
    PROVE  /\ Succ(Sn(a)) = Sn(a + 1)
           /\ (Sn(a) + WinSize - 1) % SeqSpace = Sn(a + WinSize - 1)
           /\ (IF Sn(a) >= WinSize - 1 THEN Sn(a) - (WinSize - 1)
                   ELSE SeqSpace - 1 - (WinSize - (Sn(a) + 1)) + 1) = Sn(a - (WinSize - 1))
<1> DEFINE q == a \div SeqSpace
<1>1. /\ q \in Int /\ Sn(a) \in Int /\ 0 <= Sn(a) /\ Sn(a) < SeqSpace
      /\ a = SeqSpace * q + Sn(a)
  BY Remainder, Constants DEF Sn
<1> HIDE DEF q
<1>2. ASSUME NEW d \in Int PROVE (Sn(a) + d) % SeqSpace = Sn(a + d)
  <2> DEFINE p == (a + d) \div SeqSpace
             k == p - q
             x == Sn(a) + d
  <2>1. /\ p \in Int /\ Sn(a + d) \in Int /\ 0 <= Sn(a + d) /\ Sn(a + d) < SeqSpace
        /\ a + d = SeqSpace * p + Sn(a + d)
    BY Remainder, Constants DEF Sn
  <2> HIDE DEF p
  <2>2. x - k * SeqSpace = Sn(a + d) /\ x \in Int /\ k \in Int
    BY <1>1, <2>1, Constants
  <2> HIDE DEF x, k
  <2>3. x % SeqSpace = Sn(a + d)
    BY <2>1, <2>2, RemainderIs
  <2> QED
    BY <2>3 DEF x
<1>3. Succ(Sn(a)) = Sn(a + 1)
  BY <1>2 DEF Succ
<1>4. (Sn(a) + WinSize - 1) % SeqSpace = Sn(a + WinSize - 1)
  <2>1. Sn(a) + (WinSize - 1) = Sn(a) + WinSize - 1 /\ a + (WinSize - 1) = a + WinSize - 1
    BY <1>1, Constants
  <2>2. (Sn(a) + (WinSize - 1)) % SeqSpace = Sn(a + (WinSize - 1))
    BY <1>2, Constants
  <2> QED
    BY <2>1, <2>2
<1>5. (IF Sn(a) >= WinSize - 1 THEN Sn(a) - (WinSize - 1)
           ELSE SeqSpace - 1 - (WinSize - (Sn(a) + 1)) + 1) = Sn(a - (WinSize - 1))
  <2> DEFINE x == Sn(a) - (WinSize - 1)
  <2>1. x % SeqSpace = Sn(a - (WinSize - 1))
    <3>1. (Sn(a) + (1 - WinSize)) % SeqSpace = Sn(a + (1 - WinSize))
      BY <1>2, Constants
    <3>2. Sn(a) + (1 - WinSize) = x /\ a + (1 - WinSize) = a - (WinSize - 1)
      BY <1>1, Constants
    <3> QED
      BY <3>1, <3>2
  <2>2. CASE Sn(a) >= WinSize - 1
    <3>1. x \in Int /\ 0 <= x - 0 * SeqSpace /\ x - 0 * SeqSpace < SeqSpace /\ x - 0 * SeqSpace = x
      BY <1>1, <2>2, Constants
    <3>2. x % SeqSpace = x
      BY <3>1, RemainderIs
    <3> QED
      BY <2>1, <2>2, <3>2
  <2>3. CASE ~(Sn(a) >= WinSize - 1)
    <3> DEFINE y == SeqSpace - 1 - (WinSize - (Sn(a) + 1)) + 1
    <3>1. /\ x \in Int /\ -1 \in Int /\ x - (-1) * SeqSpace = y
          /\ 0 <= y /\ y < SeqSpace
      BY <1>1, <2>3, Constants
    <3> HIDE DEF x, y
    <3>2. x % SeqSpace = y
      BY <3>1, RemainderIs
    <3> QED
      BY <2>1, <2>3, <3>2 DEF x, y
  <2> QED
    BY <2>2, <2>3
<1> QED
  BY <1>3, <1>4, <1>5

-----------------------------------------------------------------------------
(* Least numbers, and induction. *)

\* A set of natural numbers has a least one.
LEMMA LeastNumber ==
    ASSUME NEW T, T \subseteq Nat, T # {}
    PROVE  \E m \in T : \A y \in T : m <= y
<1> DEFINE R == OpToRel(<, Nat)
<1>1. IsWellFoundedOn(R, Nat)
  BY NatLessThanWellFounded
<1>2. PICK m \in T : \A y \in T : ~(<<y, m>> \in R)
  <2> HIDE DEF R
  <2> QED
    BY <1>1, WFMin
<1>3. ASSUME NEW y \in T PROVE m <= y
  <2>1. m \in Nat /\ y \in Nat
    OBVIOUS
  <2>2. ~(y < m)
    BY <1>2, <2>1 DEF OpToRel
  <2> QED
    BY <2>1, <2>2
<1> QED
  BY <1>3

\* It is what Min chooses.
LEMMA MinIsLeast ==
    ASSUME NEW T, T \subseteq Nat, T # {}
    PROVE  Min(T) \in T /\ \A y \in T : Min(T) <= y
<1>1. \E m \in T : \A y \in T : m <= y
  BY LeastNumber
<1> QED
  BY <1>1 DEF Min

\* Induction, over a set instead of a formula.
LEMMA Induction ==
    ASSUME NEW A, 0 \in A, \A n \in Nat : n \in A => n + 1 \in A
    PROVE  \A n \in Nat : n \in A
<1> SUFFICES ASSUME NEW n \in Nat, n \notin A PROVE FALSE
  OBVIOUS
<1> DEFINE T == Nat \ A
<1>1. PICK m \in T : \A y \in T : m <= y
  BY LeastNumber
<1>2. m \in Nat /\ m # 0 /\ m \notin A
  BY <1>1
<1>3. m - 1 \in Nat /\ ~(m <= m - 1)
  BY <1>2
<1>4. m - 1 \in A
  BY <1>1, <1>3
<1>5. (m - 1) + 1 = m
  BY <1>2
<1> QED
  BY <1>2, <1>3, <1>4, <1>5

-----------------------------------------------------------------------------
(* The walk of reord_rxframes_process(). *)

\* The walk of Process exists: its result is the last of a sequence of visits.
LEMMA WalkIs ==
    ASSUME NEW ind, NEW list \in Seq(Nat)
    PROVE  \E h : /\ h[0] = [ind |-> ind, gap |-> FALSE]
                  /\ \A k \in 1 .. Len(list) : h[k] = Visit(h[k - 1], list[k])
                  /\ Process(ind, list) = h[Len(list)]
<1> DEFINE N == Len(list)
           b == [ind |-> ind, gap |-> FALSE]
           Prefix(g, n) == /\ g[0] = b
                           /\ \A k \in 1 .. n : g[k] = Visit(g[k - 1], list[k])
           A == {n \in Nat : \E g : Prefix(g, n)}
           P(g) == g = [k \in 0 .. N |-> IF k = 0 THEN b ELSE Visit(g[k - 1], list[k])]
<1>0. N \in Nat
  OBVIOUS
<1>1. 0 \in A
  <2> DEFINE g == [k \in 0 .. 0 |-> b]
  <2>1. Prefix(g, 0)
    OBVIOUS
  <2> QED
    BY <2>1
<1>2. ASSUME NEW n \in Nat, n \in A PROVE n + 1 \in A
  <2>1. PICK g : Prefix(g, n)
    BY <1>2
  <2> DEFINE e == [k \in 0 .. n + 1 |-> IF k = n + 1 THEN Visit(g[n], list[n + 1]) ELSE g[k]]
  <2>2. e[0] = b
    <3>1. 0 \in 0 .. n + 1 /\ 0 # n + 1
      OBVIOUS
    <3> QED
      BY <2>1, <3>1
  <2>3. ASSUME NEW k \in 1 .. n + 1 PROVE e[k] = Visit(e[k - 1], list[k])
    <3>1. CASE k = n + 1
      <4>1. k - 1 = n /\ n # n + 1 /\ n \in 0 .. n + 1 /\ n + 1 \in 0 .. n + 1
        BY <3>1
      <4>2. e[k] = Visit(g[n], list[n + 1]) /\ e[n] = g[n]
        BY <3>1, <4>1
      <4> HIDE DEF e
      <4> QED
        BY <3>1, <4>1, <4>2
    <3>2. CASE k # n + 1
      <4>1. k \in 1 .. n /\ k \in 0 .. n + 1 /\ k - 1 \in 0 .. n + 1 /\ k - 1 # n + 1
        BY <3>2
      <4>2. e[k] = g[k] /\ e[k - 1] = g[k - 1]
        BY <3>2, <4>1
      <4>3. g[k] = Visit(g[k - 1], list[k])
        BY <2>1, <4>1
      <4> HIDE DEF e
      <4> QED
        BY <4>2, <4>3
    <3> QED
      BY <3>1, <3>2
  <2> HIDE DEF e
  <2>4. Prefix(e, n + 1)
    BY <2>2, <2>3
  <2> QED
    BY <2>4
<1>3. N \in A
  <2> HIDE DEF A, N
  <2> QED
    BY <1>0, <1>1, <1>2, Induction
<1>4. \E g : P(g)
  <2>1. PICK g : Prefix(g, N)
    BY <1>3
  <2> DEFINE e == [k \in 0 .. N |-> g[k]]
  <2>2. ASSUME NEW k \in 0 .. N
        PROVE  e[k] = IF k = 0 THEN b ELSE Visit(e[k - 1], list[k])
    <3>1. k # 0 => k \in 1 .. N /\ k - 1 \in 0 .. N
      BY <1>0
    <3>2. e[k] = g[k] /\ (k # 0 => e[k - 1] = g[k - 1])
      BY <3>1
    <3> HIDE DEF e
    <3> QED
      BY <2>1, <3>1, <3>2
  <2>3. P(e)
    <3>1. e = [k \in 0 .. N |-> e[k]]
      OBVIOUS
    <3> HIDE DEF e, N, b
    <3> QED
      BY <2>2, <3>1
  <2> HIDE DEF e
  <2> QED
    BY <2>3
<1> DEFINE h == CHOOSE g : P(g)
<1>5. P(h)
  BY <1>4
<1>6. Process(ind, list) = h[N]
  BY DEF Process
<1> HIDE DEF h
<1>7. h[0] = b
  <2>1. 0 \in 0 .. N
    BY <1>0
  <2> QED
    BY <1>5, <2>1
<1>8. ASSUME NEW k \in 1 .. N PROVE h[k] = Visit(h[k - 1], list[k])
  <2>1. k \in 0 .. N /\ k # 0
    BY <1>0
  <2> QED
    BY <1>5, <2>1
<1> QED
  BY <1>6, <1>7, <1>8

\* The numbers of s ascend.
Ascending(s) == \A k, l \in DOMAIN s : k < l => s[k] < s[l]

\* A buffer whose frames are in order and lie within less than half the space, as does ind_sn.
Near(list, lo, hi) ==
    /\ list \in Seq(Nat) /\ Ascending(list)
    /\ lo \in Int /\ hi \in Int /\ 2 * (hi + 1 - lo) < SeqSpace
    /\ \A k \in DOMAIN list : lo <= list[k] /\ list[k] <= hi

\* There the comparisons of sequence numbers are those of the frames' numbers.
LEMMA NearLess ==
    ASSUME NEW list, NEW lo, NEW hi, Near(list, lo, hi), NEW k \in DOMAIN list,
           NEW v \in Int, lo <= v, v <= hi + 1
    PROVE  /\ list[k] \in Nat
           /\ SN_LESS(Sn(v), Sn(list[k])) <=> v < list[k]
           /\ SN_LESS(Sn(list[k]), Sn(v)) <=> list[k] < v
           /\ Sn(v) = Sn(list[k]) <=> v = list[k]
<1> DEFINE f == list[k]
<1>1. f \in Nat /\ lo <= f /\ f <= hi /\ lo \in Int /\ hi \in Int
  <2>1. list \in Seq(Nat) /\ \A j \in DOMAIN list : lo <= list[j] /\ list[j] <= hi
    BY DEF Near
  <2>2. list[k] \in Nat
    BY <2>1
  <2> QED
    BY <2>1, <2>2 DEF Near
<1>2. 2 * (hi + 1 - lo) < SeqSpace
  BY DEF Near
<1> HIDE DEF f
<1>3. /\ 2 * (f - v) < SeqSpace /\ 2 * (v - f) < SeqSpace /\ f - v < SeqSpace /\ v - f < SeqSpace
      /\ 2 * (f - v) <= SeqSpace /\ 2 * (v - f) <= SeqSpace /\ f \in Int
  BY <1>1, <1>2, Constants
<1>4. SN_LESS(Sn(v), Sn(f)) <=> v < f
  BY <1>3, SnLess
<1>5. SN_LESS(Sn(f), Sn(v)) <=> f < v
  BY <1>3, SnLess
<1>6. Sn(v) = Sn(f) <=> v = f
  BY <1>3, SnEqual
<1> QED
  BY <1>1, <1>4, <1>5, <1>6 DEF f

\* One visit, in numbers.
LEMMA VisitIs ==
    ASSUME NEW v \in Int, NEW f \in Int, NEW g \in BOOLEAN,
           SN_LESS(Sn(v), Sn(f)) <=> v < f, Sn(v) = Sn(f) <=> v = f
    PROVE  LET r == Visit([ind |-> Sn(v), gap |-> g], f) IN
           /\ g \/ v < f => r = [ind |-> Sn(v), gap |-> TRUE]
           /\ ~g /\ v = f => r = [ind |-> Sn(v + 1), gap |-> FALSE]
           /\ ~g /\ f < v => r = [ind |-> Sn(v), gap |-> FALSE]
<1> DEFINE w == [ind |-> Sn(v), gap |-> g]
<1>1. w.ind = Sn(v) /\ w.gap = g
  OBVIOUS
<1>2. ASSUME g \/ v < f PROVE Visit(w, f) = [ind |-> Sn(v), gap |-> TRUE]
  <2>1. Visit(w, f) = [w EXCEPT !.gap = TRUE]
    BY <1>1, <1>2 DEF Visit
  <2>2. \A x : [w EXCEPT !.gap = x] = [ind |-> Sn(v), gap |-> x]
    OBVIOUS
  <2> HIDE DEF w
  <2> QED
    BY <2>1, <2>2, Zenon
<1>3. ASSUME ~g, v = f PROVE Visit(w, f) = [ind |-> Sn(v + 1), gap |-> FALSE]
  <2>1. ~(g \/ v < f)
    BY <1>3
  <2>2. Visit(w, f) = [w EXCEPT !.ind = Succ(@)]
    BY <1>1, <1>3, <2>1 DEF Visit
  <2>3. Succ(Sn(v)) = Sn(v + 1)
    BY SnSteps
  <2>4. [w EXCEPT !.ind = Succ(@)] = [ind |-> Succ(Sn(v)), gap |-> g]
    OBVIOUS
  <2>5. g = FALSE
    BY <1>3
  <2> QED
    BY <2>2, <2>3, <2>4, <2>5
<1>4. ASSUME ~g, f < v PROVE Visit(w, f) = [ind |-> Sn(v), gap |-> FALSE]
  <2>1. ~(g \/ v < f) /\ v # f
    BY <1>4
  <2>2. Visit(w, f) = w
    BY <1>1, <2>1 DEF Visit
  <2>3. g = FALSE
    BY <1>4
  <2> QED
    BY <2>2, <2>3
<1> QED
  BY <1>2, <1>3, <1>4

\* After k visits ind_sn has passed what it could; v is its number.
Along(list, start, k, v, g) ==
    /\ v \in Int /\ v >= start
    /\ v = start \/ \E j \in 1 .. k : v = list[j] + 1
    /\ ~g => \A j \in 1 .. k : list[j] < v
    /\ g => \E j \in 1 .. k : list[j] > v /\ \A l \in 1 .. j - 1 : list[l] < v

\* One visit more.
LEMMA AlongStep ==
    ASSUME NEW list, NEW lo, NEW hi, Near(list, lo, hi), NEW start \in Int, lo <= start,
           start <= hi + 1, NEW k \in Nat, k + 1 \in DOMAIN list,
           NEW v, NEW g \in BOOLEAN, Along(list, start, k, v, g)
    PROVE  \E u \in Int, d \in BOOLEAN :
               /\ Visit([ind |-> Sn(v), gap |-> g], list[k + 1]) = [ind |-> Sn(u), gap |-> d]
               /\ Along(list, start, k + 1, u, d)
<1> DEFINE f == list[k + 1]
<1>0. list \in Seq(Nat) /\ DOMAIN list = 1 .. Len(list) /\ Len(list) \in Nat
  BY DEF Near
<1>1. v \in Int /\ lo <= v /\ v <= hi + 1 /\ lo \in Int /\ hi \in Int
  <2>1. v \in Int /\ v >= start /\ (v = start \/ \E j \in 1 .. k : v = list[j] + 1)
    BY DEF Along
  <2>2. lo \in Int /\ hi \in Int
    BY DEF Near
  <2>3. ASSUME NEW j \in 1 .. k, v = list[j] + 1 PROVE v <= hi + 1
    <3>1. j \in DOMAIN list
      BY <1>0
    <3>2. list[j] \in Nat /\ list[j] <= hi
      <4>1. list[j] \in Nat
        BY <1>0, <3>1
      <4> QED
        BY <3>1, <4>1 DEF Near
    <3> QED
      BY <2>2, <2>3, <3>2
  <2> QED
    BY <2>1, <2>2, <2>3
<1>2. /\ f \in Nat /\ (SN_LESS(Sn(v), Sn(f)) <=> v < f) /\ (Sn(v) = Sn(f) <=> v = f)
  BY <1>1, NearLess
<1> DEFINE r == Visit([ind |-> Sn(v), gap |-> g], f)
<1>3. /\ g \/ v < f => r = [ind |-> Sn(v), gap |-> TRUE]
      /\ ~g /\ v = f => r = [ind |-> Sn(v + 1), gap |-> FALSE]
      /\ ~g /\ f < v => r = [ind |-> Sn(v), gap |-> FALSE]
  <2> HIDE DEF f
  <2> QED
    BY <1>1, <1>2, VisitIs
<1>4. \A j \in 1 .. k : list[j] \in Nat
  <2> TAKE j \in 1 .. k
  <2>1. j \in DOMAIN list
    BY <1>0
  <2> QED
    BY <1>0, <2>1
<1>5. CASE g
  <2>1. r = [ind |-> Sn(v), gap |-> TRUE]
    BY <1>3, <1>5
  <2>2. Along(list, start, k + 1, v, TRUE)
    BY <1>5 DEF Along
  <2> HIDE DEF r
  <2> QED
    BY <1>1, <2>1, <2>2 DEF r
<1>6. CASE ~g /\ v < f
  <2>1. r = [ind |-> Sn(v), gap |-> TRUE]
    BY <1>3, <1>6
  <2>2. Along(list, start, k + 1, v, TRUE)
    <3>1. v >= start /\ (v = start \/ \E j \in 1 .. k + 1 : v = list[j] + 1)
      BY DEF Along
    <3>2. \A l \in 1 .. (k + 1) - 1 : list[l] < v
      BY <1>6 DEF Along
    <3>3. k + 1 \in 1 .. k + 1 /\ list[k + 1] > v
      BY <1>1, <1>2, <1>6
    <3> QED
      BY <1>1, <3>1, <3>2, <3>3 DEF Along
  <2> HIDE DEF r
  <2> QED
    BY <1>1, <2>1, <2>2 DEF r
<1>7. CASE ~g /\ v = f
  <2>1. r = [ind |-> Sn(v + 1), gap |-> FALSE]
    BY <1>3, <1>7
  <2>2. Along(list, start, k + 1, v + 1, FALSE)
    <3>1. v + 1 \in Int /\ v + 1 >= start
      BY <1>1 DEF Along
    <3>2. k + 1 \in 1 .. k + 1 /\ v + 1 = list[k + 1] + 1
      BY <1>7
    <3>3. ASSUME NEW j \in 1 .. k + 1 PROVE list[j] < v + 1
      <4>1. CASE j = k + 1
        BY <1>1, <1>7, <4>1
      <4>2. CASE j # k + 1
        <5>1. j \in 1 .. k
          BY <4>2
        <5>2. list[j] < v /\ list[j] \in Nat
          BY <1>4, <1>7, <5>1 DEF Along
        <5> QED
          BY <1>1, <5>2
      <4> QED
        BY <4>1, <4>2
    <3> QED
      BY <3>1, <3>2, <3>3 DEF Along
  <2> HIDE DEF r
  <2>3. v + 1 \in Int
    BY <1>1
  <2> QED
    BY <2>1, <2>2, <2>3 DEF r
<1>8. CASE ~g /\ f < v
  <2>1. r = [ind |-> Sn(v), gap |-> FALSE]
    BY <1>3, <1>8
  <2>2. Along(list, start, k + 1, v, FALSE)
    <3>1. v >= start /\ (v = start \/ \E j \in 1 .. k + 1 : v = list[j] + 1)
      BY DEF Along
    <3>2. ASSUME NEW j \in 1 .. k + 1 PROVE list[j] < v
      <4>1. CASE j = k + 1
        BY <1>8, <4>1
      <4>2. CASE j # k + 1
        <5>1. j \in 1 .. k
          BY <4>2
        <5> QED
          BY <1>8, <5>1 DEF Along
      <4> QED
        BY <4>1, <4>2
    <3> QED
      BY <1>1, <3>1, <3>2 DEF Along
  <2> HIDE DEF r
  <2> QED
    BY <1>1, <2>1, <2>2 DEF r
<1>9. g \/ (~g /\ v < f) \/ (~g /\ v = f) \/ (~g /\ f < v)
  BY <1>1, <1>2
<1> QED
  BY <1>5, <1>6, <1>7, <1>8, <1>9

\* What the walk computes: it passes the frames it may and stops at a number that the buffer
\* does not hold; there is a gap exactly if a frame lies ahead of it.
LEMMA WalkEnds ==
    ASSUME NEW list, NEW lo, NEW hi, Near(list, lo, hi), NEW start \in Int, lo <= start,
           start <= hi + 1
    PROVE  \E v \in Int :
               /\ v >= start /\ (v = start \/ \E j \in DOMAIN list : v = list[j] + 1)
               /\ Process(Sn(start), list).ind = Sn(v)
               /\ Process(Sn(start), list).gap = (\E j \in DOMAIN list : list[j] > v)
               /\ \A j \in DOMAIN list : list[j] # v
<1> DEFINE N == Len(list)
<1>0. list \in Seq(Nat) /\ DOMAIN list = 1 .. N /\ N \in Nat
  BY DEF Near
<1>1. PICK h : /\ h[0] = [ind |-> Sn(start), gap |-> FALSE]
               /\ \A k \in 1 .. Len(list) : h[k] = Visit(h[k - 1], list[k])
               /\ Process(Sn(start), list) = h[Len(list)]
  BY <1>0, WalkIs
<1> DEFINE B(k) == \E v \in Int, g \in BOOLEAN :
                       h[k] = [ind |-> Sn(v), gap |-> g] /\ Along(list, start, k, v, g)
           A == {k \in Nat : k <= N => B(k)}
<1>2. 0 \in A
  <2>1. Along(list, start, 0, start, FALSE)
    BY DEF Along
  <2>2. B(0)
    BY <1>1, <2>1
  <2> QED
    BY <2>2
<1>3. ASSUME NEW k \in Nat, k \in A PROVE k + 1 \in A
  <2> SUFFICES ASSUME k + 1 <= N PROVE B(k + 1)
    <3> HIDE DEF B
    <3> QED
      BY <1>3
  <2>1. k <= N /\ k + 1 \in DOMAIN list /\ k + 1 \in 1 .. Len(list) /\ (k + 1) - 1 = k
    BY <1>0
  <2>2. PICK v \in Int, g \in BOOLEAN :
            h[k] = [ind |-> Sn(v), gap |-> g] /\ Along(list, start, k, v, g)
    BY <1>3, <2>1
  <2>3. h[k + 1] = Visit([ind |-> Sn(v), gap |-> g], list[k + 1])
    BY <1>1, <2>1, <2>2
  <2>4. PICK u \in Int, d \in BOOLEAN :
            /\ Visit([ind |-> Sn(v), gap |-> g], list[k + 1]) = [ind |-> Sn(u), gap |-> d]
            /\ Along(list, start, k + 1, u, d)
    <3>1. v \in Int /\ g \in BOOLEAN /\ Along(list, start, k, v, g)
      BY <2>2
    <3> QED
      BY <2>1, <3>1, AlongStep, Zenon
  <2> QED
    BY <2>3, <2>4
<1>4. B(N)
  <2>1. N \in A
    <3> HIDE DEF A, N
    <3> QED
      BY <1>0, <1>2, <1>3, Induction
  <2> QED
    BY <1>0, <2>1
<1>5. PICK v \in Int, g \in BOOLEAN :
          h[N] = [ind |-> Sn(v), gap |-> g] /\ Along(list, start, N, v, g)
  BY <1>4
<1>6. /\ v >= start /\ (v = start \/ \E j \in DOMAIN list : v = list[j] + 1)
  BY <1>0, <1>5 DEF Along
<1>7. Process(Sn(start), list).ind = Sn(v) /\ Process(Sn(start), list).gap = g
  BY <1>1, <1>5
<1>8. \A j \in DOMAIN list : list[j] \in Nat
  BY <1>0
<1>9. CASE ~g
  <2>1. \A j \in DOMAIN list : list[j] < v
    BY <1>0, <1>5, <1>9 DEF Along
  <2>2. \A j \in DOMAIN list : list[j] # v /\ ~(list[j] > v)
    BY <1>8, <2>1
  <2>3. g = (\E j \in DOMAIN list : list[j] > v)
    BY <1>9, <2>2, Zenon
  <2> QED
    BY <1>6, <1>7, <2>2, <2>3
<1>10. CASE g
  <2>1. PICK j \in 1 .. N : list[j] > v /\ \A l \in 1 .. j - 1 : list[l] < v
    BY <1>5, <1>10 DEF Along
  <2>2. ASSUME NEW l \in DOMAIN list PROVE list[l] # v
    <3>0. j \in DOMAIN list /\ list[j] \in Nat /\ list[l] \in Nat
      BY <1>0, <1>8
    <3>1. CASE l < j
      <4>1. l \in 1 .. j - 1
        BY <1>0, <3>1
      <4> QED
        BY <2>1, <3>0, <4>1
    <3>2. CASE l = j
      BY <2>1, <3>0, <3>2
    <3>3. CASE l > j
      <4>1. list[j] < list[l]
        BY <3>0, <3>3 DEF Near, Ascending
      <4> QED
        BY <2>1, <3>0, <4>1
    <3> QED
      BY <1>0, <3>1, <3>2, <3>3
  <2>3. g = (\E l \in DOMAIN list : list[l] > v)
    BY <1>0, <1>10, <2>1, Zenon
  <2> QED
    BY <1>6, <1>7, <2>2, <2>3
<1> QED
  BY <1>9, <1>10

-----------------------------------------------------------------------------
(* The walks of reord_rxframes_ind() and reord_rxframe_enqueue(). *)

\* What is passed is a prefix of the buffer.
LEMMA PassedIs ==
    ASSUME NEW list, NEW lo, NEW hi, Near(list, lo, hi), NEW v \in Int, lo <= v, v <= hi + 1,
           \A j \in DOMAIN list : list[j] # v
    PROVE  LET p == Passed(Sn(v), list) IN
           /\ p \in 0 .. Len(list)
           /\ \A j \in 1 .. p : list[j] < v
           /\ \A j \in p + 1 .. Len(list) : list[j] > v
<1> DEFINE T == {k \in 1 .. Len(list) : SN_LESS(Sn(v), Sn(list[k]))}
           p == Passed(Sn(v), list)
<1>0. list \in Seq(Nat) /\ DOMAIN list = 1 .. Len(list) /\ Len(list) \in Nat
  BY DEF Near
<1>1. \A k \in 1 .. Len(list) : list[k] \in Nat /\ (k \in T <=> v < list[k])
  <2> TAKE k \in 1 .. Len(list)
  <2>1. list[k] \in Nat /\ (SN_LESS(Sn(v), Sn(list[k])) <=> v < list[k])
    BY <1>0, NearLess
  <2> QED
    BY <2>1
<1>2. p = IF T = {} THEN Len(list) ELSE Min(T) - 1
  BY DEF Passed
<1>3. T \subseteq 1 .. Len(list) /\ T \subseteq Nat
  BY <1>0
<1> HIDE DEF T, p
<1>4. CASE T = {}
  <2>1. p = Len(list) /\ \A k \in 1 .. Len(list) : list[k] < v
    BY <1>0, <1>1, <1>2, <1>4
  <2> QED
    BY <1>0, <2>1 DEF p
<1>5. CASE T # {}
  <2> DEFINE m == Min(T)
  <2>1. m \in T /\ \A y \in T : m <= y
    BY <1>3, <1>5, MinIsLeast
  <2> HIDE DEF m
  <2>2. m \in 1 .. Len(list) /\ p = m - 1
    BY <1>2, <1>3, <1>5, <2>1 DEF m
  <2>3. ASSUME NEW j \in 1 .. p PROVE list[j] < v
    <3>1. j \in 1 .. Len(list) /\ ~(m <= j)
      BY <1>0, <2>2
    <3>2. ~(v < list[j]) /\ list[j] \in Nat /\ list[j] # v
      BY <1>0, <1>1, <2>1, <3>1
    <3> QED
      BY <3>2
  <2>4. ASSUME NEW j \in p + 1 .. Len(list) PROVE list[j] > v
    <3>1. j \in 1 .. Len(list) /\ m <= j
      BY <1>0, <2>2
    <3>2. v < list[m] /\ list[m] \in Nat /\ list[j] \in Nat
      BY <1>1, <2>1, <2>2, <3>1
    <3>3. m < j => list[m] < list[j]
      BY <1>0, <2>2, <3>1 DEF Near, Ascending
    <3> QED
      BY <2>2, <3>1, <3>2, <3>3
  <2> QED
    BY <1>0, <2>2, <2>3, <2>4 DEF p
<1> QED
  BY <1>4, <1>5

\* The place of a frame: behind the older ones.
LEMMA PlaceIs ==
    ASSUME NEW list, NEW lo, NEW hi, Near(list, lo, hi), NEW n \in Int, lo <= n, n <= hi + 1
    PROVE  LET p == Place(list, Sn(n)) IN
           /\ p \in 1 .. Len(list) + 1
           /\ \A j \in 1 .. p - 1 : list[j] < n
           /\ \A j \in p .. Len(list) : list[j] >= n
           /\ Duplicate(list, Sn(n)) <=> \E j \in DOMAIN list : list[j] = n
<1> DEFINE T == {k \in 1 .. Len(list) : ~ SN_LESS(Sn(list[k]), Sn(n))}
           p == Place(list, Sn(n))
<1>0. list \in Seq(Nat) /\ DOMAIN list = 1 .. Len(list) /\ Len(list) \in Nat
  BY DEF Near
<1>1. \A k \in 1 .. Len(list) : /\ list[k] \in Nat /\ (k \in T <=> ~(list[k] < n))
                                /\ Sn(list[k]) = Sn(n) <=> list[k] = n
  <2> TAKE k \in 1 .. Len(list)
  <2>1. /\ list[k] \in Nat /\ (SN_LESS(Sn(list[k]), Sn(n)) <=> list[k] < n)
        /\ Sn(n) = Sn(list[k]) <=> n = list[k]
    BY <1>0, NearLess
  <2> QED
    BY <2>1
<1>2. p = IF T = {} THEN Len(list) + 1 ELSE Min(T)
  BY DEF Place
<1>3. T \subseteq 1 .. Len(list) /\ T \subseteq Nat
  BY <1>0
<1>4. Duplicate(list, Sn(n)) <=> p <= Len(list) /\ Sn(list[p]) = Sn(n)
  BY DEF Duplicate
<1> HIDE DEF T, p
<1>5. CASE T = {}
  <2>1. p = Len(list) + 1 /\ \A k \in 1 .. Len(list) : list[k] < n /\ list[k] # n
    BY <1>0, <1>1, <1>2, <1>5
  <2>2. ~Duplicate(list, Sn(n))
    BY <1>0, <1>4, <2>1
  <2>3. ~(\E j \in DOMAIN list : list[j] = n)
    BY <1>0, <2>1
  <2>4. (\A j \in 1 .. p - 1 : list[j] < n) /\ (\A j \in p .. Len(list) : list[j] >= n)
    BY <1>0, <2>1
  <2> QED
    BY <1>0, <2>1, <2>2, <2>3, <2>4 DEF p
<1>6. CASE T # {}
  <2>1. p \in T /\ \A y \in T : p <= y
    BY <1>2, <1>3, <1>6, MinIsLeast
  <2>2. p \in 1 .. Len(list)
    BY <1>3, <2>1
  <2>3. ASSUME NEW j \in 1 .. p - 1 PROVE list[j] < n
    <3>1. j \in 1 .. Len(list) /\ ~(p <= j)
      BY <1>0, <2>2
    <3> QED
      BY <1>1, <2>1, <3>1
  <2>4. ASSUME NEW j \in p .. Len(list) PROVE list[j] >= n /\ (j # p => list[j] > n)
    <3>1. j \in 1 .. Len(list) /\ p <= j
      BY <1>0, <2>2
    <3>2. ~(list[p] < n) /\ list[p] \in Nat /\ list[j] \in Nat
      BY <1>1, <2>1, <2>2, <3>1
    <3>3. p < j => list[p] < list[j]
      BY <1>0, <2>2, <3>1 DEF Near, Ascending
    <3> QED
      BY <2>2, <3>1, <3>2, <3>3
  <2>5. Duplicate(list, Sn(n)) <=> list[p] = n
    BY <1>0, <1>1, <1>4, <2>2
  <2>6. ASSUME NEW j \in DOMAIN list, list[j] = n PROVE j = p
    <3>1. list[j] \in Nat /\ ~(list[j] < n) /\ ~(list[j] > n)
      BY <1>0, <1>1, <2>6
    <3>2. j \notin 1 .. p - 1 /\ (j \in p .. Len(list) => j = p)
      BY <2>3, <2>4, <3>1
    <3> QED
      BY <1>0, <2>2, <3>2
  <2>7. Duplicate(list, Sn(n)) <=> \E j \in DOMAIN list : list[j] = n
    BY <1>0, <2>2, <2>5, <2>6
  <2>8. p \in 1 .. Len(list) + 1
    BY <1>0, <2>2
  <2> QED
    BY <2>3, <2>4, <2>7, <2>8 DEF p
<1> QED
  BY <1>5, <1>6

\* What SubSeq makes of a sequence.
LEMMA SubSeqIs ==
    ASSUME NEW s \in Seq(Nat), NEW i \in Nat, NEW k \in Nat, i > 0, i <= k + 1, k <= Len(s)
    PROVE  LET r == SubSeq(s, i, k) IN
           /\ r \in Seq(Nat) /\ Len(r) = k - i + 1
           /\ \A j \in 1 .. k - i + 1 : r[j] = s[i + j - 1]
<1>1. \A j \in i .. k : s[j] \in Nat
  <2> TAKE j \in i .. k
  <2>1. j \in 1 .. Len(s)
    OBVIOUS
  <2> QED
    BY <2>1
<1>2. i \in Int /\ k \in Int
  OBVIOUS
<1>3. SubSeq(s, i, k) \in Seq(Nat)
  BY <1>1, <1>2, SubSeqProperties
<1>4. Len(SubSeq(s, i, k)) = IF i <= k THEN k - i + 1 ELSE 0
  BY <1>1, <1>2, SubSeqProperties
<1>5. \A j \in 1 .. k - i + 1 : SubSeq(s, i, k)[j] = s[i + j - 1]
  BY <1>1, <1>2, SubSeqProperties
<1> QED
  BY <1>3, <1>4, <1>5

\* What InsertAt makes of a sequence.
LEMMA InsertIs ==
    ASSUME NEW list \in Seq(Nat), NEW p \in 1 .. Len(list) + 1, NEW n \in Nat
    PROVE  LET r == InsertAt(list, p, n) IN
           /\ r \in Seq(Nat) /\ Len(r) = Len(list) + 1 /\ r[p] = n
           /\ \A j \in 1 .. p - 1 : r[j] = list[j]
           /\ \A j \in p + 1 .. Len(list) + 1 : r[j] = list[j - 1]
<1> DEFINE a == SubSeq(list, 1, p - 1)
           b == SubSeq(list, p, Len(list))
           c == a \o <<n>>
<1>0. Len(list) \in Nat /\ p \in Nat /\ DOMAIN list = 1 .. Len(list)
  OBVIOUS
<1>1. /\ a \in Seq(Nat) /\ Len(a) = p - 1 /\ \A j \in 1 .. p - 1 : a[j] = list[j]
  <2>1. /\ a \in Seq(Nat) /\ Len(a) = (p - 1) - 1 + 1
        /\ \A j \in 1 .. (p - 1) - 1 + 1 : a[j] = list[1 + j - 1]
    <3>1. 1 \in Nat /\ p - 1 \in Nat /\ 1 > 0 /\ 1 <= (p - 1) + 1 /\ p - 1 <= Len(list)
      BY <1>0
    <3> QED
      BY <3>1, SubSeqIs
  <2>2. (p - 1) - 1 + 1 = p - 1 /\ \A j \in 1 .. p - 1 : 1 + j - 1 = j
    BY <1>0
  <2> HIDE DEF a
  <2> QED
    BY <1>0, <2>1, <2>2
<1>2. /\ b \in Seq(Nat) /\ Len(b) = Len(list) - p + 1
      /\ \A j \in 1 .. Len(list) - p + 1 : b[j] = list[p + j - 1]
  <2>1. p > 0 /\ p <= Len(list) + 1 /\ Len(list) <= Len(list)
    BY <1>0
  <2> QED
    BY <1>0, <2>1, SubSeqIs
<1> HIDE DEF a, b
<1>3. /\ c \in Seq(Nat) /\ Len(c) = p
      /\ \A j \in 1 .. p : c[j] = IF j <= p - 1 THEN a[j] ELSE n
  <2>1. <<n>> \in Seq(Nat) /\ Len(<<n>>) = 1 /\ <<n>>[1] = n
    OBVIOUS
  <2>2. /\ c \in Seq(Nat) /\ Len(c) = (p - 1) + 1
        /\ \A j \in 1 .. (p - 1) + 1 : c[j] = IF j <= p - 1 THEN a[j] ELSE <<n>>[j - (p - 1)]
    BY <1>1, <2>1, ConcatProperties
  <2>3. (p - 1) + 1 = p /\ \A j \in 1 .. p : ~(j <= p - 1) => j - (p - 1) = 1
    BY <1>0
  <2> HIDE DEF c
  <2> QED
    BY <2>1, <2>2, <2>3
<1> HIDE DEF c
<1> DEFINE r == c \o b
<1>4. /\ r \in Seq(Nat) /\ Len(r) = p + (Len(list) - p + 1)
      /\ \A j \in 1 .. p + (Len(list) - p + 1) : r[j] = IF j <= p THEN c[j] ELSE b[j - p]
  <2>1. /\ r \in Seq(Nat) /\ Len(r) = Len(c) + Len(b)
        /\ \A j \in 1 .. Len(c) + Len(b) : r[j] = IF j <= Len(c) THEN c[j] ELSE b[j - Len(c)]
    BY <1>2, <1>3, ConcatProperties
  <2> HIDE DEF r
  <2> QED
    BY <1>2, <1>3, <2>1, Zenon
<1>5. p + (Len(list) - p + 1) = Len(list) + 1
  BY <1>0
<1>6. InsertAt(list, p, n) = r
  BY DEF InsertAt, a, b, c
<1> HIDE DEF r
<1>7. r[p] = n
  <2>1. p \in 1 .. p /\ p \in 1 .. Len(list) + 1 /\ ~(p <= p - 1)
    BY <1>0
  <2> QED
    BY <1>3, <1>4, <1>5, <2>1
<1>8. ASSUME NEW j \in 1 .. p - 1 PROVE r[j] = list[j]
  <2>1. j \in 1 .. p /\ j \in 1 .. Len(list) + 1 /\ j <= p - 1 /\ j <= p
    BY <1>0
  <2> QED
    BY <1>1, <1>3, <1>4, <1>5, <2>1
<1>9. ASSUME NEW j \in p + 1 .. Len(list) + 1 PROVE r[j] = list[j - 1]
  <2>1. /\ j \in 1 .. Len(list) + 1 /\ ~(j <= p) /\ j - p \in 1 .. Len(list) - p + 1
        /\ p + (j - p) - 1 = j - 1
    BY <1>0
  <2>2. r[j] = b[j - p]
    BY <1>4, <1>5, <2>1
  <2>3. b[j - p] = list[p + (j - p) - 1]
    BY <1>2, <2>1
  <2> QED
    BY <2>1, <2>2, <2>3
<1> QED
  BY <1>4, <1>5, <1>6, <1>7, <1>8, <1>9

\* A frame is filed in order.
LEMMA EnqueueIs ==
    ASSUME NEW list, NEW lo, NEW hi, Near(list, lo, hi), NEW n \in Nat, lo <= n, n <= hi + 1,
           ~Duplicate(list, Sn(n))
    PROVE  LET r == Enqueue(list, n) IN
           /\ r \in Seq(Nat) /\ Len(r) = Len(list) + 1 /\ Ascending(r)
           /\ \A j \in DOMAIN r : r[j] = n \/ \E k \in DOMAIN list : r[j] = list[k]
<1> DEFINE p == Place(list, Sn(n))
           r == InsertAt(list, p, n)
           N == Len(list)
<1>0. list \in Seq(Nat) /\ DOMAIN list = 1 .. N /\ N \in Nat
  BY DEF Near
<1>1. /\ p \in 1 .. N + 1 /\ (\A j \in 1 .. p - 1 : list[j] < n)
      /\ (\A j \in p .. N : list[j] >= n) /\ ~(\E j \in DOMAIN list : list[j] = n)
  BY PlaceIs
<1> HIDE DEF p
<1>2. /\ r \in Seq(Nat) /\ Len(r) = N + 1 /\ r[p] = n
      /\ \A j \in 1 .. p - 1 : r[j] = list[j]
      /\ \A j \in p + 1 .. N + 1 : r[j] = list[j - 1]
  BY <1>0, <1>1, InsertIs
<1>3. Enqueue(list, n) = r
  BY DEF Enqueue, p
<1> HIDE DEF r
<1>4. DOMAIN r = 1 .. N + 1
  BY <1>2
<1> DEFINE Old(j) == IF j < p THEN j ELSE j - 1
<1>5. ASSUME NEW j \in 1 .. N + 1, j # p
      PROVE  /\ Old(j) \in DOMAIN list /\ r[j] = list[Old(j)] /\ list[Old(j)] \in Nat
             /\ IF j < p THEN r[j] < n ELSE r[j] > n
  <2>1. CASE j < p
    <3>1. j \in 1 .. p - 1 /\ j \in 1 .. N
      BY <1>0, <1>1, <2>1
    <3>2. r[j] = list[j] /\ list[j] < n
      BY <1>1, <1>2, <3>1
    <3>3. list[j] \in Nat
      BY <1>0, <3>1
    <3> QED
      BY <1>0, <2>1, <3>1, <3>2, <3>3
  <2>2. CASE ~(j < p)
    <3>1. j \in p + 1 .. N + 1 /\ j - 1 \in p .. N /\ j - 1 \in 1 .. N
      BY <1>0, <1>1, <1>5, <2>2
    <3>2. r[j] = list[j - 1] /\ list[j - 1] >= n /\ list[j - 1] # n
      BY <1>0, <1>1, <1>2, <3>1
    <3>3. list[j - 1] \in Nat
      BY <1>0, <3>1
    <3>4. list[j - 1] > n
      BY <3>2, <3>3
    <3> QED
      BY <1>0, <2>2, <3>1, <3>2, <3>3, <3>4
  <2> QED
    BY <2>1, <2>2
<1>6. ASSUME NEW j \in DOMAIN r, NEW l \in DOMAIN r, j < l PROVE r[j] < r[l]
  <2>0. j \in 1 .. N + 1 /\ l \in 1 .. N + 1 /\ p \in 1 .. N + 1
    BY <1>1, <1>4
  <2>1. CASE j = p
    <3>1. l # p /\ ~(l < p)
      BY <1>0, <1>6, <2>0, <2>1
    <3>2. r[l] > n /\ r[l] \in Nat
      BY <1>5, <2>0, <3>1
    <3> QED
      BY <1>2, <2>1, <3>2
  <2>2. CASE l = p
    <3>1. j # p /\ j < p
      BY <1>0, <1>6, <2>0, <2>2
    <3> QED
      BY <1>2, <1>5, <2>0, <2>2, <3>1
  <2>3. CASE j # p /\ l # p
    <3>1. /\ Old(j) \in DOMAIN list /\ Old(l) \in DOMAIN list
          /\ r[j] = list[Old(j)] /\ r[l] = list[Old(l)]
      BY <1>5, <2>0, <2>3
    <3>2. Old(j) < Old(l)
      BY <1>0, <1>6, <2>0, <2>3
    <3> HIDE DEF Old
    <3> QED
      BY <3>1, <3>2 DEF Near, Ascending
  <2> QED
    BY <2>1, <2>2, <2>3
<1>7. ASSUME NEW j \in DOMAIN r PROVE r[j] = n \/ \E k \in DOMAIN list : r[j] = list[k]
  <2>1. CASE j = p
    BY <1>2, <2>1
  <2>2. CASE j # p
    <3>1. Old(j) \in DOMAIN list /\ r[j] = list[Old(j)]
      BY <1>4, <1>5, <2>2
    <3> HIDE DEF Old
    <3> QED
      BY <3>1
  <2> QED
    BY <2>1, <2>2
<1>8. Ascending(r)
  BY <1>6 DEF Ascending
<1> QED
  BY <1>2, <1>3, <1>7, <1>8

-----------------------------------------------------------------------------
(* Releasing. *)

\* Frames released in order, all newer than the last one, are no disorder.
LEMMA RecordIs ==
    ASSUME NEW i \in Ifaces, last \in [Ifaces -> Nat], ~disorder, NEW frames \in Seq(Nat),
           Ascending(frames), \A j \in DOMAIN frames : last[i] < frames[j], Record(i, frames)
    PROVE  /\ ~disorder' /\ last' \in [Ifaces -> Nat]
           /\ \A o \in Ifaces \ {i} : last'[o] = last[o]
           /\ \/ last'[i] = last[i] /\ frames = <<>>
              \/ \E j \in DOMAIN frames : last'[i] = frames[j]
<1> DEFINE all == <<last[i]>> \o frames
           N == Len(frames)
<1>0. N \in Nat /\ DOMAIN frames = 1 .. N /\ last[i] \in Nat
  OBVIOUS
<1>1. /\ all \in Seq(Nat) /\ Len(all) = N + 1
      /\ \A j \in 1 .. N + 1 : all[j] = IF j <= 1 THEN last[i] ELSE frames[j - 1]
  <2>1. <<last[i]>> \in Seq(Nat) /\ Len(<<last[i]>>) = 1 /\ <<last[i]>>[1] = last[i]
    BY <1>0
  <2>2. /\ all \in Seq(Nat) /\ Len(all) = 1 + N
        /\ \A j \in 1 .. 1 + N : all[j] = IF j <= 1 THEN <<last[i]>>[j] ELSE frames[j - 1]
    BY <2>1, ConcatProperties
  <2>3. 1 + N = N + 1 /\ \A j \in 1 .. N + 1 : j <= 1 => j = 1
    BY <1>0
  <2> HIDE DEF all
  <2> QED
    BY <2>1, <2>2, <2>3
<1>2. /\ last' = [last EXCEPT ![i] = all[Len(all)]]
      /\ disorder' = (disorder \/ \E k \in 1 .. N : all[k] >= all[k + 1])
  BY DEF Record
<1> HIDE DEF all
<1>3. ASSUME NEW k \in 1 .. N PROVE ~(all[k] >= all[k + 1])
  <2>1. k \in 1 .. N + 1 /\ k + 1 \in 1 .. N + 1 /\ ~(k + 1 <= 1) /\ (k + 1) - 1 = k
    BY <1>0
  <2>2. all[k + 1] = frames[k] /\ frames[k] \in Nat
    BY <1>0, <1>1, <2>1
  <2>3. CASE k = 1
    <3>1. all[k] = last[i]
      BY <1>1, <2>1, <2>3
    <3>2. last[i] < frames[k]
      BY <1>0
    <3> QED
      BY <1>0, <2>2, <3>1, <3>2
  <2>4. CASE k # 1
    <3>1. ~(k <= 1) /\ k - 1 \in 1 .. N /\ k - 1 < k
      BY <1>0, <2>4
    <3>2. all[k] = frames[k - 1] /\ frames[k - 1] \in Nat
      BY <1>0, <1>1, <2>1, <3>1
    <3>3. frames[k - 1] < frames[k]
      BY <1>0, <3>1 DEF Ascending
    <3> QED
      BY <2>2, <3>2, <3>3
  <2> QED
    BY <2>3, <2>4
<1>4. ~disorder'
  BY <1>2, <1>3
<1>5. all[N + 1] \in Nat
  <2>1. N + 1 \in 1 .. Len(all)
    BY <1>0, <1>1
  <2> QED
    BY <1>1, <2>1
<1>6. last' \in [Ifaces -> Nat] /\ last'[i] = all[N + 1] /\ \A o \in Ifaces \ {i} : last'[o] = last[o]
  BY <1>1, <1>2, <1>5
<1>7. CASE N = 0
  <2>1. all[N + 1] = last[i]
    BY <1>1, <1>7
  <2>2. frames = <<>>
    BY <1>7
  <2> QED
    BY <1>4, <1>6, <2>1, <2>2
<1>8. CASE N # 0
  <2>1. N + 1 \in 1 .. N + 1 /\ ~(N + 1 <= 1) /\ (N + 1) - 1 = N /\ N \in 1 .. N
    BY <1>0, <1>8
  <2>2. all[N + 1] = frames[N]
    BY <1>1, <2>1
  <2> QED
    BY <1>0, <1>4, <1>6, <2>1, <2>2
<1> QED
  BY <1>7, <1>8

\* A number of ind_sn that fits a buffer and is none of its frames.
Stop(list, lo, hi, v) ==
    /\ Near(list, lo, hi) /\ v \in Int /\ lo <= v /\ v <= hi + 1
    /\ \A j \in DOMAIN list : list[j] # v

\* The frames of list are newer than what the buffer of interface i has released.
Unseen(i, list) == \A j \in DOMAIN list : last[i] < list[j]

\* A step that leaves the frames of list ahead of v in the buffer of interface i and
\* releases the others in order.
Released(i, list, v) ==
    /\ reord_list' \in [Ifaces -> Seq(Nat)]
    /\ \A o \in Ifaces \ {i} : reord_list'[o] = reord_list[o]
    /\ free' \in Nat /\ free' + Len(reord_list'[i]) = free + Len(list)
    /\ Ascending(reord_list'[i])
    /\ \A k \in DOMAIN reord_list'[i] :
           reord_list'[i][k] > v /\ \E j \in DOMAIN list : reord_list'[i][k] = list[j]
    /\ ~disorder' /\ last' \in [Ifaces -> Nat]
    /\ \A o \in Ifaces \ {i} : last'[o] = last[o]
    /\ last'[i] = last[i] \/ \E j \in DOMAIN list : list[j] < v /\ last'[i] = list[j]

\* Taking what lies before ind_sn from the head of a buffer in order: what remains is the part
\* ahead of it.
LEMMA ReleaseIs ==
    ASSUME NEW i \in Ifaces, NEW list, NEW lo, NEW hi, NEW v, Stop(list, lo, hi, v),
           reord_list \in [Ifaces -> Seq(Nat)], last \in [Ifaces -> Nat], ~disorder,
           free \in Nat, Unseen(i, list), Release(i, Sn(v), list)
    PROVE  Released(i, list, v)
<1> DEFINE N == Len(list)
           p == Passed(Sn(v), list)
           gone == SubSeq(list, 1, p)
           rest == SubSeq(list, p + 1, N)
<1>0. list \in Seq(Nat) /\ N \in Nat /\ DOMAIN list = 1 .. N /\ Ascending(list)
  BY DEF Stop, Near
<1>1. /\ p \in 0 .. N /\ (\A j \in 1 .. p : list[j] < v)
      /\ \A j \in p + 1 .. N : list[j] > v
  BY PassedIs DEF Stop
<1>2. /\ reord_list' = [reord_list EXCEPT ![i] = rest] /\ free' = free + p
      /\ Record(i, gone)
  BY DEF Release
<1> HIDE DEF p
<1>3. /\ gone \in Seq(Nat) /\ Len(gone) = p - 1 + 1
      /\ \A j \in 1 .. p - 1 + 1 : gone[j] = list[1 + j - 1]
  <2>1. 1 \in Nat /\ p \in Nat /\ 1 > 0 /\ 1 <= p + 1 /\ p <= Len(list)
    BY <1>0, <1>1
  <2> QED
    BY <1>0, <2>1, SubSeqIs
<1>4. /\ rest \in Seq(Nat) /\ Len(rest) = N - (p + 1) + 1
      /\ \A j \in 1 .. N - (p + 1) + 1 : rest[j] = list[(p + 1) + j - 1]
  <2>1. p + 1 \in Nat /\ N \in Nat /\ p + 1 > 0 /\ p + 1 <= N + 1 /\ N <= Len(list)
    BY <1>0, <1>1
  <2> HIDE DEF N
  <2> QED
    BY <1>0, <2>1, SubSeqIs
<1> HIDE DEF gone, rest, N
<1>5. DOMAIN gone = 1 .. p /\ \A j \in 1 .. p : j \in DOMAIN list /\ gone[j] = list[j]
  <2>1. p - 1 + 1 = p /\ \A j \in 1 .. p : 1 + j - 1 = j /\ j \in 1 .. N
    BY <1>0, <1>1
  <2> QED
    BY <1>0, <1>3, <2>1
<1>6. DOMAIN rest = 1 .. N - p /\ Len(rest) = N - p
  BY <1>0, <1>1, <1>4
<1>7. \A j \in 1 .. N - p : p + j \in DOMAIN list /\ rest[j] = list[p + j] /\ p + j \in p + 1 .. N
  <2>1. /\ N - (p + 1) + 1 = N - p
        /\ \A j \in 1 .. N - p : (p + 1) + j - 1 = p + j /\ p + j \in 1 .. N /\ p + j \in p + 1 .. N
    BY <1>0, <1>1
  <2> QED
    BY <1>0, <1>4, <2>1
<1>8. reord_list'[i] = rest /\ \A o \in Ifaces \ {i} : reord_list'[o] = reord_list[o]
  BY <1>2
<1>9. reord_list' \in [Ifaces -> Seq(Nat)]
  BY <1>2, <1>4
<1>10. free' \in Nat /\ free' + Len(rest) = free + N
  BY <1>0, <1>1, <1>2, <1>6
<1>11. Ascending(rest)
  <2> SUFFICES ASSUME NEW k \in 1 .. N - p, NEW l \in 1 .. N - p, k < l PROVE rest[k] < rest[l]
    BY <1>6 DEF Ascending
  <2>1. p + k < p + l
    BY <1>0, <1>1
  <2> QED
    BY <1>0, <1>7, <2>1 DEF Ascending
<1>12. \A k \in DOMAIN rest : rest[k] > v /\ \E j \in DOMAIN list : rest[k] = list[j]
  BY <1>1, <1>6, <1>7
<1>13. Ascending(gone)
  <2> SUFFICES ASSUME NEW k \in 1 .. p, NEW l \in 1 .. p, k < l PROVE gone[k] < gone[l]
    BY <1>5 DEF Ascending
  <2> QED
    BY <1>0, <1>5 DEF Ascending
<1>14. \A j \in DOMAIN gone : last[i] < gone[j]
  BY <1>5 DEF Unseen
<1>15. /\ ~disorder' /\ last' \in [Ifaces -> Nat]
       /\ \A o \in Ifaces \ {i} : last'[o] = last[o]
       /\ last'[i] = last[i] \/ \E j \in DOMAIN gone : last'[i] = gone[j]
  BY <1>2, <1>3, <1>13, <1>14, RecordIs
<1>16. last'[i] = last[i] \/ \E j \in DOMAIN list : list[j] < v /\ last'[i] = list[j]
  BY <1>1, <1>5, <1>15
<1> QED
  BY <1>8, <1>9, <1>10, <1>11, <1>12, <1>15, <1>16 DEF N, Released

-----------------------------------------------------------------------------
(* Counting the frames of the lists. *)

\* A place is an interface and a position in its list.
LEMMA PlacesAre ==
    ASSUME NEW q, NEW x
    PROVE  x \in Places(q) <=> \E o \in Ifaces : \E k \in DOMAIN q[o] : x = <<o, k>>
BY DEF Places

\* The places of one list, counted.
LEMMA ListPlaces ==
    ASSUME NEW i, NEW n \in Nat
    PROVE  IsFiniteSet({i} \X (1 .. n)) /\ Cardinality({i} \X (1 .. n)) = n
<1>1. IsFiniteSet({i}) /\ Cardinality({i}) = 1
  BY FS_Singleton
<1>2. IsFiniteSet(1 .. n) /\ Cardinality(1 .. n) = n
  <2>1. 1 \in Int /\ n \in Int
    OBVIOUS
  <2>2. Cardinality(1 .. n) = (IF 1 > n THEN 0 ELSE n - 1 + 1) /\ IsFiniteSet(1 .. n)
    BY <2>1, FS_Interval
  <2> QED
    BY <2>2
<1>3. IsFiniteSet({i} \X (1 .. n))
  BY <1>1, <1>2, FS_Product
<1>4. Cardinality({i} \X (1 .. n)) = Cardinality({i}) * Cardinality(1 .. n)
  BY <1>1, <1>2, FS_Product
<1> QED
  BY <1>1, <1>2, <1>3, <1>4

\* When one list changes, the count changes by what its length does.
LEMMA CountChange ==
    ASSUME NEW q \in [Ifaces -> Seq(Nat)], NEW r \in [Ifaces -> Seq(Nat)], NEW i \in Ifaces,
           \A o \in Ifaces \ {i} : r[o] = q[o], IsFiniteSet(Places(q))
    PROVE  /\ IsFiniteSet(Places(r)) /\ Cardinality(Places(q)) \in Nat
           /\ Cardinality(Places(r)) \in Nat
           /\ Cardinality(Places(r)) + Len(q[i]) = Cardinality(Places(q)) + Len(r[i])
<1> DEFINE P(f) == {i} \X DOMAIN f[i]
           R == {x \in Places(q) : x[1] # i}
<1>1. /\ IsFiniteSet(P(q)) /\ Cardinality(P(q)) = Len(q[i]) /\ Len(q[i]) \in Nat
      /\ IsFiniteSet(P(r)) /\ Cardinality(P(r)) = Len(r[i]) /\ Len(r[i]) \in Nat
  <2>1. /\ Len(q[i]) \in Nat /\ Len(r[i]) \in Nat
        /\ DOMAIN q[i] = 1 .. Len(q[i]) /\ DOMAIN r[i] = 1 .. Len(r[i])
    OBVIOUS
  <2> QED
    BY <2>1, ListPlaces
<1>2. IsFiniteSet(R)
  BY FS_Subset
<1>3. ASSUME NEW f \in [Ifaces -> Seq(Nat)], \A o \in Ifaces \ {i} : f[o] = q[o]
      PROVE  Places(f) = R \cup P(f) /\ R \cap P(f) = {}
  <2>1. ASSUME NEW x \in Places(f) PROVE x \in R \cup P(f)
    <3>1. PICK o \in Ifaces : \E k \in DOMAIN f[o] : x = <<o, k>>
      BY PlacesAre
    <3>2. PICK k \in DOMAIN f[o] : x = <<o, k>>
      BY <3>1
    <3>3. CASE o = i
      BY <3>2, <3>3
    <3>4. CASE o # i
      <4>1. k \in DOMAIN q[o]
        BY <1>3, <3>2, <3>4
      <4>2. x \in Places(q)
        BY <3>2, <4>1, PlacesAre
      <4>3. x[1] = o
        BY <3>2
      <4> QED
        BY <3>4, <4>2, <4>3
    <3> QED
      BY <3>3, <3>4
  <2>2. ASSUME NEW x \in R PROVE x \in Places(f)
    <3>1. PICK o \in Ifaces : \E k \in DOMAIN q[o] : x = <<o, k>>
      BY PlacesAre
    <3>2. PICK k \in DOMAIN q[o] : x = <<o, k>>
      BY <3>1
    <3>3. o # i
      BY <3>2
    <3>4. k \in DOMAIN f[o]
      BY <1>3, <3>2, <3>3
    <3> QED
      BY <3>2, <3>4, PlacesAre
  <2>3. ASSUME NEW x \in P(f) PROVE x \in Places(f)
    <3>1. PICK k \in DOMAIN f[i] : x = <<i, k>>
      OBVIOUS
    <3> QED
      BY <3>1, PlacesAre
  <2>4. R \cap P(f) = {}
    OBVIOUS
  <2> QED
    BY <2>1, <2>2, <2>3, <2>4
<1>4. Places(q) = R \cup P(q) /\ R \cap P(q) = {} /\ Places(r) = R \cup P(r) /\ R \cap P(r) = {}
  BY <1>3
<1> HIDE DEF P, R
<1>5. Cardinality(R) \in Nat
  BY <1>2, FS_CardinalityType
<1>6. IsFiniteSet(Places(r))
  <2>1. IsFiniteSet(R \cup P(r))
    BY <1>1, <1>2, FS_Union
  <2> QED
    BY <1>4, <2>1
<1>7. Cardinality(R \cup P(q)) = Cardinality(R) + Cardinality(P(q)) - Cardinality({})
  BY <1>1, <1>2, <1>4, FS_Union
<1>8. Cardinality(R \cup P(r)) = Cardinality(R) + Cardinality(P(r)) - Cardinality({})
  BY <1>1, <1>2, <1>4, FS_Union
<1>9. Cardinality({}) = 0
  BY FS_EmptySet
<1>10. /\ Cardinality(Places(q)) = Cardinality(R) + Len(q[i])
       /\ Cardinality(Places(r)) = Cardinality(R) + Len(r[i])
  BY <1>1, <1>4, <1>5, <1>7, <1>8, <1>9
<1> QED
  BY <1>1, <1>5, <1>6, <1>10

-----------------------------------------------------------------------------
(* The window moves: reord_need_check() and what follows it. *)

\* How far behind the newest frame the window may stay.
Behind == IF WinSize > Reach THEN WinSize - 1 ELSE Reach - 1

\* The number of ind_sn when frame n has been judged and its number was w.
Start(w, n) ==
    IF n = w THEN n + 1 ELSE IF n > w + WinSize - 1 THEN n - (WinSize - 1) ELSE w

\* How far the newest frame can be ahead of the window once it has been judged.
LEMMA BehindIs ==
    /\ Behind \in Nat /\ WinSize - 1 <= Behind /\ Reach - 1 <= Behind
    /\ Reach > 0 => 2 * (Behind + Reach) < SeqSpace /\ 2 * WinSize < SeqSpace
BY Constants DEF Behind

\* A sequence number is not the mark of an unset window.
LEMMA SnIsSet == \A a \in Int : Sn(a) # NoSn
BY SnType, Constants DEF NoSn

\* The frame is late if the window has passed it.
LEMMA LateIs ==
    ASSUME NEW w \in Int, NEW n \in Int, 2 * (w - n) <= SeqSpace, 2 * (n - w) < SeqSpace
    PROVE  Late(Sn(w), Sn(n)) <=> n < w
<1>1. Begin(Sn(w), Sn(n)) = Sn(w)
  BY SnIsSet DEF Begin
<1>2. SN_LESS(Sn(n), Sn(w)) <=> n < w
  BY SnLess
<1> QED
  BY <1>1, <1>2 DEF Late

\* The first frame of a session is not late and is passed.
LEMMA FirstFrame ==
    ASSUME NEW n \in Int PROVE ~Late(NoSn, Sn(n)) /\ NeedCheck(NoSn, Sn(n)) = Sn(Start(n, n))
<1>1. Begin(NoSn, Sn(n)) = Sn(n)
  BY DEF Begin
<1>2. SN_LESS(Sn(n), Sn(n)) <=> n < n
  <2>1. 2 * (n - n) <= SeqSpace /\ 2 * (n - n) < SeqSpace
    BY Constants
  <2> QED
    BY <2>1, SnLess
<1>3. ~Late(NoSn, Sn(n))
  BY <1>1, <1>2 DEF Late
<1>4. NeedCheck(NoSn, Sn(n)) = Succ(Sn(n))
  BY <1>1 DEF NeedCheck
<1>5. Succ(Sn(n)) = Sn(n + 1)
  BY SnSteps
<1>6. Start(n, n) = n + 1
  BY DEF Start
<1> QED
  BY <1>3, <1>4, <1>5, <1>6

\* Where reord_need_check() leaves ind_sn.
LEMMA NeedCheckIs ==
    ASSUME NEW w \in Int, NEW n \in Int, n >= w, 2 * (n - w) < SeqSpace
    PROVE  /\ NeedCheck(Sn(w), Sn(n)) = Sn(Start(w, n))
           /\ Start(w, n) \in Int /\ Start(w, n) >= w /\ Start(w, n) <= n + 1
           /\ n <= Start(w, n) + WinSize - 1
<1> DEFINE e == w + WinSize - 1
           wend == (Sn(w) + WinSize - 1) % SeqSpace
<1>1. Begin(Sn(w), Sn(n)) = Sn(w)
  BY SnIsSet DEF Begin
<1>2. Sn(n) = Sn(w) <=> n = w
  <2>1. w - n < SeqSpace /\ n - w < SeqSpace
    BY Constants
  <2> QED
    BY <2>1, SnEqual
<1>3. wend = Sn(e) /\ e \in Int
  BY SnSteps, Constants
<1>4. SN_LESS(wend, Sn(n)) <=> e < n
  <2>1. 2 * (n - e) <= SeqSpace /\ 2 * (e - n) < SeqSpace
    BY Constants
  <2> HIDE DEF e
  <2> QED
    BY <1>3, <2>1, SnLess
<1> HIDE DEF wend
<1>5. NeedCheck(Sn(w), Sn(n)) =
        CASE Sn(n) = Sn(w) -> Succ(Sn(n))
          [] Sn(n) # Sn(w) /\ SN_LESS(wend, Sn(n)) ->
               IF Sn(n) >= WinSize - 1 THEN Sn(n) - (WinSize - 1)
                                       ELSE SeqSpace - 1 - (WinSize - (Sn(n) + 1)) + 1
          [] OTHER -> Sn(w)
  BY <1>1 DEF NeedCheck, wend
<1>6. CASE n = w
  <2>1. NeedCheck(Sn(w), Sn(n)) = Succ(Sn(n))
    BY <1>2, <1>5, <1>6
  <2>2. Succ(Sn(n)) = Sn(n + 1)
    BY SnSteps
  <2>3. Start(w, n) = n + 1
    BY <1>6 DEF Start
  <2> QED
    BY <1>6, <2>1, <2>2, <2>3, Constants
<1>7. CASE n # w /\ e < n
  <2>1. NeedCheck(Sn(w), Sn(n)) = Sn(n - (WinSize - 1))
    <3>1. NeedCheck(Sn(w), Sn(n)) = IF Sn(n) >= WinSize - 1 THEN Sn(n) - (WinSize - 1)
                                    ELSE SeqSpace - 1 - (WinSize - (Sn(n) + 1)) + 1
      BY <1>2, <1>4, <1>5, <1>7
    <3> QED
      BY <3>1, SnSteps
  <2>2. Start(w, n) = n - (WinSize - 1)
    BY <1>7 DEF Start
  <2>3. n - (WinSize - 1) \in Int /\ n - (WinSize - 1) >= w /\ n - (WinSize - 1) <= n + 1
        /\ n <= n - (WinSize - 1) + WinSize - 1
    BY <1>7, Constants
  <2> QED
    BY <2>1, <2>2, <2>3
<1>8. CASE n # w /\ ~(e < n)
  <2>1. NeedCheck(Sn(w), Sn(n)) = Sn(w)
    BY <1>2, <1>4, <1>5, <1>8
  <2>2. n <= w + WinSize - 1 /\ ~(n > w + WinSize - 1)
    BY <1>8, Constants
  <2>3. Start(w, n) = w
    BY <1>8, <2>2 DEF Start
  <2> QED
    BY <1>8, <2>1, <2>2, <2>3
<1> QED
  BY <1>6, <1>7, <1>8

\* A buffer of a window at w, and a frame the window has not passed.
Fits(list, w, n) ==
    /\ list \in Seq(Nat) /\ Ascending(list) /\ w \in Nat /\ n \in Nat
    /\ \A k \in DOMAIN list : w < list[k] /\ list[k] < w + WinSize
    /\ n >= w /\ 2 * (n - w) < SeqSpace /\ 2 * WinSize < SeqSpace

\* The frame is compared with the buffer.
LEMMA FitsNear ==
    ASSUME NEW list, NEW w, NEW n, Fits(list, w, n)
    PROVE  \E hi \in Int : Near(list, w, hi) /\ n <= hi + 1
<1>1. w \in Nat /\ n \in Nat /\ 2 * (n - w) < SeqSpace /\ 2 * WinSize < SeqSpace
  BY DEF Fits
<1>2. ASSUME NEW k \in DOMAIN list PROVE list[k] \in Nat /\ w < list[k] /\ list[k] < w + WinSize
  <2>1. list \in Seq(Nat)
    BY DEF Fits
  <2>2. list[k] \in Nat
    BY <2>1
  <2> QED
    BY <2>2 DEF Fits
<1> DEFINE hi == IF n >= w + WinSize THEN n - 1 ELSE w + WinSize - 1
<1>3. /\ hi \in Int /\ 2 * (hi + 1 - w) < SeqSpace /\ n <= hi + 1 /\ w + WinSize - 1 <= hi
      /\ w \in Int
  BY <1>1, Constants
<1> HIDE DEF hi
<1>4. \A k \in DOMAIN list : w <= list[k] /\ list[k] <= hi
  <2> TAKE k \in DOMAIN list
  <2>1. list[k] \in Nat /\ w < list[k] /\ list[k] < w + WinSize
    BY <1>2
  <2> QED
    BY <1>1, <1>3, <2>1, Constants
<1>5. Near(list, w, hi)
  BY <1>3, <1>4 DEF Near, Fits
<1> QED
  BY <1>3, <1>5

\* A frame the buffer holds lies inside the window and leaves ind_sn alone.
LEMMA DuplicateIs ==
    ASSUME NEW list, NEW w, NEW n, Fits(list, w, n), Duplicate(list, Sn(n))
    PROVE  n < w + WinSize /\ NeedCheck(Sn(w), Sn(n)) = Sn(w)
<1>0. w \in Nat /\ n \in Nat /\ n >= w /\ 2 * (n - w) < SeqSpace /\ w \in Int /\ n \in Int
  BY DEF Fits
<1>1. PICK hi \in Int : Near(list, w, hi) /\ n <= hi + 1
  BY FitsNear
<1>2. PICK j \in DOMAIN list : list[j] = n
  <2>1. Duplicate(list, Sn(n)) <=> \E j \in DOMAIN list : list[j] = n
    BY <1>0, <1>1, PlaceIs
  <2> QED
    BY <2>1
<1>3. w < n /\ n < w + WinSize
  BY <1>2 DEF Fits
<1>4. n # w /\ n <= w + WinSize - 1 /\ ~(n > w + WinSize - 1)
  BY <1>0, <1>3, Constants
<1>5. Start(w, n) = w
  BY <1>4 DEF Start
<1>6. NeedCheck(Sn(w), Sn(n)) = Sn(Start(w, n))
  BY <1>0, NeedCheckIs
<1> QED
  BY <1>3, <1>5, <1>6

\* A new frame is filed, and the walk that follows begins within reach of the buffer.
LEMMA Filed ==
    ASSUME NEW list, NEW w, NEW n, Fits(list, w, n), ~Duplicate(list, Sn(n))
    PROVE  \E lo, hi \in Int :
               /\ Near(Enqueue(list, n), lo, hi) /\ lo <= Start(w, n) /\ Start(w, n) <= hi + 1
               /\ Len(Enqueue(list, n)) = Len(list) + 1
               /\ \A j \in DOMAIN Enqueue(list, n) :
                      LET f == Enqueue(list, n)[j] IN
                      f \in Nat /\ w <= f /\ f < Start(w, n) + WinSize
                          /\ (f = n \/ \E k \in DOMAIN list : f = list[k])
<1> DEFINE r == Enqueue(list, n)
           start == Start(w, n)
<1>0. w \in Nat /\ n \in Nat /\ n >= w /\ 2 * (n - w) < SeqSpace /\ 2 * WinSize < SeqSpace
      /\ w \in Int /\ n \in Int
  BY DEF Fits
<1>1. PICK h \in Int : Near(list, w, h) /\ n <= h + 1
  BY FitsNear
<1>2. /\ r \in Seq(Nat) /\ Len(r) = Len(list) + 1 /\ Ascending(r)
      /\ \A j \in DOMAIN r : r[j] = n \/ \E k \in DOMAIN list : r[j] = list[k]
  BY <1>0, <1>1, EnqueueIs
<1>3. start \in Int /\ start >= w /\ start <= n + 1 /\ n <= start + WinSize - 1
  BY <1>0, NeedCheckIs
<1>4. list \in Seq(Nat) /\ \A k \in DOMAIN list : w < list[k] /\ list[k] < w + WinSize
  BY DEF Fits
<1>5. (n = w /\ start = w + 1) \/ (n > w + WinSize - 1 /\ start >= w + 1)
        \/ (n # w /\ n <= w + WinSize - 1 /\ start = w)
  BY <1>0, Constants DEF Start
<1> HIDE DEF r, start
<1>6. ASSUME NEW j \in DOMAIN r
      PROVE  /\ r[j] \in Nat /\ w <= r[j] /\ r[j] < start + WinSize
             /\ r[j] = n \/ (w < r[j] /\ r[j] < w + WinSize)
  <2>1. r[j] \in Nat
    BY <1>2
  <2>2. CASE r[j] = n
    BY <1>0, <1>3, <2>2, Constants
  <2>3. CASE r[j] # n
    <3>1. PICK k \in DOMAIN list : r[j] = list[k]
      BY <1>2, <2>3
    <3>2. w < r[j] /\ r[j] < w + WinSize
      BY <1>4, <3>1
    <3> QED
      BY <1>0, <1>3, <2>1, <3>2, Constants
  <2> QED
    BY <2>2, <2>3
<1> DEFINE lo == IF n > w + WinSize - 1 THEN w + 1 ELSE w
           hi == IF n > w + WinSize - 1 THEN n ELSE w + WinSize - 1
<1>7. /\ lo \in Int /\ hi \in Int /\ 2 * (hi + 1 - lo) < SeqSpace /\ lo <= start /\ start <= hi + 1
  BY <1>0, <1>3, <1>5, Constants
<1>8. ASSUME NEW j \in DOMAIN r PROVE lo <= r[j] /\ r[j] <= hi
  <2>1. /\ r[j] \in Nat /\ w <= r[j] /\ (r[j] = n \/ (w < r[j] /\ r[j] < w + WinSize))
    BY <1>6
  <2> QED
    BY <1>0, <2>1, Constants
<1> HIDE DEF lo, hi
<1>9. Near(r, lo, hi)
  BY <1>2, <1>7, <1>8 DEF Near
<1>10. \A j \in DOMAIN r : r[j] \in Nat /\ w <= r[j] /\ r[j] < start + WinSize
                              /\ (r[j] = n \/ \E k \in DOMAIN list : r[j] = list[k])
  BY <1>2, <1>6
<1> QED
  BY <1>2, <1>7, <1>9, <1>10 DEF r, start

-----------------------------------------------------------------------------
(* The inductive invariant. *)

\* The flags, the threads and the interfaces they work on have their types.
Flags ==
    /\ sta \in [Ifaces -> BOOLEAN] /\ enable \in [Ifaces -> BOOLEAN]
    /\ timer \in [Ifaces -> BOOLEAN] /\ handler \in [Ifaces -> BOOLEAN]
    /\ work \in [Ifaces -> BOOLEAN] /\ torn \in [Ifaces -> BOOLEAN]
    /\ iftype \in [Ifaces -> {"STATION", "AP"}]
    /\ vif \in Ifaces \cup Others /\ at \in [Threads -> Ifaces \cup {NoIface}]
    /\ stas_lock \in {"none", "user", "rmmod"}
    /\ pc \in [Threads -> {"idle", "found", "fl_list", "fl_timer", "fl_work", "de_timer",
                           "de_free", "down", "next", "stop", "gone"}]
    /\ bus \in {"UP", "DOWN"} /\ doomed \in BOOLEAN /\ disorder \in BOOLEAN
    /\ misrouted \in BOOLEAN

\* The numbers and the lists have theirs.
Numbers ==
    /\ ind_sn \in [Ifaces -> (0 .. SeqSpace - 1) \cup {NoSn}]
    /\ reord_list \in [Ifaces -> Seq(Nat)]
    /\ free \in Nat /\ lost \in Nat /\ pframe \in Nat \cup {NoFrame}
    /\ top \in [Ifaces -> Nat] /\ arrivals \in 0 .. MaxArrivals /\ last \in [Ifaces -> Nat]

\* The receive thread holds a frame of interface i.
Found(i) == pc["rx"] = "found" /\ at["rx"] = i

\* A session that has seen no frame.
Fresh(i) == ind_sn[i] = NoSn /\ reord_list[i] = <<>> /\ last[i] = First

\* The window stands at the frame w: what waits lies inside it, what was released lies
\* behind it, and the newest frame is not too far ahead, unless it is being received.
Span(i, w) ==
    /\ ind_sn[i] = Sn(w) /\ w <= top[i] + 1
    /\ \/ top[i] <= w + Behind
       \/ Found(i) /\ pframe = top[i] /\ top[i] <= w + Behind + Reach
    /\ enable[i] => last[i] < w
    /\ \A k \in DOMAIN reord_list[i] :
           /\ w < reord_list[i][k] /\ reord_list[i][k] < w + WinSize
           /\ reord_list[i][k] <= top[i]

\* What is true of the window of interface i in every state.
Window(i) ==
    /\ Fresh(i) \/ \E w \in Nat : Span(i, w)
    /\ Ascending(reord_list[i])
    /\ reord_list[i] # <<>> => enable[i]
    /\ Found(i) => /\ top[i] - Reach <= pframe /\ pframe <= top[i]
                   /\ pframe > First /\ Reach > 0

\* The receive thread holds a frame of the pool exactly between its two steps.
Held == pc["rx"] = "found" <=> pframe # NoFrame

\* Thread t is inside reord_deinit_sta(), past its first step.
TearingDown(t) == pc[t] \in {"de_timer", "de_free"}

\* A flushed window is empty until the next frame, a window that is torn down is empty and
\* then untimed unless a frame was filed in it, and who tears down under stas_reord_lock has it.
Emptied ==
    /\ pc["rx"] \in {"fl_timer", "fl_work"} => reord_list[at["rx"]] = <<>>
    /\ \A t \in Threads : TearingDown(t) => reord_list[at[t]] = <<>> \/ torn[at[t]]
    /\ \A t \in Threads : pc[t] = "de_free" => ~timer[at[t]] \/ torn[at[t]]
    /\ TearingDown("user") => stas_lock = "user"
    /\ pc["rmmod"] = "next" \/ TearingDown("rmmod") => stas_lock = "rmmod"

\* The pool's account is a sum of finitely many places.
Pool == IsFiniteSet(Places(reord_list)) /\ PoolConserved

\* What the windows add to the invariant of ReorderProofs.
Body ==
    /\ Flags /\ Numbers /\ (\A i \in Ifaces : Window(i))
    /\ Held /\ Emptied /\ Pool /\ ReleasedInOrder /\ GapTimed

\* The inductive invariant: the threads need the windows and the windows the threads.
WInv == RInv /\ Body

\* What the receive thread's comparison with ind_sn finds.
LEMMA JudgedIs ==
    ASSUME NEW i \in Ifaces, Numbers, Window(i), Found(i), pframe \in Nat,
           NEW w \in Nat, Span(i, w)
    PROVE  /\ Late(ind_sn[i], Sn(pframe)) <=> pframe < w
           /\ pframe >= w => Fits(reord_list[i], w, pframe)
<1> DEFINE n == pframe
           T == top[i]
<1>1. /\ T \in Nat /\ n \in Nat /\ T - Reach <= n /\ n <= T /\ Reach > 0
      /\ w <= T + 1 /\ (T <= w + Behind \/ T <= w + Behind + Reach)
  BY DEF Numbers, Window, Span
<1>2. /\ Behind \in Nat /\ 2 * (Behind + Reach) < SeqSpace /\ 2 * WinSize < SeqSpace
      /\ Reach \in Nat
  BY <1>1, BehindIs, Constants
<1> HIDE DEF n, T
<1>3. 2 * (w - n) <= SeqSpace /\ 2 * (n - w) < SeqSpace /\ n \in Int /\ w \in Int
  BY <1>1, <1>2, Constants
<1>4. Late(Sn(w), Sn(n)) <=> n < w
  BY <1>3, LateIs
<1>5. ind_sn[i] = Sn(w)
  BY DEF Span
<1>6. ASSUME n >= w PROVE Fits(reord_list[i], w, n)
  <2>1. reord_list[i] \in Seq(Nat) /\ Ascending(reord_list[i])
    BY DEF Numbers, Window
  <2>2. \A k \in DOMAIN reord_list[i] : w < reord_list[i][k] /\ reord_list[i][k] < w + WinSize
    BY DEF Span
  <2> QED
    BY <1>1, <1>2, <1>3, <1>6, <2>1, <2>2 DEF Fits
<1> QED
  BY <1>4, <1>5, <1>6 DEF n

\* Where the window stands when a frame is judged and is not late.
LEMMA NotLate ==
    ASSUME NEW i \in Ifaces, Numbers, Window(i), Found(i), enable[i], pframe \in Nat,
           ~Late(ind_sn[i], Sn(pframe))
    PROVE  \E w \in Nat :
               /\ Fits(reord_list[i], w, pframe) /\ last[i] < w
               /\ NeedCheck(ind_sn[i], Sn(pframe)) = Sn(Start(w, pframe))
               /\ Start(w, pframe) \in Int /\ Start(w, pframe) >= w
               /\ Start(w, pframe) <= top[i] + 1 /\ top[i] <= Start(w, pframe) + Behind
               /\ \A k \in DOMAIN reord_list[i] : reord_list[i][k] <= top[i]
<1> DEFINE n == pframe
           T == top[i]
           L == reord_list[i]
<1>1. /\ T \in Nat /\ n \in Nat /\ n \in Int /\ T - Reach <= n /\ n <= T /\ Reach > 0 /\ n > First
      /\ L \in Seq(Nat)
  BY DEF Numbers, Window
<1>2. /\ Behind \in Nat /\ 2 * (Behind + Reach) < SeqSpace /\ 2 * WinSize < SeqSpace
      /\ WinSize - 1 <= Behind /\ Reach - 1 <= Behind /\ Reach \in Nat /\ First \in Nat
  BY <1>1, BehindIs, Constants
<1>3. CASE Fresh(i)
  <2>1. ind_sn[i] = NoSn /\ L = <<>> /\ last[i] = First
    BY <1>3 DEF Fresh
  <2> HIDE DEF n, T
  <2>2. NeedCheck(NoSn, Sn(n)) = Sn(Start(n, n)) /\ Start(n, n) = n + 1
    BY <1>1, FirstFrame DEF Start
  <2>3. Fits(L, n, n)
    <3>1. L \in Seq(Nat) /\ DOMAIN L = {} /\ n >= n /\ 2 * (n - n) < SeqSpace
      BY <1>1, <2>1, Constants
    <3> HIDE DEF L
    <3> QED
      BY <1>1, <1>2, <3>1 DEF Fits, Ascending
  <2>4. /\ last[i] < n /\ n + 1 \in Int /\ n + 1 >= n /\ n + 1 <= T + 1 /\ T <= n + 1 + Behind
    BY <1>1, <1>2, <2>1, Constants
  <2>5. \A k \in DOMAIN L : L[k] <= T
    BY <2>1
  <2> HIDE DEF L
  <2> QED
    BY <1>1, <2>1, <2>2, <2>3, <2>4, <2>5 DEF n, T, L
<1>4. CASE ~Fresh(i)
  <2>1. PICK w \in Nat : Span(i, w)
    BY <1>4 DEF Window
  <2>2. n >= w
    <3>1. ~(n < w)
      BY <2>1, JudgedIs
    <3> QED
      BY <1>1, <3>1
  <2>3. Fits(L, w, n)
    BY <2>1, <2>2, JudgedIs
  <2>4. /\ ind_sn[i] = Sn(w) /\ last[i] < w /\ w <= T + 1
        /\ T <= w + Behind \/ n = T
        /\ \A k \in DOMAIN L : L[k] <= T
    BY <2>1 DEF Span
  <2> HIDE DEF n, T, L
  <2> DEFINE s == Start(w, n)
  <2>5. /\ NeedCheck(Sn(w), Sn(n)) = Sn(s) /\ s \in Int /\ s >= w /\ s <= n + 1
        /\ n <= s + WinSize - 1
    <3>1. w \in Int /\ n \in Int /\ 2 * (n - w) < SeqSpace
      BY <1>1, <2>3 DEF Fits
    <3> QED
      BY <2>2, <3>1, NeedCheckIs
  <2> HIDE DEF s
  <2>6. s <= T + 1 /\ T <= s + Behind
    BY <1>1, <1>2, <2>4, <2>5, Constants
  <2> QED
    BY <2>3, <2>4, <2>5, <2>6 DEF n, T, L, s
<1> QED
  BY <1>3, <1>4

\* What a walk from start over the frames of list keeps inside the window of interface i.
Ahead(i, list, start) ==
    /\ last[i] < start /\ start <= top[i] + 1
    /\ \A j \in DOMAIN list :
           last[i] < list[j] /\ list[j] < start + WinSize /\ list[j] <= top[i]

\* A walk from the number start over list, whose frames lie between lo and hi, and the release
\* of what it has passed.
Walked(i, list, lo, hi, start, walk) ==
    /\ Near(list, lo, hi) /\ lo <= start /\ start <= hi + 1 /\ Ahead(i, list, start)
    /\ walk = Process(Sn(start), list)
    /\ ind_sn' = [ind_sn EXCEPT ![i] = walk.ind]
    /\ Release(i, walk.ind, list)

\* What they leave: a window again, at a number from start on.
Moved(i, list, start, walk) ==
    /\ \E v \in Nat :
           /\ v >= start /\ v <= top[i] + 1 /\ ind_sn'[i] = Sn(v) /\ last'[i] < v
           /\ \A k \in DOMAIN reord_list'[i] :
                  /\ v < reord_list'[i][k] /\ reord_list'[i][k] < v + WinSize
                  /\ reord_list'[i][k] <= top[i]
    /\ Ascending(reord_list'[i])
    /\ walk.gap \in BOOLEAN /\ (reord_list'[i] # <<>> => walk.gap)
    /\ ind_sn' \in [Ifaces -> (0 .. SeqSpace - 1) \cup {NoSn}]
    /\ reord_list' \in [Ifaces -> Seq(Nat)] /\ last' \in [Ifaces -> Nat] /\ ~disorder'
    /\ free' \in Nat /\ free' + Len(reord_list'[i]) = free + Len(list)
    /\ \A o \in Ifaces \ {i} :
           ind_sn'[o] = ind_sn[o] /\ reord_list'[o] = reord_list[o] /\ last'[o] = last[o]

\* The walk and the release together, from a number of the window's new beginning.
LEMMA WalkReleases ==
    ASSUME NEW i \in Ifaces, Numbers, ~disorder, NEW list, NEW lo, NEW hi, NEW start \in Int,
           NEW walk, Walked(i, list, lo, hi, start, walk)
    PROVE  Moved(i, list, start, walk)
<1>w. /\ Near(list, lo, hi) /\ lo <= start /\ start <= hi + 1 /\ Ahead(i, list, start)
      /\ walk = Process(Sn(start), list)
      /\ ind_sn' = [ind_sn EXCEPT ![i] = walk.ind]
      /\ Release(i, walk.ind, list)
  BY DEF Walked
<1> USE <1>w
<1> DEFINE T == top[i]
           R == reord_list'[i]
<1>0. /\ list \in Seq(Nat) /\ lo \in Int /\ hi \in Int /\ T \in Nat /\ last[i] \in Nat
      /\ reord_list \in [Ifaces -> Seq(Nat)] /\ last \in [Ifaces -> Nat] /\ free \in Nat
      /\ ind_sn \in [Ifaces -> (0 .. SeqSpace - 1) \cup {NoSn}]
  BY DEF Numbers, Near
<1>a. \A j \in DOMAIN list : list[j] \in Nat
  BY <1>0
<1>1. PICK v \in Int :
        /\ v >= start /\ (v = start \/ \E j \in DOMAIN list : v = list[j] + 1)
        /\ walk.ind = Sn(v)
        /\ walk.gap = (\E j \in DOMAIN list : list[j] > v)
        /\ \A j \in DOMAIN list : list[j] # v
  <2>1. PICK v \in Int :
          /\ v >= start /\ (v = start \/ \E j \in DOMAIN list : v = list[j] + 1)
          /\ Process(Sn(start), list).ind = Sn(v)
          /\ Process(Sn(start), list).gap = (\E j \in DOMAIN list : list[j] > v)
          /\ \A j \in DOMAIN list : list[j] # v
    BY WalkEnds
  <2> QED
    BY <2>1, Zenon
<1>b. /\ last[i] < start /\ start <= T + 1
      /\ \A j \in DOMAIN list : last[i] < list[j] /\ list[j] < start + WinSize /\ list[j] <= T
  BY DEF Ahead
<1> HIDE DEF T, R
<1>2. lo <= v /\ v <= hi + 1 /\ v <= T + 1 /\ v \in Nat /\ last[i] < v
  <2>1. CASE v = start
    BY <1>0, <1>b, <2>1
  <2>2. CASE v # start
    <3>1. PICK j \in DOMAIN list : v = list[j] + 1
      BY <1>1, <2>2
    <3>2. list[j] \in Nat /\ list[j] <= hi /\ list[j] <= T /\ last[i] < list[j]
      BY <1>a, <1>b DEF Near
    <3>3. v >= start /\ lo \in Int /\ hi \in Int /\ T \in Nat /\ last[i] \in Nat
      BY <1>0, <1>1
    <3>4. \A f \in Nat, l \in Nat : v = f + 1 /\ f <= hi /\ f <= T /\ l < f =>
              lo <= v /\ v <= hi + 1 /\ v <= T + 1 /\ v \in Nat /\ l < v
      BY <3>3
    <3> QED
      BY <3>1, <3>2, <3>3, <3>4, Zenon
  <2> QED
    BY <2>1, <2>2
<1>3. Release(i, Sn(v), list)
  BY <1>1
<1>4. Unseen(i, list)
  BY <1>b DEF Unseen
<1>5. /\ reord_list' \in [Ifaces -> Seq(Nat)]
      /\ \A o \in Ifaces \ {i} : reord_list'[o] = reord_list[o]
      /\ free' \in Nat /\ free' + Len(R) = free + Len(list)
      /\ Ascending(R)
      /\ \A k \in DOMAIN R : R[k] > v /\ \E j \in DOMAIN list : R[k] = list[j]
      /\ ~disorder' /\ last' \in [Ifaces -> Nat]
      /\ \A o \in Ifaces \ {i} : last'[o] = last[o]
      /\ last'[i] = last[i] \/ \E j \in DOMAIN list : list[j] < v /\ last'[i] = list[j]
  <2>1. Stop(list, lo, hi, v)
    BY <1>1, <1>2 DEF Stop
  <2>2. Released(i, list, v)
    BY <1>0, <1>3, <1>4, <2>1, ReleaseIs
  <2> QED
    BY <2>2 DEF R, Released
<1>6. ind_sn'[i] = Sn(v) /\ ind_sn' \in [Ifaces -> (0 .. SeqSpace - 1) \cup {NoSn}]
      /\ \A o \in Ifaces \ {i} : ind_sn'[o] = ind_sn[o]
  <2>1. Sn(v) \in 0 .. SeqSpace - 1
    BY SnType
  <2> QED
    BY <1>0, <1>1, <2>1
<1>7. last'[i] < v
  BY <1>2, <1>5
<1>8. ASSUME NEW k \in DOMAIN R PROVE v < R[k] /\ R[k] < v + WinSize /\ R[k] <= T
  <2>1. PICK j \in DOMAIN list : R[k] = list[j]
    BY <1>5
  <2>2. list[j] \in Nat /\ list[j] < start + WinSize /\ list[j] <= T
    BY <1>a, <1>b
  <2>3. R[k] > v
    BY <1>5
  <2> QED
    BY <1>1, <2>1, <2>2, <2>3, Constants
<1>9. ASSUME R # <<>> PROVE walk.gap
  <2>1. R \in Seq(Nat)
    BY <1>5 DEF R
  <2>2. 1 \in DOMAIN R
    BY <1>9, <2>1
  <2>3. R[1] > v /\ \E j \in DOMAIN list : R[1] = list[j]
    BY <1>5, <2>2
  <2>4. \E j \in DOMAIN list : list[j] > v
    BY <2>3
  <2> QED
    BY <1>1, <2>4
<1>10. \E u \in Nat :
          /\ u >= start /\ u <= T + 1 /\ ind_sn'[i] = Sn(u) /\ last'[i] < u
          /\ \A k \in DOMAIN R : u < R[k] /\ R[k] < u + WinSize /\ R[k] <= T
  BY <1>1, <1>2, <1>6, <1>7, <1>8
<1>11. walk.gap \in BOOLEAN
  BY <1>1, Zenon
<1> QED
  BY <1>5, <1>6, <1>9, <1>10, <1>11 DEF T, R, Moved

\* A window that is not moved, though it may be emptied.
LEMMA WindowKept ==
    ASSUME NEW o \in Ifaces, Window(o), ind_sn'[o] = ind_sn[o],
           reord_list'[o] = reord_list[o] \/ reord_list'[o] = <<>>,
           top'[o] = top[o], last'[o] = last[o], enable'[o] = enable[o],
           \/ ~Found(o) /\ ~Found(o)'
           \/ (Found(o)' <=> Found(o)) /\ pframe' = pframe
    PROVE  Window(o)'
<1>0. DOMAIN <<>> = {}
  OBVIOUS
<1>1. Fresh(o) => Fresh(o)'
  BY DEF Fresh
<1>2. ASSUME NEW w \in Nat, Span(o, w) PROVE Span(o, w)'
  BY <1>0, <1>2 DEF Span
<1>3. Ascending(reord_list[o])'
  BY <1>0 DEF Window, Ascending
<1> QED
  BY <1>1, <1>2, <1>3 DEF Window

\* A frame is filed: RxBuffer moves one window.
LEMMA BufferMoves ==
    ASSUME WInv, RxBuffer, NEW i, i = at["rx"]
    PROVE  /\ i \in Ifaces /\ enable[i] /\ sta[i]
           /\ ind_sn' \in [Ifaces -> (0 .. SeqSpace - 1) \cup {NoSn}]
           /\ reord_list' \in [Ifaces -> Seq(Nat)] /\ last' \in [Ifaces -> Nat] /\ ~disorder'
           /\ free' \in Nat /\ free' + Len(reord_list'[i]) = free + Len(reord_list[i]) + 1
           /\ (reord_list'[i] # <<>> => timer'[i]) /\ timer' \in [Ifaces -> BOOLEAN]
           /\ \A o \in Ifaces : Window(o)'
           /\ \A o \in Ifaces \ {i} : reord_list'[o] = reord_list[o]
<1> DEFINE n == pframe
           L == reord_list[i]
           r == Enqueue(L, n)
<1>1. /\ i \in Ifaces /\ enable[i] /\ sta[i] /\ Found(i) /\ n \in Nat /\ L \in Seq(Nat)
      /\ Numbers /\ Window(i) /\ ~disorder
  BY DEF WInv, Body, RInv, Shape, Listed, Working, Threads, EnabledWhenHeld, Held, Numbers, RxBuffer,
         Holds, Found, ReleasedInOrder
<1>2. ~Late(ind_sn[i], Sn(n)) /\ ~Duplicate(L, Sn(n))
  BY DEF RxBuffer
<1>3. PICK w \in Nat :
        /\ Fits(L, w, n) /\ last[i] < w
        /\ NeedCheck(ind_sn[i], Sn(n)) = Sn(Start(w, n))
        /\ Start(w, n) \in Int /\ Start(w, n) >= w
        /\ Start(w, n) <= top[i] + 1 /\ top[i] <= Start(w, n) + Behind
        /\ \A k \in DOMAIN L : L[k] <= top[i]
  BY <1>1, <1>2, NotLate
<1> DEFINE s == Start(w, n)
           walk == Process(Sn(s), r)
<1>4. PICK lo \in Int, hi \in Int :
        /\ Near(r, lo, hi) /\ lo <= s /\ s <= hi + 1
        /\ Len(r) = Len(L) + 1
        /\ \A j \in DOMAIN r :
               /\ r[j] \in Nat /\ w <= r[j] /\ r[j] < s + WinSize
               /\ r[j] = n \/ \E k \in DOMAIN L : r[j] = L[k]
  BY <1>2, <1>3, Filed
<1>5. /\ ind_sn' = [ind_sn EXCEPT ![i] = walk.ind]
      /\ timer' = [timer EXCEPT ![i] = walk.gap]
      /\ Release(i, walk.ind, r)
      /\ UNCHANGED <<enable, top>> /\ pc'["rx"] = "idle"
  <2>1. pc'["rx"] = "idle" /\ UNCHANGED <<enable, top>>
    BY DEF WInv, RInv, Shape, RxBuffer, Drop, Return, Go, senders, Threads
  <2> QED
    BY <1>3, <2>1 DEF RxBuffer
<1>6. top[i] \in Nat /\ last[i] \in Nat /\ n <= top[i] /\ w \in Nat
  BY <1>1 DEF Numbers, Window
<1> HIDE DEF r, s, walk, L
<1>7. ASSUME NEW j \in DOMAIN r
      PROVE  last[i] < r[j] /\ r[j] < s + WinSize /\ r[j] <= top[i]
  <2>1. r[j] \in Nat /\ w <= r[j] /\ r[j] < s + WinSize /\ (r[j] = n \/ \E k \in DOMAIN L : r[j] = L[k])
    BY <1>4
  <2>2. r[j] <= top[i]
    BY <1>3, <1>6, <2>1
  <2> QED
    BY <1>3, <1>6, <2>1, <2>2
<1>8. s \in Int /\ last[i] < s /\ s <= top[i] + 1 /\ top[i] <= s + Behind
  BY <1>3, <1>6 DEF s
<1> DEFINE R == reord_list'[i]
<1>9. /\ \E v \in Nat :
             /\ v >= s /\ v <= top[i] + 1 /\ ind_sn'[i] = Sn(v) /\ last'[i] < v
             /\ \A k \in DOMAIN R : v < R[k] /\ R[k] < v + WinSize /\ R[k] <= top[i]
      /\ Ascending(R)
      /\ walk.gap \in BOOLEAN /\ (R # <<>> => walk.gap)
      /\ ind_sn' \in [Ifaces -> (0 .. SeqSpace - 1) \cup {NoSn}]
      /\ reord_list' \in [Ifaces -> Seq(Nat)] /\ last' \in [Ifaces -> Nat] /\ ~disorder'
      /\ free' \in Nat /\ free' + Len(R) = free + Len(r)
      /\ \A o \in Ifaces \ {i} :
             ind_sn'[o] = ind_sn[o] /\ reord_list'[o] = reord_list[o] /\ last'[o] = last[o]
  <2>1. walk = Process(Sn(s), r)
    BY DEF walk
  <2>2. Ahead(i, r, s)
    BY <1>7, <1>8 DEF Ahead
  <2>3. Walked(i, r, lo, hi, s, walk)
    BY <1>4, <1>5, <2>1, <2>2 DEF Walked
  <2>4. Numbers /\ ~disorder /\ i \in Ifaces /\ s \in Int
    BY <1>1, <1>3 DEF s
  <2>5. Moved(i, r, s, walk)
    BY <2>3, <2>4, WalkReleases
  <2> QED
    BY <2>5 DEF Moved
<1>10. Window(i)'
  <2>1. PICK v \in Nat :
          /\ v >= s /\ v <= top[i] + 1 /\ ind_sn'[i] = Sn(v) /\ last'[i] < v
          /\ \A k \in DOMAIN R : v < R[k] /\ R[k] < v + WinSize /\ R[k] <= top[i]
    BY <1>9
  <2>2. top[i] <= v + Behind
    BY <1>6, <1>8, <2>1, BehindIs
  <2>3. Span(i, v)'
    BY <1>5, <2>1, <2>2 DEF Span
  <2>4. ~Found(i)'
    BY <1>5 DEF Found
  <2> QED
    BY <1>1, <1>5, <1>9, <2>3, <2>4 DEF Window
<1>11. ASSUME NEW o \in Ifaces \ {i} PROVE Window(o)'
  <2>1. ~Found(o) /\ ~Found(o)'
    BY <1>1, <1>5 DEF Found
  <2>2. Window(o) /\ top'[o] = top[o] /\ enable'[o] = enable[o]
    BY <1>5 DEF WInv, Body
  <2> QED
    BY <1>9, <2>1, <2>2, WindowKept
<1>12. (R # <<>> => timer'[i]) /\ timer' \in [Ifaces -> BOOLEAN]
  <2>1. timer'[i] = walk.gap /\ timer \in [Ifaces -> BOOLEAN]
    BY <1>1, <1>5 DEF WInv, Body, Flags
  <2>2. timer' \in [Ifaces -> BOOLEAN]
    BY <1>5, <1>9, <2>1, Zenon
  <2> QED
    BY <1>9, <2>1, <2>2
<1>13. free' + Len(R) = free + Len(L) + 1
  <2>1. Len(L) \in Nat /\ free \in Nat
    BY <1>1 DEF Numbers
  <2> QED
    BY <1>4, <1>9, <2>1
<1> QED
  BY <1>1, <1>9, <1>10, <1>11, <1>12, <1>13 DEF L

\* The worker finds an empty buffer.
LEMMA WorkerIdles ==
    ASSUME WInv, NEW i \in Ifaces, Worker(i), reord_list[i] = <<>>
    PROVE  /\ ind_sn' = ind_sn /\ reord_list' = reord_list /\ last' = last /\ ~disorder'
           /\ free' = free /\ timer' = timer
<1>0. /\ ind_sn \in [Ifaces -> (0 .. SeqSpace - 1) \cup {NoSn}] /\ free \in Nat
      /\ reord_list \in [Ifaces -> Seq(Nat)] /\ last \in [Ifaces -> Nat] /\ ~disorder
      /\ timer \in [Ifaces -> BOOLEAN]
  BY DEF WInv, Body, Numbers, Flags, ReleasedInOrder
<1> DEFINE ind == ind_sn[i]
           walk == Process(ind, <<>>)
<1>1. walk.ind = ind /\ walk.gap = FALSE
  <2>1. <<>> \in Seq(Nat) /\ Len(<<>>) = 0
    OBVIOUS
  <2>2. PICK h : h[0] = [ind |-> ind, gap |-> FALSE] /\ Process(ind, <<>>) = h[Len(<<>>)]
    BY <2>1, WalkIs
  <2>3. walk = [ind |-> ind, gap |-> FALSE]
    BY <2>1, <2>2
  <2> QED
    BY <2>3
<1>2. /\ ind_sn' = [ind_sn EXCEPT ![i] = walk.ind]
      /\ timer' = [timer EXCEPT ![i] = @ \/ walk.gap]
      /\ Release(i, walk.ind, <<>>)
  BY DEF Worker
<1> HIDE DEF walk
<1>3. Passed(ind, <<>>) = 0
  BY DEF Passed
<1>4. SubSeq(<<>>, 1, 0) = <<>> /\ SubSeq(<<>>, 0 + 1, Len(<<>>)) = <<>>
  OBVIOUS
<1>5. /\ reord_list' = [reord_list EXCEPT ![i] = <<>>] /\ Record(i, <<>>) /\ free' = free + 0
  BY <1>1, <1>2, <1>3, <1>4 DEF Release
<1>6. ~disorder' /\ last' \in [Ifaces -> Nat] /\ \A o \in Ifaces : last'[o] = last[o]
  <2>1. <<>> \in Seq(Nat) /\ Ascending(<<>>) /\ DOMAIN <<>> = {}
    BY DEF Ascending
  <2> QED
    BY <1>0, <1>5, <2>1, RecordIs
<1>7. ind_sn' = ind_sn
  BY <1>0, <1>1, <1>2
<1>8. timer' = timer
  <2>1. timer'[i] = timer[i] /\ \A o \in Ifaces \ {i} : timer'[o] = timer[o]
    BY <1>0, <1>1, <1>2
  <2>2. timer' \in [Ifaces -> BOOLEAN]
    BY <1>0, <1>1, <1>2
  <2> QED
    BY <1>0, <2>1, <2>2
<1>9. reord_list' = reord_list
  BY <1>0, <1>5
<1>10. last' = last
  BY <1>0, <1>6
<1>11. free' = free
  BY <1>0, <1>5
<1> QED
  BY <1>6, <1>7, <1>8, <1>9, <1>10, <1>11

\* The worker gives up the gap before the first frame.
LEMMA WorkerMoves ==
    ASSUME WInv, NEW i \in Ifaces, Worker(i), reord_list[i] # <<>>
    PROVE  /\ ind_sn' \in [Ifaces -> (0 .. SeqSpace - 1) \cup {NoSn}]
           /\ reord_list' \in [Ifaces -> Seq(Nat)] /\ last' \in [Ifaces -> Nat] /\ ~disorder'
           /\ free' \in Nat /\ free' + Len(reord_list'[i]) = free + Len(reord_list[i])
           /\ (reord_list'[i] # <<>> => timer'[i])
           /\ \A o \in Ifaces : Window(o)'
           /\ \A o \in Ifaces \ {i} : reord_list'[o] = reord_list[o]
<1> DEFINE L == reord_list[i]
           s == L[1]
           walk == Process(Sn(s), L)
<1>1. /\ enable[i] /\ L \in Seq(Nat) /\ L # <<>> /\ Numbers /\ Window(i) /\ ~disorder
      /\ 1 \in DOMAIN L /\ s \in Nat /\ top[i] \in Nat /\ last[i] \in Nat
  BY DEF WInv, Body, Numbers, Window, ReleasedInOrder
<1>2. PICK w \in Nat : Span(i, w)
  BY <1>1 DEF Window, Fresh
<1>3. /\ ind_sn[i] = Sn(w) /\ w <= top[i] + 1 /\ last[i] < w
      /\ \/ top[i] <= w + Behind
         \/ Found(i) /\ pframe = top[i] /\ top[i] <= w + Behind + Reach
      /\ \A k \in DOMAIN L : w < L[k] /\ L[k] < w + WinSize /\ L[k] <= top[i]
      /\ Ascending(L)
  BY <1>1, <1>2 DEF Span, Window
<1>4. /\ ind_sn' = [ind_sn EXCEPT ![i] = walk.ind]
      /\ timer' = [timer EXCEPT ![i] = @ \/ walk.gap]
      /\ Release(i, walk.ind, L)
      /\ UNCHANGED <<enable, top, pc, at, pframe>>
  BY <1>1 DEF Worker, threads, senders
<1> HIDE DEF L, s, walk
<1>5. \A k \in DOMAIN L : L[k] \in Nat
  BY <1>1
<1>6. w < s /\ s < w + WinSize /\ s <= top[i]
  BY <1>1, <1>3 DEF s
<1>7. Near(L, w + 1, w + WinSize - 1)
  <2>1. w + 1 \in Int /\ w + WinSize - 1 \in Int /\ 2 * ((w + WinSize - 1) + 1 - (w + 1)) < SeqSpace
    BY Constants
  <2>2. ASSUME NEW k \in DOMAIN L PROVE w + 1 <= L[k] /\ L[k] <= w + WinSize - 1
    <3>1. L[k] \in Nat /\ w < L[k] /\ L[k] < w + WinSize
      BY <1>3, <1>5
    <3> QED
      BY <3>1, Constants
  <2> QED
    BY <1>1, <1>3, <2>1, <2>2 DEF Near
<1>8. s \in Int /\ w + 1 <= s /\ s <= (w + WinSize - 1) + 1
  <2>1. s \in Nat
    BY <1>1
  <2> QED
    BY <1>6, <2>1, Constants
<1>9. Ahead(i, L, s)
  <2>1. last[i] < s /\ s <= top[i] + 1
    BY <1>1, <1>3, <1>6
  <2>2. ASSUME NEW k \in DOMAIN L PROVE last[i] < L[k] /\ L[k] < s + WinSize /\ L[k] <= top[i]
    <3>1. L[k] \in Nat /\ w < L[k] /\ L[k] < w + WinSize /\ L[k] <= top[i]
      BY <1>3, <1>5
    <3> QED
      BY <1>1, <1>3, <1>6, <3>1, Constants
  <2> QED
    BY <2>1, <2>2 DEF Ahead
<1> DEFINE R == reord_list'[i]
<1>10. /\ \E v \in Nat :
              /\ v >= s /\ v <= top[i] + 1 /\ ind_sn'[i] = Sn(v) /\ last'[i] < v
              /\ \A k \in DOMAIN R : v < R[k] /\ R[k] < v + WinSize /\ R[k] <= top[i]
       /\ Ascending(R)
       /\ walk.gap \in BOOLEAN /\ (R # <<>> => walk.gap)
       /\ ind_sn' \in [Ifaces -> (0 .. SeqSpace - 1) \cup {NoSn}]
       /\ reord_list' \in [Ifaces -> Seq(Nat)] /\ last' \in [Ifaces -> Nat] /\ ~disorder'
       /\ free' \in Nat /\ free' + Len(R) = free + Len(L)
       /\ \A o \in Ifaces \ {i} :
              ind_sn'[o] = ind_sn[o] /\ reord_list'[o] = reord_list[o] /\ last'[o] = last[o]
  <2>1. walk = Process(Sn(s), L)
    BY DEF walk
  <2>2. Walked(i, L, w + 1, w + WinSize - 1, s, walk)
    BY <1>4, <1>7, <1>8, <1>9, <2>1 DEF Walked
  <2>3. Moved(i, L, s, walk)
    BY <1>1, <1>8, <2>2, WalkReleases
  <2> QED
    BY <2>3 DEF Moved
<1>11. Window(i)'
  <2>1. PICK v \in Nat :
          /\ v >= s /\ v <= top[i] + 1 /\ ind_sn'[i] = Sn(v) /\ last'[i] < v
          /\ \A k \in DOMAIN R : v < R[k] /\ R[k] < v + WinSize /\ R[k] <= top[i]
    BY <1>10
  <2>2. \/ top[i] <= v + Behind
        \/ Found(i) /\ pframe = top[i] /\ top[i] <= v + Behind + Reach
    <3>1. w <= v
      BY <1>1, <1>6, <2>1
    <3>2. Behind \in Nat /\ Reach \in Nat /\ top[i] \in Nat
      BY <1>1, BehindIs, Constants
    <3>3. \A T \in Nat : /\ T <= w + Behind => T <= v + Behind
                         /\ T <= w + Behind + Reach => T <= v + Behind + Reach
      BY <3>1, <3>2
    <3> QED
      BY <1>3, <3>2, <3>3, Zenon
  <2>3. (Found(i)' <=> Found(i)) /\ pframe' = pframe /\ top'[i] = top[i] /\ enable'[i] = enable[i]
    BY <1>4 DEF Found
  <2>4. Span(i, v)'
    BY <2>1, <2>2, <2>3 DEF Span
  <2> QED
    BY <1>1, <1>10, <2>3, <2>4 DEF Window
<1>12. ASSUME NEW o \in Ifaces \ {i} PROVE Window(o)'
  <2>1. (Found(o)' <=> Found(o)) /\ pframe' = pframe
    BY <1>4 DEF Found
  <2>2. Window(o) /\ top'[o] = top[o] /\ enable'[o] = enable[o]
    BY <1>4 DEF WInv, Body
  <2> QED
    BY <1>10, <2>1, <2>2, WindowKept
<1>13. R # <<>> => timer'[i]
  <2>1. timer'[i] = (timer[i] \/ walk.gap)
    BY <1>4 DEF WInv, Body, Flags
  <2> QED
    BY <1>10, <2>1
<1> QED
  BY <1>10, <1>11, <1>12, <1>13 DEF L

-----------------------------------------------------------------------------
(* The steps. *)

\* The frame in the receive thread's hands, counted.
Hand == IF pframe = NoFrame THEN 0 ELSE 1

\* What the list of interface i gives up or takes goes to or comes from somewhere.
Balanced(i) ==
    free' + lost' + Len(reord_list'[i]) + Hand' = free + lost + Len(reord_list[i]) + Hand

\* One list changes, and what it gives up or takes is accounted for.
LEMMA PoolMoved ==
    ASSUME Pool, Numbers, Numbers', NEW i \in Ifaces,
           \A o \in Ifaces \ {i} : reord_list'[o] = reord_list[o], Balanced(i)
    PROVE  Pool'
<1> DEFINE c == Cardinality(Places(reord_list))
           d == Cardinality(Places(reord_list'))
           a == Len(reord_list[i])
           b == Len(reord_list'[i])
<1>1. /\ free \in Nat /\ lost \in Nat /\ free' \in Nat /\ lost' \in Nat
      /\ a \in Nat /\ b \in Nat /\ Hand \in Nat /\ Hand' \in Nat
  <2>1. reord_list[i] \in Seq(Nat) /\ reord_list'[i] \in Seq(Nat)
    BY DEF Numbers
  <2>2. a \in Nat /\ b \in Nat
    BY <2>1
  <2>3. free \in Nat /\ lost \in Nat /\ free' \in Nat /\ lost' \in Nat
    BY DEF Numbers
  <2>4. Hand \in Nat /\ Hand' \in Nat
    BY DEF Hand
  <2> QED
    BY <2>2, <2>3, <2>4
<1>2. IsFiniteSet(Places(reord_list')) /\ c \in Nat /\ d \in Nat /\ d + a = c + b
  <2>1. reord_list \in [Ifaces -> Seq(Nat)] /\ reord_list' \in [Ifaces -> Seq(Nat)]
    BY DEF Numbers
  <2>2. IsFiniteSet(Places(reord_list))
    BY DEF Pool
  <2> QED
    BY <2>1, <2>2, CountChange
<1>3. free + lost + c + Hand = PoolSize
  BY DEF Pool, PoolConserved, Hand
<1>4. free' + lost' + b + Hand' = free + lost + a + Hand
  BY DEF Balanced
<1> HIDE DEF a, b, c, d
<1>5. free' + lost' + d + Hand' = PoolSize
  <2> DEFINE A == free + lost
             B == free' + lost'
             h == Hand
             g == Hand'
             P == PoolSize
  <2>0. P \in Nat /\ \A x, y \in Nat : x + y \in Nat
    BY Constants
  <2>1. A \in Nat /\ B \in Nat /\ h \in Nat /\ g \in Nat /\ P \in Nat
    BY <1>1, <2>0, Zenon
  <2>2. A + c + h = P /\ B + b + g = A + a + h
    BY <1>3, <1>4
  <2> HIDE DEF A, B, h, g, P
  <2>3. B + d + g = P
    BY <1>1, <1>2, <2>1, <2>2
  <2> QED
    BY <2>3 DEF B, g, P
<1>6. PoolConserved'
  BY <1>5 DEF PoolConserved, Places, d, Hand
<1> QED
  BY <1>2, <1>6 DEF Pool, Places

\* No list changes.
LEMMA PoolKept ==
    ASSUME Pool, Numbers, Numbers', reord_list' = reord_list,
           free' + lost' + Hand' = free + lost + Hand
    PROVE  Pool'
<1> DEFINE c == Cardinality(Places(reord_list))
<1>1. /\ free \in Nat /\ lost \in Nat /\ free' \in Nat /\ lost' \in Nat
      /\ Hand \in Nat /\ Hand' \in Nat
  BY DEF Numbers, Hand
<1>2. IsFiniteSet(Places(reord_list))
  BY DEF Pool
<1>3. c \in Nat
  BY <1>2, FS_CardinalityType
<1>4. free + lost + c + Hand = PoolSize
  BY DEF Pool, PoolConserved, Hand
<1>5. Places(reord_list') = Places(reord_list)
  OBVIOUS
<1> HIDE DEF c
<1>6. free' + lost' + c + Hand' = PoolSize
  <2> DEFINE A == free + lost
             B == free' + lost'
             h == Hand
             g == Hand'
             P == PoolSize
  <2>0. P \in Nat /\ \A x, y \in Nat : x + y \in Nat
    BY Constants
  <2>1. A \in Nat /\ B \in Nat /\ h \in Nat /\ g \in Nat /\ P \in Nat
    BY <1>1, <2>0, Zenon
  <2>2. A + c + h = P /\ B + g = A + h
    BY <1>4
  <2> HIDE DEF A, B, h, g, P
  <2>3. B + c + g = P
    BY <1>3, <2>1, <2>2
  <2> QED
    BY <2>3 DEF B, g, P
<1>7. PoolConserved'
  BY <1>5, <1>6 DEF PoolConserved, Places, c, Hand
<1> QED
  BY <1>2, <1>5, <1>7 DEF Pool, Places

\* A step that leaves the windows and the frame in hand alone.
LEMMA Quiet ==
    ASSUME WInv, UNCHANGED <<ind_sn, reord_list, enable, top, arrivals, last, disorder, pframe>>,
           free' \in Nat, lost' \in Nat, free' + lost' = free + lost,
           pc'["rx"] = "found" <=> pc["rx"] = "found",
           pc["rx"] = "found" => at'["rx"] = at["rx"],
           Flags', Emptied', GapTimed'
    PROVE  Body'
<1>1. Numbers'
  BY DEF WInv, Body, Numbers
<1>2. ASSUME NEW o \in Ifaces PROVE Window(o)'
  <2>1. Found(o)' <=> Found(o)
    BY DEF Found
  <2> QED
    BY <2>1, WindowKept DEF WInv, Body
<1>3. Held' /\ ReleasedInOrder'
  BY DEF WInv, Body, Held, ReleasedInOrder
<1>4. Pool'
  <2>1. Pool /\ Numbers
    BY DEF WInv, Body
  <2>2. free \in Nat /\ lost \in Nat /\ Hand' = Hand /\ Hand \in Nat
    BY DEF WInv, Body, Numbers, Hand
  <2>3. free' + lost' + Hand' = free + lost + Hand
    BY <2>2
  <2> QED
    BY <1>1, <2>1, <2>3, PoolKept
<1> QED
  BY <1>1, <1>2, <1>3, <1>4 DEF Body

\* Frames that go straight up, one that finds no window, and stuttering.
LEMMA DirectBody ==
    ASSUME WInv, \/ \E i \in Ifaces \cup Others : RxDirect(i)
                 \/ \E i \in Ifaces : RxPlain(i) \/ RxNoWindow(i)
                 \/ UNCHANGED vars
    PROVE  Body'
<1>1. /\ UNCHANGED <<sta, ctrl, timers, threads, senders, doomed, torn, last, disorder, misrouted>>
      /\ vif' \in Ifaces \cup Others
  BY DEF RxDirect, RxPlain, RxNoWindow, Arrive, vars, ghosts, WInv, Body, Flags
<1>2. free' \in Nat /\ lost' \in Nat /\ free' + lost' = free + lost
  <2>1. free \in Nat /\ lost \in Nat
    BY DEF WInv, Body, Numbers
  <2>2. UNCHANGED <<free, lost>> \/ (free > 0 /\ free' = free - 1 /\ lost' = lost + 1)
    BY DEF RxDirect, RxPlain, RxNoWindow, vars, ghosts
  <2> QED
    BY <2>1, <2>2
<1>3. Flags'
  BY <1>1 DEF WInv, Body, Flags, ctrl, timers, threads, senders
<1>4. Emptied' /\ GapTimed'
  BY <1>1 DEF WInv, Body, Emptied, TearingDown, GapTimed, ctrl, timers, threads
<1> QED
  BY <1>1, <1>2, <1>3, <1>4, Quiet DEF ctrl, threads, senders

\* The timer and its handler.
LEMMA TimerBody ==
    ASSUME WInv, NEW i \in Ifaces, TimerFires(i) \/ TimerHandler(i) PROVE Body'
<1>1. /\ UNCHANGED <<sta, ctrl, free, vif, threads, senders, ghosts>>
      /\ \/ /\ timer[i] /\ timer' = [timer EXCEPT ![i] = FALSE]
            /\ handler' = [handler EXCEPT ![i] = TRUE] /\ work' = work
         \/ /\ handler[i] /\ handler' = [handler EXCEPT ![i] = FALSE]
            /\ work' = [work EXCEPT ![i] = TRUE] /\ timer' = timer
  BY DEF TimerFires, TimerHandler
<1>2. /\ timer \in [Ifaces -> BOOLEAN] /\ handler \in [Ifaces -> BOOLEAN]
      /\ work \in [Ifaces -> BOOLEAN]
  BY DEF WInv, Body, Flags
<1>3. Flags'
  <2>1. timer' \in [Ifaces -> BOOLEAN] /\ handler' \in [Ifaces -> BOOLEAN] /\ work' \in [Ifaces -> BOOLEAN]
    BY <1>1, <1>2
  <2> QED
    BY <1>1, <2>1 DEF WInv, Body, Flags, ctrl, threads, senders, ghosts
<1>4. Emptied'
  <2>1. \A o \in Ifaces : timer'[o] => timer[o]
    BY <1>1, <1>2
  <2>2. \A t \in Threads : pc[t] = "de_free" => at[t] \in Ifaces
    BY DEF WInv, RInv, Shape, Working
  <2> QED
    BY <1>1, <2>1, <2>2 DEF WInv, Body, Emptied, TearingDown, ctrl, threads, ghosts
<1>5. GapTimed'
  <2>1. \A o \in Ifaces : timer[o] \/ handler[o] \/ work[o] => timer'[o] \/ handler'[o] \/ work'[o]
    BY <1>1, <1>2
  <2> QED
    BY <1>1, <2>1 DEF WInv, Body, GapTimed, ctrl, ghosts
<1>6. free' \in Nat /\ lost' \in Nat /\ free' + lost' = free + lost
  BY <1>1 DEF WInv, Body, Numbers, ghosts
<1> QED
  BY <1>1, <1>3, <1>4, <1>5, <1>6, Quiet DEF ctrl, threads, senders, ghosts

\* A step of the receive thread that tears nothing down.
LEMMA RxEmptied ==
    ASSUME WInv, stas_lock' = stas_lock,
           \A t \in Threads \ {"rx"} : pc'[t] = pc[t] /\ at'[t] = at[t],
           pc'["rx"] \notin {"de_timer", "de_free"},
           pc'["rx"] \in {"fl_timer", "fl_work"} => reord_list'[at'["rx"]] = <<>>,
           \A t \in Threads \ {"rx"} :
               /\ TearingDown(t) => reord_list'[at[t]] = <<>> \/ torn'[at[t]]
               /\ pc[t] = "de_free" => ~timer'[at[t]] \/ torn'[at[t]]
    PROVE  Emptied'
<1>1. \A t \in Threads \ {"rx"} : TearingDown(t)' <=> TearingDown(t)
  BY DEF TearingDown
<1>2. ~TearingDown("rx")' /\ pc'["rx"] # "de_free"
  BY DEF TearingDown
<1>3. \A t \in Threads : TearingDown(t)' => reord_list'[at'[t]] = <<>> \/ torn'[at'[t]]
  BY <1>1, <1>2
<1>4. \A t \in Threads : pc'[t] = "de_free" => ~timer'[at'[t]] \/ torn'[at'[t]]
  BY <1>2
<1>5. /\ TearingDown("user")' => stas_lock' = "user"
      /\ pc'["rmmod"] = "next" \/ TearingDown("rmmod")' => stas_lock' = "rmmod"
  BY <1>1 DEF WInv, Body, Emptied, Threads
<1> QED
  BY <1>3, <1>4, <1>5 DEF Emptied

\* reord_flush_tid(), but for the step that empties the buffer.
LEMMA FlushBody ==
    ASSUME WInv, (\E i \in Ifaces : RxFlush(i)) \/ FlushTimer \/ FlushWork PROVE Body'
<1> DEFINE P == {"fl_list", "fl_work", "idle"}
<1>1. PICK p \in P, a \in Ifaces \cup {NoIface} :
        /\ UNCHANGED <<sta, ctrl, free, stas_lock, pframe, bus, senders, ghosts>>
        /\ vif' \in Ifaces \cup Others
        /\ pc' = [pc EXCEPT !["rx"] = p] /\ at' = [at EXCEPT !["rx"] = a]
        /\ pc["rx"] # "found" /\ (p = "fl_work" => pc["rx"] = "fl_timer" /\ a = at["rx"])
        /\ handler' = handler
        /\ \/ UNCHANGED <<timer, work>>
           \/ /\ pc["rx"] = "fl_timer" /\ timer' = [timer EXCEPT ![at["rx"]] = FALSE] /\ work' = work
           \/ /\ pc["rx"] = "fl_work" /\ work' = [work EXCEPT ![at["rx"]] = FALSE] /\ timer' = timer
  <2>1. CASE \E i \in Ifaces : RxFlush(i)
    BY <2>1 DEF RxFlush, Arrive, Go, timers
  <2>2. CASE FlushTimer
    <3>1. at["rx"] \in Ifaces \cup {NoIface} /\ at = [at EXCEPT !["rx"] = at["rx"]]
      BY <2>2 DEF WInv, Body, Flags, Threads
    <3> QED
      BY <2>2, <3>1 DEF FlushTimer, Holds, StopTimer, Go, WInv, Body, Flags
  <2>3. CASE FlushWork
    BY <2>3 DEF FlushWork, Holds, Return, Go, WInv, Body, Flags
  <2> QED
    BY <2>1, <2>2, <2>3
<1>2. /\ timer \in [Ifaces -> BOOLEAN] /\ work \in [Ifaces -> BOOLEAN]
      /\ pc \in [Threads -> {"idle", "found", "fl_list", "fl_timer", "fl_work", "de_timer",
                             "de_free", "down", "next", "stop", "gone"}]
      /\ at \in [Threads -> Ifaces \cup {NoIface}] /\ "rx" \in Threads
  BY DEF WInv, Body, Flags, Threads
<1>3. pc["rx"] \in {"fl_timer", "fl_work"} => at["rx"] \in Ifaces /\ reord_list[at["rx"]] = <<>>
  BY <1>2 DEF WInv, Body, Emptied, RInv, Shape, Working
<1>4. /\ pc' \in [Threads -> {"idle", "found", "fl_list", "fl_timer", "fl_work", "de_timer",
                              "de_free", "down", "next", "stop", "gone"}]
      /\ at' \in [Threads -> Ifaces \cup {NoIface}]
      /\ timer' \in [Ifaces -> BOOLEAN] /\ work' \in [Ifaces -> BOOLEAN]
      /\ pc'["rx"] = p /\ at'["rx"] = a
      /\ \A t \in Threads \ {"rx"} : pc'[t] = pc[t] /\ at'[t] = at[t]
  BY <1>1, <1>2, <1>3
<1>5. Flags'
  BY <1>1, <1>4 DEF WInv, Body, Flags, ctrl, senders, ghosts
<1>6. \A o \in Ifaces : /\ timer'[o] => timer[o]
                        /\ reord_list[o] # <<>> => timer'[o] = timer[o] /\ work'[o] = work[o]
  BY <1>1, <1>2, <1>3
<1>7. GapTimed'
  BY <1>1, <1>6 DEF WInv, Body, GapTimed, ctrl, ghosts
<1>8. Emptied'
  <2>1. \A t \in Threads \ {"rx"} : TearingDown(t) => at[t] \in Ifaces
    BY DEF WInv, RInv, Shape, Working, TearingDown
  <2>2. \A t \in Threads \ {"rx"} :
            /\ TearingDown(t) => reord_list'[at[t]] = <<>> \/ torn'[at[t]]
            /\ pc[t] = "de_free" => ~timer'[at[t]] \/ torn'[at[t]]
    BY <1>1, <1>6, <2>1 DEF WInv, Body, Emptied, TearingDown, ctrl, ghosts
  <2>3. pc'["rx"] \in {"fl_timer", "fl_work"} => reord_list'[at'["rx"]] = <<>>
    BY <1>1, <1>3, <1>4 DEF ctrl
  <2>4. pc'["rx"] \notin {"de_timer", "de_free"} /\ stas_lock' = stas_lock
    BY <1>1, <1>4
  <2> QED
    BY <1>4, <2>2, <2>3, <2>4, RxEmptied
<1>9. free' \in Nat /\ lost' \in Nat /\ free' + lost' = free + lost
  BY <1>1 DEF WInv, Body, Numbers, ghosts
<1>10. pc'["rx"] # "found" /\ pc["rx"] # "found"
  BY <1>1, <1>4
<1> QED
  BY <1>1, <1>5, <1>7, <1>8, <1>9, <1>10, Quiet DEF ctrl, senders, ghosts

\* The frame in hand goes back to the pool and the receive thread is idle again.
LEMMA DropFacts ==
    ASSUME WInv, Holds("found"), Drop
    PROVE  /\ at["rx"] \in Ifaces /\ pframe \in Nat /\ Found(at["rx"]) /\ pc["rx"] = "found"
           /\ enable[at["rx"]] /\ sta[at["rx"]]
           /\ pframe' = NoFrame /\ Hand = 1 /\ Hand' = 0 /\ Held'
           /\ pc' \in [Threads -> {"idle", "found", "fl_list", "fl_timer", "fl_work", "de_timer",
                                   "de_free", "down", "next", "stop", "gone"}]
           /\ at' \in [Threads -> Ifaces \cup {NoIface}]
           /\ pc'["rx"] = "idle" /\ UNCHANGED <<stas_lock, bus>>
           /\ \A t \in Threads \ {"rx"} : pc'[t] = pc[t] /\ at'[t] = at[t]
<1>1. /\ pc \in [Threads -> {"idle", "found", "fl_list", "fl_timer", "fl_work", "de_timer",
                             "de_free", "down", "next", "stop", "gone"}]
      /\ at \in [Threads -> Ifaces \cup {NoIface}] /\ "rx" \in Threads
  BY DEF WInv, Body, Flags, Threads
<1>2. /\ pframe' = NoFrame /\ pc' = [pc EXCEPT !["rx"] = "idle"]
      /\ at' = [at EXCEPT !["rx"] = NoIface] /\ UNCHANGED <<stas_lock, bus>>
  BY DEF Drop, Return, Go
<1>3. pc["rx"] = "found" /\ at["rx"] \in Ifaces /\ pframe \in Nat
  BY <1>1 DEF Holds, WInv, Body, Held, Numbers, RInv, Shape, Working
<1>4. enable[at["rx"]] /\ sta[at["rx"]]
  BY <1>3 DEF Holds, WInv, RInv, Listed, EnabledWhenHeld
<1>5. Hand = 1 /\ Hand' = 0
  BY <1>2, <1>3 DEF Hand, NoFrame
<1>6. /\ pc'["rx"] = "idle" /\ \A t \in Threads \ {"rx"} : pc'[t] = pc[t] /\ at'[t] = at[t]
  BY <1>1, <1>2
<1>7. /\ pc' \in [Threads -> {"idle", "found", "fl_list", "fl_timer", "fl_work", "de_timer",
                              "de_free", "down", "next", "stop", "gone"}]
      /\ at' \in [Threads -> Ifaces \cup {NoIface}]
  BY <1>1, <1>2
<1> QED
  BY <1>2, <1>3, <1>4, <1>5, <1>6, <1>7 DEF Found, Held

\* A late frame, and one the buffer holds already.
LEMMA LateBody == ASSUME WInv, RxLate \/ RxDuplicate PROVE Body'
<1>0. PICK i : i = at["rx"]
  OBVIOUS
<1>1. /\ Holds("found") /\ Drop /\ free' = free + 1
      /\ UNCHANGED <<sta, enable, reord_list, timers, vif, senders, doomed, lost, torn, last,
                     disorder>>
      /\ misrouted' \in BOOLEAN
  BY DEF RxLate, RxDuplicate, Indicate, ctrl, ghosts, WInv, Body, Flags
<1>2. /\ i \in Ifaces /\ pframe \in Nat /\ Found(i) /\ enable[i] /\ pc["rx"] = "found"
      /\ pframe' = NoFrame /\ Hand = 1 /\ Hand' = 0 /\ Held'
      /\ pc' \in [Threads -> {"idle", "found", "fl_list", "fl_timer", "fl_work", "de_timer",
                              "de_free", "down", "next", "stop", "gone"}]
      /\ at' \in [Threads -> Ifaces \cup {NoIface}]
      /\ pc'["rx"] = "idle" /\ UNCHANGED <<stas_lock, bus>>
      /\ \A t \in Threads \ {"rx"} : pc'[t] = pc[t] /\ at'[t] = at[t]
  BY <1>0, <1>1, DropFacts
<1>3. Numbers /\ Window(i)
  BY <1>2 DEF WInv, Body
<1>4. ind_sn' = ind_sn /\ \A w \in Nat : Span(i, w) => top[i] <= w + Behind
  <2>0. top[i] \in Nat /\ Behind \in Nat /\ WinSize - 1 <= Behind /\ WinSize \in Nat
    BY <1>2, <1>3, BehindIs, Constants DEF Numbers
  <2>1. CASE RxLate
    <3>1. ASSUME NEW w \in Nat, Span(i, w) PROVE top[i] <= w + Behind
      <4>1. pframe < w
        BY <1>0, <1>2, <1>3, <2>1, <3>1, JudgedIs DEF RxLate
      <4>2. top[i] <= w + Behind \/ pframe = top[i]
        BY <3>1 DEF Span
      <4> QED
        BY <1>2, <2>0, <4>1, <4>2
    <3> QED
      BY <2>1, <3>1 DEF RxLate, ctrl
  <2>2. CASE RxDuplicate
    <3>1. /\ ~Late(ind_sn[i], Sn(pframe)) /\ Duplicate(reord_list[i], Sn(pframe))
          /\ ind_sn' = [ind_sn EXCEPT ![i] = NeedCheck(@, Sn(pframe))]
      BY <1>0, <2>2 DEF RxDuplicate
    <3>2. ASSUME NEW w \in Nat, Span(i, w)
          PROVE  pframe < w + WinSize /\ NeedCheck(Sn(w), Sn(pframe)) = Sn(w)
      <4>1. ~(pframe < w)
        BY <1>2, <1>3, <3>1, <3>2, JudgedIs
      <4>2. pframe >= w
        BY <1>2, <4>1
      <4>3. Fits(reord_list[i], w, pframe)
        BY <1>2, <1>3, <3>2, <4>2, JudgedIs
      <4> QED
        BY <3>1, <4>3, DuplicateIs
    <3>3. ASSUME NEW w \in Nat, Span(i, w) PROVE top[i] <= w + Behind
      <4>1. top[i] <= w + Behind \/ pframe = top[i]
        BY <3>3 DEF Span
      <4>2. pframe < w + WinSize
        BY <3>2, <3>3
      <4> QED
        BY <1>2, <2>0, <4>1, <4>2
    <3>4. reord_list[i] # <<>>
      <4>1. Place(reord_list[i], Sn(pframe)) <= Len(reord_list[i])
        BY <3>1 DEF Duplicate
      <4>2. ASSUME reord_list[i] = <<>> PROVE FALSE
        <5>1. Place(<<>>, Sn(pframe)) = 1 /\ Len(<<>>) = 0
          BY DEF Place
        <5> QED
          BY <4>1, <4>2, <5>1
      <4> QED
        BY <4>2
    <3>5. PICK w \in Nat : Span(i, w)
      BY <1>3, <3>4 DEF Window, Fresh
    <3>6. NeedCheck(ind_sn[i], Sn(pframe)) = ind_sn[i]
      BY <3>2, <3>5 DEF Span
    <3>7. ind_sn' = ind_sn
      BY <1>3, <3>1, <3>6 DEF Numbers
    <3> QED
      BY <3>3, <3>7
  <2> QED
    BY <2>1, <2>2
<1>5. Window(i)'
  <2>1. ~Found(i)'
    BY <1>2 DEF Found
  <2>2. ASSUME NEW w \in Nat, Span(i, w) PROVE Span(i, w)'
    BY <1>1, <1>4, <2>2 DEF Span, senders
  <2>3. Fresh(i) => Fresh(i)'
    BY <1>1, <1>4 DEF Fresh
  <2> QED
    BY <1>1, <1>3, <2>1, <2>2, <2>3 DEF Window
<1>6. ASSUME NEW o \in Ifaces, o # i PROVE Window(o)'
  <2>1. ~Found(o) /\ ~Found(o)'
    BY <1>0, <1>2, <1>6 DEF Found
  <2> QED
    BY <1>1, <1>4, <2>1, WindowKept DEF WInv, Body, senders
<1>7. Numbers'
  BY <1>1, <1>2, <1>3, <1>4 DEF Numbers, senders
<1>8. Pool'
  <2>1. free \in Nat /\ lost \in Nat /\ lost' = lost
    BY <1>1, <1>3 DEF Numbers
  <2>2. free' + lost' + Hand' = free + lost + Hand
    BY <1>1, <1>2, <2>1
  <2> QED
    BY <1>1, <1>3, <1>7, <2>2, PoolKept DEF WInv, Body
<1>9. Flags'
  BY <1>1, <1>2 DEF WInv, Body, Flags, timers, senders
<1>10. Emptied'
  <2>1. \A t \in Threads \ {"rx"} :
            /\ TearingDown(t) => reord_list'[at[t]] = <<>> \/ torn'[at[t]]
            /\ pc[t] = "de_free" => ~timer'[at[t]] \/ torn'[at[t]]
    BY <1>1 DEF WInv, Body, Emptied, timers
  <2>2. pc'["rx"] \notin {"de_timer", "de_free", "fl_timer", "fl_work"} /\ stas_lock' = stas_lock
    BY <1>2
  <2> QED
    BY <1>2, <2>1, <2>2, RxEmptied
<1>11. GapTimed' /\ ReleasedInOrder'
  BY <1>1 DEF WInv, Body, GapTimed, ReleasedInOrder, timers
<1> QED
  BY <1>2, <1>5, <1>6, <1>7, <1>8, <1>9, <1>10, <1>11 DEF Body

\* A frame is filed.
LEMMA BufferBody == ASSUME WInv, RxBuffer PROVE Body'
<1>0. PICK i : i = at["rx"]
  OBVIOUS
<1>1. /\ Holds("found") /\ Drop
      /\ UNCHANGED <<sta, enable, handler, work, vif, senders, doomed, lost>>
      /\ misrouted' \in BOOLEAN /\ disorder' \in BOOLEAN
      /\ torn' = [torn EXCEPT ![i] = @ \/ Tearing("rx", i)]
      /\ \E g : timer' = [timer EXCEPT ![i] = g]
  BY <1>0 DEF RxBuffer, Release, Indicate, Record
<1>2. /\ i \in Ifaces /\ pframe \in Nat /\ Found(i) /\ enable[i] /\ pc["rx"] = "found"
      /\ pframe' = NoFrame /\ Hand = 1 /\ Hand' = 0 /\ Held'
      /\ pc' \in [Threads -> {"idle", "found", "fl_list", "fl_timer", "fl_work", "de_timer",
                              "de_free", "down", "next", "stop", "gone"}]
      /\ at' \in [Threads -> Ifaces \cup {NoIface}]
      /\ pc'["rx"] = "idle" /\ UNCHANGED <<stas_lock, bus>>
      /\ \A t \in Threads \ {"rx"} : pc'[t] = pc[t] /\ at'[t] = at[t]
  BY <1>0, <1>1, DropFacts
<1>3. /\ ind_sn' \in [Ifaces -> (0 .. SeqSpace - 1) \cup {NoSn}]
      /\ reord_list' \in [Ifaces -> Seq(Nat)] /\ last' \in [Ifaces -> Nat] /\ ~disorder'
      /\ free' \in Nat /\ free' + Len(reord_list'[i]) = free + Len(reord_list[i]) + 1
      /\ (reord_list'[i] # <<>> => timer'[i]) /\ timer' \in [Ifaces -> BOOLEAN]
      /\ \A o \in Ifaces : Window(o)'
      /\ \A o \in Ifaces \ {i} : reord_list'[o] = reord_list[o]
  BY <1>0, BufferMoves
<1>4. /\ timer \in [Ifaces -> BOOLEAN] /\ torn \in [Ifaces -> BOOLEAN]
  BY DEF WInv, Body, Flags
<1>5. \A o \in Ifaces \ {i} : timer'[o] = timer[o]
  BY <1>1, <1>2, <1>4
<1>6. /\ torn' \in [Ifaces -> BOOLEAN] /\ \A o \in Ifaces \ {i} : torn'[o] = torn[o]
      /\ torn[i] \/ Tearing("rx", i) => torn'[i]
  BY <1>1, <1>2, <1>4 DEF Tearing
<1>7. Numbers'
  BY <1>1, <1>2, <1>3 DEF WInv, Body, Numbers, senders
<1>8. Flags'
  BY <1>1, <1>2, <1>3, <1>6 DEF WInv, Body, Flags, senders
<1>9. Emptied'
  <2>1. \A t \in Threads \ {"rx"} : TearingDown(t) => at[t] \in Ifaces
    BY DEF WInv, RInv, Shape, Working, TearingDown
  <2>2. \A t \in Threads \ {"rx"} : TearingDown(t) /\ at[t] = i => torn'[i]
    BY <1>6 DEF Tearing, TearingDown
  <2>3. \A t \in Threads \ {"rx"} :
            /\ TearingDown(t) => reord_list'[at[t]] = <<>> \/ torn'[at[t]]
            /\ pc[t] = "de_free" => ~timer'[at[t]] \/ torn'[at[t]]
    BY <1>3, <1>5, <1>6, <2>1, <2>2 DEF WInv, Body, Emptied, TearingDown
  <2>4. pc'["rx"] \notin {"de_timer", "de_free", "fl_timer", "fl_work"} /\ stas_lock' = stas_lock
    BY <1>2
  <2> QED
    BY <1>2, <2>3, <2>4, RxEmptied
<1>10. Pool'
  <2>1. /\ free \in Nat /\ lost \in Nat /\ lost' = lost
        /\ Len(reord_list[i]) \in Nat /\ Len(reord_list'[i]) \in Nat
    <3>1. reord_list[i] \in Seq(Nat) /\ reord_list'[i] \in Seq(Nat)
      BY <1>2, <1>3 DEF WInv, Body, Numbers
    <3> QED
      BY <1>1, <3>1 DEF WInv, Body, Numbers
  <2> DEFINE a == Len(reord_list[i])
             b == Len(reord_list'[i])
             g == free'
  <2>2. a \in Nat /\ b \in Nat /\ g \in Nat /\ g + b = free + a + 1
    BY <1>3, <2>1, Zenon
  <2> HIDE DEF a, b, g
  <2>3. g + lost + b + 0 = free + lost + a + 1
    BY <2>1, <2>2
  <2>4. Balanced(i)
    BY <1>2, <2>1, <2>3 DEF Balanced, a, b, g
  <2> QED
    BY <1>2, <1>3, <1>7, <2>4, PoolMoved DEF WInv, Body
<1>11. GapTimed' /\ ReleasedInOrder'
  BY <1>1, <1>3, <1>5, <1>6 DEF WInv, Body, GapTimed, ReleasedInOrder
<1> QED
  BY <1>2, <1>3, <1>7, <1>8, <1>9, <1>10, <1>11 DEF Body

\* The worker.
LEMMA WorkerBody == ASSUME WInv, NEW i \in Ifaces, Worker(i) PROVE Body'
<1>1. /\ UNCHANGED <<sta, enable, handler, vif, threads, senders, doomed, lost, torn>>
      /\ work' = [work EXCEPT ![i] = FALSE]
      /\ misrouted' \in BOOLEAN /\ disorder' \in BOOLEAN
      /\ \E g : timer' = [timer EXCEPT ![i] = @ \/ g]
  BY DEF Worker, Release, Indicate, Record
<1>2. /\ timer \in [Ifaces -> BOOLEAN] /\ work \in [Ifaces -> BOOLEAN]
  BY DEF WInv, Body, Flags
<1>3. /\ timer' \in [Ifaces -> BOOLEAN] /\ \A o \in Ifaces \ {i} : timer'[o] = timer[o]
  <2>1. PICK g : timer' = [timer EXCEPT ![i] = timer[i] \/ g]
    BY <1>1
  <2>2. (timer[i] \/ g) \in BOOLEAN
    BY Zenon
  <2> QED
    BY <1>2, <2>1, <2>2, Zenon
<1>4. work' \in [Ifaces -> BOOLEAN] /\ \A o \in Ifaces \ {i} : work'[o] = work[o]
  BY <1>1, <1>2
<1>5. /\ ind_sn' \in [Ifaces -> (0 .. SeqSpace - 1) \cup {NoSn}]
      /\ reord_list' \in [Ifaces -> Seq(Nat)] /\ last' \in [Ifaces -> Nat] /\ ~disorder'
      /\ free' \in Nat /\ free' + Len(reord_list'[i]) = free + Len(reord_list[i])
      /\ (reord_list'[i] # <<>> => timer'[i])
      /\ (reord_list[i] = <<>> => reord_list'[i] = <<>> /\ timer' = timer)
      /\ \A o \in Ifaces : Window(o)'
      /\ \A o \in Ifaces \ {i} : reord_list'[o] = reord_list[o]
  <2>1. CASE reord_list[i] = <<>>
    <3>1. /\ ind_sn' = ind_sn /\ reord_list' = reord_list /\ last' = last /\ ~disorder'
          /\ free' = free /\ timer' = timer
      BY <2>1, WorkerIdles
    <3>2. ASSUME NEW o \in Ifaces PROVE Window(o)'
      <4>1. (Found(o)' <=> Found(o)) /\ pframe' = pframe
        BY <1>1 DEF Found, threads
      <4> QED
        BY <1>1, <3>1, <4>1, WindowKept DEF WInv, Body, senders
    <3> QED
      BY <2>1, <3>1, <3>2 DEF WInv, Body, Numbers
  <2>2. CASE reord_list[i] # <<>>
    BY <2>2, WorkerMoves
  <2> QED
    BY <2>1, <2>2
<1>6. Numbers'
  BY <1>1, <1>5 DEF WInv, Body, Numbers, threads, senders
<1>7. Flags'
  BY <1>1, <1>3, <1>4 DEF WInv, Body, Flags, threads, senders
<1>8. Emptied'
  <2>1. \A t \in Threads : pc[t] \in Working => at[t] \in Ifaces
    BY DEF WInv, RInv, Shape
  <2>2. "rx" \in Threads
    BY DEF Threads
  <2>3. pc["rx"] \in {"fl_timer", "fl_work"} => reord_list'[at["rx"]] = <<>>
    BY <1>5, <2>1, <2>2 DEF WInv, Body, Emptied, Working
  <2>4. \A t \in Threads : TearingDown(t) => reord_list'[at[t]] = <<>> \/ torn[at[t]]
    BY <1>5, <2>1 DEF WInv, Body, Emptied, Working, TearingDown
  <2>5. \A t \in Threads : pc[t] = "de_free" => ~timer'[at[t]] \/ torn[at[t]]
    BY <1>3, <1>5, <2>1 DEF WInv, Body, Emptied, Working, TearingDown
  <2> QED
    BY <1>1, <2>3, <2>4, <2>5 DEF WInv, Body, Emptied, TearingDown, threads
<1>9. Pool'
  <2>1. /\ free \in Nat /\ lost \in Nat /\ lost' = lost /\ Hand' = Hand /\ Hand \in Nat
        /\ Len(reord_list[i]) \in Nat /\ Len(reord_list'[i]) \in Nat
    <3>1. reord_list[i] \in Seq(Nat) /\ reord_list'[i] \in Seq(Nat)
      BY <1>5 DEF WInv, Body, Numbers
    <3> QED
      BY <1>1, <3>1 DEF WInv, Body, Numbers, Hand, threads
  <2> DEFINE a == Len(reord_list[i])
             b == Len(reord_list'[i])
             g == free'
  <2>2. a \in Nat /\ b \in Nat /\ g \in Nat /\ g + b = free + a
    BY <1>5, <2>1, Zenon
  <2> HIDE DEF a, b, g
  <2>3. g + lost + b + Hand = free + lost + a + Hand
    BY <2>1, <2>2
  <2>4. Balanced(i)
    BY <2>1, <2>3 DEF Balanced, a, b, g
  <2> QED
    BY <1>5, <1>6, <2>4, PoolMoved DEF WInv, Body
<1>10. GapTimed' /\ ReleasedInOrder'
  BY <1>1, <1>3, <1>4, <1>5 DEF WInv, Body, GapTimed, ReleasedInOrder
<1>11. Held'
  BY <1>1 DEF WInv, Body, Held, threads
<1> QED
  BY <1>5, <1>6, <1>7, <1>8, <1>9, <1>10, <1>11 DEF Body

\* reord_flush_tid() empties and disables the window.
LEMMA FlushListBody == ASSUME WInv, FlushList PROVE Body'
<1>0. PICK i : i = at["rx"]
  OBVIOUS
<1> DEFINE L == reord_list[i]
<1>1. /\ pc["rx"] = "fl_list" /\ pc' = [pc EXCEPT !["rx"] = "fl_timer"] /\ at' = at
      /\ free' = free + Len(L) /\ Record(i, L)
      /\ reord_list' = [reord_list EXCEPT ![i] = <<>>]
      /\ enable' = [enable EXCEPT ![i] = FALSE]
      /\ torn' = [torn EXCEPT ![i] = @ \/ Tearing("rx", i)]
      /\ misrouted' \in BOOLEAN /\ disorder' \in BOOLEAN
      /\ UNCHANGED <<sta, ind_sn, timers, vif, stas_lock, pframe, bus, senders, doomed, lost>>
  BY <1>0 DEF FlushList, Holds, Indicate, Record, Go
<1>2. /\ i \in Ifaces /\ "rx" \in Threads /\ Numbers /\ Window(i) /\ L \in Seq(Nat)
      /\ Ascending(L) /\ ~disorder /\ last \in [Ifaces -> Nat] /\ last[i] \in Nat
  BY <1>0, <1>1 DEF WInv, Body, RInv, Shape, Working, Threads, Window, Numbers, ReleasedInOrder
<1>3. /\ pc \in [Threads -> {"idle", "found", "fl_list", "fl_timer", "fl_work", "de_timer",
                             "de_free", "down", "next", "stop", "gone"}]
      /\ torn \in [Ifaces -> BOOLEAN] /\ enable \in [Ifaces -> BOOLEAN]
      /\ reord_list \in [Ifaces -> Seq(Nat)]
  BY DEF WInv, Body, Flags, Numbers
<1>4. \A j \in DOMAIN L : last[i] < L[j]
  <2> SUFFICES ASSUME NEW j \in DOMAIN L PROVE last[i] < L[j]
    OBVIOUS
  <2>1. L # <<>> /\ L[j] \in Nat
    BY <1>2
  <2>2. enable[i] /\ ~Fresh(i)
    BY <1>2, <2>1 DEF Window, Fresh
  <2>3. PICK w \in Nat : Span(i, w)
    BY <1>2, <2>2 DEF Window
  <2>4. last[i] < w /\ w < L[j]
    BY <2>2, <2>3 DEF Span
  <2> HIDE DEF L
  <2> QED
    BY <1>2, <2>1, <2>4
<1>5. /\ ~disorder' /\ last' \in [Ifaces -> Nat]
      /\ \A o \in Ifaces \ {i} : last'[o] = last[o]
      /\ (last'[i] = last[i] /\ L = <<>>) \/ \E j \in DOMAIN L : last'[i] = L[j]
  BY <1>1, <1>2, <1>4, RecordIs
<1>6. /\ reord_list'[i] = <<>> /\ reord_list' \in [Ifaces -> Seq(Nat)]
      /\ enable'[i] = FALSE /\ enable' \in [Ifaces -> BOOLEAN]
      /\ torn' \in [Ifaces -> BOOLEAN] /\ (torn[i] \/ Tearing("rx", i) => torn'[i])
      /\ \A o \in Ifaces \ {i} : /\ reord_list'[o] = reord_list[o] /\ enable'[o] = enable[o]
                                 /\ torn'[o] = torn[o]
  <2>1. /\ torn' \in [Ifaces -> BOOLEAN] /\ \A o \in Ifaces \ {i} : torn'[o] = torn[o]
        /\ torn[i] \/ Tearing("rx", i) => torn'[i]
    BY <1>1, <1>2, <1>3 DEF Tearing
  <2>2. /\ reord_list'[i] = <<>> /\ reord_list' \in [Ifaces -> Seq(Nat)]
        /\ \A o \in Ifaces \ {i} : reord_list'[o] = reord_list[o]
    <3>1. <<>> \in Seq(Nat)
      OBVIOUS
    <3> QED
      BY <1>1, <1>2, <1>3, <3>1
  <2>3. /\ enable'[i] = FALSE /\ enable' \in [Ifaces -> BOOLEAN]
        /\ \A o \in Ifaces \ {i} : enable'[o] = enable[o]
    BY <1>1, <1>2, <1>3
  <2> QED
    BY <2>1, <2>2, <2>3
<1>7. /\ pc' \in [Threads -> {"idle", "found", "fl_list", "fl_timer", "fl_work", "de_timer",
                              "de_free", "down", "next", "stop", "gone"}]
      /\ pc'["rx"] = "fl_timer" /\ at'["rx"] = i
      /\ \A t \in Threads \ {"rx"} : pc'[t] = pc[t] /\ at'[t] = at[t]
  BY <1>0, <1>1, <1>2, <1>3
<1>8. \A o \in Ifaces : ~Found(o) /\ ~Found(o)'
  BY <1>1, <1>7 DEF Found
<1>9. Window(i)'
  <2>0. DOMAIN <<>> = {}
    OBVIOUS
  <2>1. Fresh(i) => Fresh(i)'
    BY <1>1, <1>5, <1>6, <2>0 DEF Fresh
  <2>2. ASSUME NEW w \in Nat, Span(i, w) PROVE Span(i, w)'
    BY <1>1, <1>6, <1>8, <2>0, <2>2 DEF Span, senders
  <2>3. Ascending(reord_list[i])'
    BY <1>6, <2>0 DEF Ascending
  <2> QED
    BY <1>2, <1>6, <1>8, <2>1, <2>2, <2>3 DEF Window
<1>10. ASSUME NEW o \in Ifaces \ {i} PROVE Window(o)'
  BY <1>1, <1>5, <1>6, <1>8, WindowKept DEF WInv, Body, senders
<1>11. Len(L) \in Nat /\ free \in Nat /\ lost \in Nat
  BY <1>2 DEF Numbers
<1>12. Numbers'
  <2>1. free' \in Nat
    BY <1>1, <1>11
  <2> QED
    BY <1>1, <1>2, <1>5, <1>6, <2>1 DEF Numbers, senders
<1>13. Flags'
  BY <1>1, <1>6, <1>7 DEF WInv, Body, Flags, timers, senders
<1>14. Emptied'
  <2>1. \A t \in Threads \ {"rx"} : TearingDown(t) => at[t] \in Ifaces
    BY DEF WInv, RInv, Shape, Working, TearingDown
  <2>2. \A t \in Threads \ {"rx"} : TearingDown(t) /\ at[t] = i => torn'[i]
    BY <1>6 DEF Tearing, TearingDown
  <2>3. \A t \in Threads \ {"rx"} :
            /\ TearingDown(t) => reord_list'[at[t]] = <<>> \/ torn'[at[t]]
            /\ pc[t] = "de_free" => ~timer'[at[t]] \/ torn'[at[t]]
    BY <1>1, <1>6, <2>1, <2>2 DEF WInv, Body, Emptied, TearingDown, timers
  <2>4. /\ pc'["rx"] \notin {"de_timer", "de_free"} /\ stas_lock' = stas_lock
        /\ reord_list'[at'["rx"]] = <<>>
    BY <1>1, <1>6, <1>7
  <2> QED
    BY <1>7, <2>3, <2>4, RxEmptied
<1>15. Pool'
  <2> DEFINE a == Len(L)
             b == Len(reord_list'[i])
  <2>1. b = 0 /\ a \in Nat /\ Hand' = Hand /\ Hand \in Nat /\ lost' = lost /\ free' = free + a
    BY <1>1, <1>6, <1>11 DEF Hand
  <2> HIDE DEF a, b
  <2>2. free' + lost' + b + Hand' = free + lost + a + Hand
    BY <1>11, <2>1
  <2>3. Balanced(i)
    BY <2>2 DEF Balanced, a, b
  <2> QED
    BY <1>2, <1>6, <1>12, <2>3, PoolMoved DEF WInv, Body
<1>16. GapTimed' /\ ReleasedInOrder' /\ Held'
  BY <1>1, <1>5, <1>6, <1>7 DEF WInv, Body, GapTimed, ReleasedInOrder, Held, timers
<1> QED
  BY <1>9, <1>10, <1>12, <1>13, <1>14, <1>15, <1>16 DEF Body

\* A frame finds its window.
LEMMA LookupBody ==
    ASSUME WInv, NEW i \in Ifaces, NEW n \in First + 1 .. First + MaxArrivals * Reach,
           RxLookup(i, n)
    PROVE  Body'
<1>1. /\ pc["rx"] = "idle" /\ vif' = i /\ free > 0 /\ free' = free - 1
      /\ arrivals < MaxArrivals /\ arrivals' = arrivals + 1
      /\ n \in top[i] - Reach .. top[i] + Reach /\ n > First
      /\ top' = [top EXCEPT ![i] = IF n > @ THEN n ELSE @]
      /\ stas_lock = "none"
      /\ sta' = [sta EXCEPT ![i] = TRUE] /\ enable' = [enable EXCEPT ![i] = TRUE]
      /\ IF sta[i] /\ enable[i]
         THEN UNCHANGED <<ind_sn, last>>
         ELSE /\ ind_sn' = [ind_sn EXCEPT ![i] = NoSn]
              /\ last' = [last EXCEPT ![i] = First]
      /\ torn' = (IF sta[i] THEN torn ELSE [torn EXCEPT ![i] = FALSE])
      /\ pframe' = n
      /\ pc' = [pc EXCEPT !["rx"] = "found"] /\ at' = [at EXCEPT !["rx"] = i]
      /\ UNCHANGED <<iftype, reord_list, timers, stas_lock, bus, doomed, lost,
                     disorder, misrouted>>
  BY DEF RxLookup, Arrive, Go
<1>2. /\ Flags /\ Numbers /\ Window(i) /\ "rx" \in Threads
      /\ pc \in [Threads -> {"idle", "found", "fl_list", "fl_timer", "fl_work", "de_timer",
                             "de_free", "down", "next", "stop", "gone"}]
      /\ at \in [Threads -> Ifaces \cup {NoIface}]
      /\ sta \in [Ifaces -> BOOLEAN] /\ enable \in [Ifaces -> BOOLEAN]
      /\ torn \in [Ifaces -> BOOLEAN]
  BY DEF WInv, Body, Flags, Threads
<1>3. /\ ind_sn \in [Ifaces -> (0 .. SeqSpace - 1) \cup {NoSn}]
      /\ reord_list \in [Ifaces -> Seq(Nat)] /\ free \in Nat /\ lost \in Nat
      /\ top \in [Ifaces -> Nat] /\ arrivals \in 0 .. MaxArrivals /\ last \in [Ifaces -> Nat]
  BY <1>2 DEF Numbers
<1>4. n \in Nat /\ Reach \in Nat /\ First \in Nat /\ MaxArrivals \in Nat /\ Reach > 0
  <2>1. Reach \in Nat /\ First \in Nat /\ MaxArrivals \in Nat
    BY Constants
  <2>2. MaxArrivals * Reach \in Nat /\ (Reach = 0 => MaxArrivals * Reach = 0)
    BY <2>1
  <2>3. First + 1 <= n /\ n <= First + MaxArrivals * Reach /\ n \in Int
    BY <2>1, <2>2
  <2> QED
    BY <2>1, <2>2, <2>3
<1> DEFINE T == top[i]
           U == top'[i]
<1>5. /\ T \in Nat /\ U \in Nat /\ U = (IF n > T THEN n ELSE T)
      /\ T - Reach <= n /\ n <= T + Reach
      /\ top' \in [Ifaces -> Nat] /\ \A o \in Ifaces \ {i} : top'[o] = top[o]
  BY <1>1, <1>3, <1>4
<1>6. /\ pc' \in [Threads -> {"idle", "found", "fl_list", "fl_timer", "fl_work", "de_timer",
                              "de_free", "down", "next", "stop", "gone"}]
      /\ at' \in [Threads -> Ifaces \cup {NoIface}]
      /\ pc'["rx"] = "found" /\ at'["rx"] = i
      /\ \A t \in Threads \ {"rx"} : pc'[t] = pc[t] /\ at'[t] = at[t]
  BY <1>1, <1>2
<1>7. /\ sta' \in [Ifaces -> BOOLEAN] /\ enable' \in [Ifaces -> BOOLEAN]
      /\ torn' \in [Ifaces -> BOOLEAN] /\ enable'[i]
      /\ \A o \in Ifaces \ {i} : enable'[o] = enable[o] /\ torn'[o] = torn[o]
      /\ sta[i] => torn' = torn
  BY <1>1, <1>2
<1>8. /\ ind_sn' \in [Ifaces -> (0 .. SeqSpace - 1) \cup {NoSn}] /\ last' \in [Ifaces -> Nat]
      /\ \A o \in Ifaces \ {i} : ind_sn'[o] = ind_sn[o] /\ last'[o] = last[o]
  BY <1>1, <1>3, <1>4
<1>9. reord_list[i] # <<>> => sta[i] /\ enable[i]
  BY <1>2 DEF WInv, RInv, Listed, Window
<1>10. \A o \in Ifaces : ~Found(o) /\ (Found(o)' <=> o = i)
  BY <1>1, <1>6 DEF Found
<1> HIDE DEF T, U
<1>11. Fresh(i)' \/ \E w \in Nat : Span(i, w)'
  <2>1. CASE sta[i] /\ enable[i]
    <3>1. ind_sn'[i] = ind_sn[i] /\ last'[i] = last[i] /\ reord_list'[i] = reord_list[i]
      BY <1>1, <2>1
    <3>2. Fresh(i) => Fresh(i)'
      BY <3>1 DEF Fresh
    <3>3. ASSUME NEW w \in Nat, Span(i, w) PROVE Span(i, w)'
      <4>1. /\ ind_sn[i] = Sn(w) /\ w <= T + 1 /\ T <= w + Behind /\ last[i] < w
            /\ \A k \in DOMAIN reord_list[i] :
                   /\ w < reord_list[i][k] /\ reord_list[i][k] < w + WinSize
                   /\ reord_list[i][k] <= T
        BY <1>10, <2>1, <3>3 DEF Span, T
      <4>2. w <= U + 1 /\ (U <= w + Behind \/ (n = U /\ U <= w + Behind + Reach))
        BY <1>4, <1>5, <4>1, BehindIs
      <4>3. \A k \in DOMAIN reord_list[i] : reord_list[i][k] <= U
        <5> TAKE k \in DOMAIN reord_list[i]
        <5>1. reord_list[i][k] \in Nat /\ reord_list[i][k] <= T
          BY <1>3, <4>1
        <5> QED
          BY <1>4, <1>5, <5>1
      <4> QED
        BY <1>1, <1>10, <3>1, <4>1, <4>2, <4>3 DEF Span, U
    <3> QED
      BY <1>2, <3>2, <3>3 DEF Window
  <2>2. CASE ~(sta[i] /\ enable[i])
    <3>1. reord_list'[i] = <<>> /\ ind_sn'[i] = NoSn /\ last'[i] = First
      BY <1>1, <1>3, <1>9, <2>2
    <3> QED
      BY <3>1 DEF Fresh
  <2> QED
    BY <2>1, <2>2
<1>12. Window(i)'
  <2>1. U - Reach <= n /\ n <= U /\ n > First /\ Reach > 0
    BY <1>1, <1>4, <1>5
  <2>2. Ascending(reord_list[i])'
    BY <1>1, <1>2 DEF Window
  <2> QED
    BY <1>1, <1>7, <1>11, <2>1, <2>2 DEF Window, U
<1>13. ASSUME NEW o \in Ifaces \ {i} PROVE Window(o)'
  <2>1. ~Found(o) /\ ~Found(o)'
    BY <1>10
  <2> QED
    BY <1>1, <1>5, <1>7, <1>8, <2>1, WindowKept DEF WInv, Body
<1>14. Numbers'
  <2>1. free' \in Nat /\ arrivals' \in 0 .. MaxArrivals
    BY <1>1, <1>3, <1>4
  <2> QED
    BY <1>1, <1>3, <1>4, <1>5, <1>8, <2>1 DEF Numbers
<1>15. Flags'
  BY <1>1, <1>2, <1>6, <1>7 DEF Flags, timers
<1>16. Held'
  BY <1>1, <1>4, <1>6 DEF Held, NoFrame
<1>17. Pool'
  <2>1. pframe = NoFrame
    BY <1>1 DEF WInv, Body, Held
  <2>2. Hand = 0 /\ Hand' = 1
    BY <1>1, <1>4, <2>1 DEF Hand, NoFrame
  <2>3. free' + lost' + Hand' = free + lost + Hand
    BY <1>1, <1>3, <2>2
  <2> QED
    BY <1>1, <1>2, <1>14, <2>3, PoolKept DEF WInv, Body
<1>18. Emptied'
  <2>1. \A t \in Threads \ {"rx"} : ~TearingDown(t)
    BY <1>1 DEF WInv, Body, Emptied, Threads
  <2>2. \A t \in Threads \ {"rx"} :
            /\ TearingDown(t) => reord_list'[at[t]] = <<>> \/ torn'[at[t]]
            /\ pc[t] = "de_free" => ~timer'[at[t]] \/ torn'[at[t]]
    BY <2>1 DEF TearingDown
  <2>3. pc'["rx"] \notin {"de_timer", "de_free", "fl_timer", "fl_work"} /\ stas_lock' = stas_lock
    BY <1>1, <1>6
  <2> QED
    BY <1>6, <2>2, <2>3, RxEmptied
<1>19. GapTimed' /\ ReleasedInOrder'
  BY <1>1, <1>7, <1>9 DEF WInv, Body, GapTimed, ReleasedInOrder, timers
<1> QED
  BY <1>12, <1>13, <1>14, <1>15, <1>16, <1>17, <1>18, <1>19 DEF Body

\* reord_deinit_sta() begins: the buffered frames go back to the pool.
LEMMA DeinitListBody ==
    ASSUME WInv, NEW i \in Ifaces, DelStation(i) \/ Disconnect(i) \/ RmmodNext(i) PROVE Body'
<1> DEFINE L == reord_list[i]
<1>1. PICK t \in Threads :
        /\ UNCHANGED <<sta, enable, ind_sn, timers, vif, pframe, bus, senders, ghosts>>
        /\ free' = free + Len(L) /\ reord_list' = [reord_list EXCEPT ![i] = <<>>]
        /\ pc' = [pc EXCEPT ![t] = "de_timer"] /\ at' = [at EXCEPT ![t] = i]
        /\ pc[t] = (IF t = "rmmod" THEN "next" ELSE "idle")
        /\ stas_lock' = IF t = "user" THEN "user" ELSE stas_lock
        /\ t = "user" => stas_lock = "none"
  BY DEF DelStation, Disconnect, RmmodNext, DeinitList, Go, Threads
<1>2. /\ pc \in [Threads -> {"idle", "found", "fl_list", "fl_timer", "fl_work", "de_timer",
                             "de_free", "down", "next", "stop", "gone"}]
      /\ at \in [Threads -> Ifaces \cup {NoIface}]
      /\ reord_list \in [Ifaces -> Seq(Nat)] /\ L \in Seq(Nat) /\ Numbers
  BY DEF WInv, Body, Flags, Numbers
<1>3. /\ pc' \in [Threads -> {"idle", "found", "fl_list", "fl_timer", "fl_work", "de_timer",
                              "de_free", "down", "next", "stop", "gone"}]
      /\ at' \in [Threads -> Ifaces \cup {NoIface}]
      /\ pc'[t] = "de_timer" /\ at'[t] = i
      /\ \A u \in Threads \ {t} : pc'[u] = pc[u] /\ at'[u] = at[u]
  BY <1>1, <1>2
<1>4. /\ reord_list' \in [Ifaces -> Seq(Nat)] /\ reord_list'[i] = <<>>
      /\ \A o \in Ifaces \ {i} : reord_list'[o] = reord_list[o]
  <2>1. <<>> \in Seq(Nat)
    OBVIOUS
  <2> QED
    BY <1>1, <1>2, <2>1
<1>5. /\ pc'["rx"] = "found" <=> pc["rx"] = "found"
      /\ pc["rx"] = "found" => at'["rx"] = at["rx"]
  BY <1>1, <1>3 DEF Threads
<1>6. ASSUME NEW o \in Ifaces PROVE Window(o)'
  <2>1. (Found(o)' <=> Found(o)) /\ pframe' = pframe
    BY <1>1, <1>5 DEF Found
  <2> QED
    BY <1>1, <1>4, <2>1, WindowKept DEF WInv, Body, senders, ghosts
<1>7. Len(L) \in Nat /\ free \in Nat /\ lost \in Nat
  BY <1>2 DEF Numbers
<1>8. Numbers'
  <2>1. free' \in Nat
    BY <1>1, <1>7
  <2> QED
    BY <1>1, <1>2, <1>4, <2>1 DEF Numbers, senders, ghosts
<1>9. Flags'
  BY <1>1, <1>3 DEF WInv, Body, Flags, timers, senders, ghosts
<1>10. Held' /\ ReleasedInOrder' /\ GapTimed'
  BY <1>1, <1>4, <1>5 DEF WInv, Body, Held, ReleasedInOrder, GapTimed, timers, ghosts
<1>11. Emptied'
  <2>0. \A u \in Threads : pc[u] \in Working => at[u] \in Ifaces
    BY DEF WInv, RInv, Shape
  <2>1. pc'["rx"] \in {"fl_timer", "fl_work"} => reord_list'[at'["rx"]] = <<>>
    <3>1. "rx" \in Threads
      BY DEF Threads
    <3> QED
      BY <1>3, <1>4, <2>0, <3>1 DEF WInv, Body, Emptied, Working
  <2>2. \A u \in Threads : TearingDown(u)' => reord_list'[at'[u]] = <<>> \/ torn'[at'[u]]
    BY <1>1, <1>3, <1>4, <2>0 DEF WInv, Body, Emptied, TearingDown, Working, ghosts
  <2>3. \A u \in Threads : pc'[u] = "de_free" => ~timer'[at'[u]] \/ torn'[at'[u]]
    BY <1>1, <1>3 DEF WInv, Body, Emptied, timers, ghosts
  <2>4. /\ TearingDown("user")' => stas_lock' = "user"
        /\ pc'["rmmod"] = "next" \/ TearingDown("rmmod")' => stas_lock' = "rmmod"
    BY <1>1, <1>3 DEF WInv, Body, Emptied, TearingDown, Threads
  <2> QED
    BY <2>1, <2>2, <2>3, <2>4 DEF Emptied
<1>12. Pool'
  <2> DEFINE a == Len(L)
             b == Len(reord_list'[i])
  <2>1. b = 0 /\ a \in Nat /\ Hand' = Hand /\ Hand \in Nat /\ lost' = lost /\ free' = free + a
    BY <1>1, <1>4, <1>7 DEF Hand, ghosts
  <2> HIDE DEF a, b
  <2>2. free' + lost' + b + Hand' = free + lost + a + Hand
    BY <1>7, <2>1
  <2>3. Balanced(i)
    BY <2>2 DEF Balanced, a, b
  <2> QED
    BY <1>2, <1>4, <1>8, <2>3, PoolMoved DEF WInv, Body
<1> QED
  BY <1>6, <1>8, <1>9, <1>10, <1>11, <1>12 DEF Body

\* reord_deinit_sta() stops the timer.
LEMMA DeinitTimerBody == ASSUME WInv, NEW t \in Threads, DeinitTimer(t) PROVE Body'
<1>0. PICK i : i = at[t]
  OBVIOUS
<1>1. /\ pc[t] = "de_timer" /\ pc' = [pc EXCEPT ![t] = "de_free"] /\ at' = at
      /\ timer' = [timer EXCEPT ![i] = FALSE] /\ UNCHANGED <<handler, work>>
      /\ UNCHANGED <<sta, ctrl, free, vif, stas_lock, pframe, bus, senders, ghosts>>
  BY <1>0 DEF DeinitTimer, StopTimer, Go
<1>2. /\ pc \in [Threads -> {"idle", "found", "fl_list", "fl_timer", "fl_work", "de_timer",
                             "de_free", "down", "next", "stop", "gone"}]
      /\ timer \in [Ifaces -> BOOLEAN] /\ i \in Ifaces
  BY <1>0, <1>1 DEF WInv, Body, Flags, RInv, Shape, Working
<1>3. /\ pc' \in [Threads -> {"idle", "found", "fl_list", "fl_timer", "fl_work", "de_timer",
                              "de_free", "down", "next", "stop", "gone"}]
      /\ pc'[t] = "de_free" /\ \A u \in Threads \ {t} : pc'[u] = pc[u]
      /\ timer' \in [Ifaces -> BOOLEAN] /\ ~timer'[i]
      /\ \A o \in Ifaces \ {i} : timer'[o] = timer[o]
  BY <1>1, <1>2
<1>4. \A u \in Threads : TearingDown(u)' <=> TearingDown(u)
  BY <1>1, <1>3 DEF TearingDown
<1>5. Flags'
  BY <1>1, <1>3 DEF WInv, Body, Flags, ctrl, senders, ghosts
<1>6. reord_list[i] = <<>> \/ torn[i]
  BY <1>0, <1>1 DEF WInv, Body, Emptied, TearingDown
<1>7. GapTimed'
  BY <1>1, <1>3, <1>6 DEF WInv, Body, GapTimed, ctrl, ghosts
<1>8. Emptied'
  <2>1. pc'["rx"] \in {"fl_timer", "fl_work"} => pc'["rx"] = pc["rx"]
    BY <1>3 DEF Threads
  <2>2. \A u \in Threads : pc'[u] = "de_free" => ~timer'[at[u]] \/ torn[at[u]]
    <3>1. \A u \in Threads : pc[u] = "de_free" => at[u] \in Ifaces
      BY DEF WInv, RInv, Shape, Working
    <3> QED
      BY <1>0, <1>3, <3>1 DEF WInv, Body, Emptied
  <2>3. pc'["rmmod"] = "next" => pc["rmmod"] = "next"
    BY <1>3 DEF Threads
  <2>4. "user" \in Threads /\ "rmmod" \in Threads
    BY DEF Threads
  <2> QED
    BY <1>1, <1>4, <2>1, <2>2, <2>3, <2>4 DEF WInv, Body, Emptied, ctrl, ghosts
<1>9. free' \in Nat /\ lost' \in Nat /\ free' + lost' = free + lost
  BY <1>1 DEF WInv, Body, Numbers, ghosts
<1>10. pc'["rx"] = "found" <=> pc["rx"] = "found"
  BY <1>1, <1>3 DEF Threads
<1> QED
  BY <1>1, <1>5, <1>7, <1>8, <1>9, <1>10, Quiet DEF ctrl, senders, ghosts

\* reord_deinit_sta() frees the window.
LEMMA DeinitFreeBody == ASSUME WInv, NEW t \in Threads, DeinitFree(t) PROVE Body'
<1>0. PICK i : i = at[t]
  OBVIOUS
<1> DEFINE L == reord_list[i]
<1>1. /\ pc[t] = "de_free" /\ pc' = [pc EXCEPT ![t] = IF t = "rmmod" THEN "next" ELSE "idle"]
      /\ at' = [at EXCEPT ![t] = NoIface]
      /\ sta' = [sta EXCEPT ![i] = FALSE] /\ doomed' \in BOOLEAN
      /\ timer' = [timer EXCEPT ![i] = FALSE] /\ handler' = [handler EXCEPT ![i] = FALSE]
      /\ work' = [work EXCEPT ![i] = FALSE]
      /\ lost' = lost + Len(L) /\ reord_list' = [reord_list EXCEPT ![i] = <<>>]
      /\ stas_lock' = IF t = "user" THEN "none" ELSE stas_lock
      /\ UNCHANGED <<enable, ind_sn, free, vif, pframe, bus, senders, torn, last, disorder, misrouted>>
  <2>1. doomed' \in BOOLEAN
    BY DEF DeinitFree
  <2> QED
    BY <1>0, <2>1 DEF DeinitFree, Go
<1>2. /\ pc \in [Threads -> {"idle", "found", "fl_list", "fl_timer", "fl_work", "de_timer",
                             "de_free", "down", "next", "stop", "gone"}]
      /\ at \in [Threads -> Ifaces \cup {NoIface}] /\ i \in Ifaces
      /\ timer \in [Ifaces -> BOOLEAN] /\ handler \in [Ifaces -> BOOLEAN]
      /\ work \in [Ifaces -> BOOLEAN] /\ sta \in [Ifaces -> BOOLEAN]
      /\ reord_list \in [Ifaces -> Seq(Nat)] /\ L \in Seq(Nat) /\ Numbers
  BY <1>0, <1>1 DEF WInv, Body, Flags, Numbers, RInv, Shape, Working
<1>3. /\ pc' \in [Threads -> {"idle", "found", "fl_list", "fl_timer", "fl_work", "de_timer",
                              "de_free", "down", "next", "stop", "gone"}]
      /\ at' \in [Threads -> Ifaces \cup {NoIface}]
      /\ pc'[t] = IF t = "rmmod" THEN "next" ELSE "idle"
      /\ \A u \in Threads \ {t} : pc'[u] = pc[u] /\ at'[u] = at[u]
  BY <1>1, <1>2
<1>4. /\ reord_list' \in [Ifaces -> Seq(Nat)] /\ reord_list'[i] = <<>>
      /\ \A o \in Ifaces \ {i} : reord_list'[o] = reord_list[o]
  <2>1. <<>> \in Seq(Nat)
    OBVIOUS
  <2> QED
    BY <1>1, <1>2, <2>1
<1>5. /\ timer' \in [Ifaces -> BOOLEAN] /\ handler' \in [Ifaces -> BOOLEAN]
      /\ work' \in [Ifaces -> BOOLEAN] /\ sta' \in [Ifaces -> BOOLEAN] /\ ~timer'[i]
      /\ \A o \in Ifaces \ {i} :
             timer'[o] = timer[o] /\ handler'[o] = handler[o] /\ work'[o] = work[o]
  BY <1>1, <1>2
<1>6. /\ pc'["rx"] = "found" <=> pc["rx"] = "found"
      /\ pc["rx"] = "found" => at'["rx"] = at["rx"]
  BY <1>1, <1>3 DEF Threads
<1>7. ASSUME NEW o \in Ifaces PROVE Window(o)'
  <2>1. (Found(o)' <=> Found(o)) /\ pframe' = pframe
    BY <1>1, <1>6 DEF Found
  <2> QED
    BY <1>1, <1>4, <2>1, WindowKept DEF WInv, Body, senders
<1>8. Len(L) \in Nat /\ free \in Nat /\ lost \in Nat
  BY <1>2 DEF Numbers
<1>9. Numbers'
  <2>1. lost' \in Nat
    BY <1>1, <1>8
  <2> QED
    BY <1>1, <1>2, <1>4, <2>1 DEF Numbers, senders
<1>10. Flags'
  BY <1>1, <1>3, <1>5 DEF WInv, Body, Flags, senders
<1>11. Held' /\ ReleasedInOrder' /\ GapTimed'
  BY <1>1, <1>4, <1>5, <1>6 DEF WInv, Body, Held, ReleasedInOrder, GapTimed
<1>12. Emptied'
  <2>0. \A u \in Threads : pc[u] \in Working => at[u] \in Ifaces
    BY DEF WInv, RInv, Shape
  <2>1. pc'["rx"] \in {"fl_timer", "fl_work"} => reord_list'[at'["rx"]] = <<>>
    <3>1. "rx" \in Threads
      BY DEF Threads
    <3> QED
      BY <1>3, <1>4, <2>0, <3>1 DEF WInv, Body, Emptied, Working
  <2>2. \A u \in Threads : TearingDown(u)' => u # t /\ TearingDown(u)
    BY <1>3 DEF TearingDown
  <2>3. \A u \in Threads : TearingDown(u)' => reord_list'[at'[u]] = <<>> \/ torn'[at'[u]]
    BY <1>1, <1>3, <1>4, <2>0, <2>2 DEF WInv, Body, Emptied, TearingDown, Working
  <2>4. \A u \in Threads : pc'[u] = "de_free" => ~timer'[at'[u]] \/ torn'[at'[u]]
    BY <1>1, <1>3, <1>5, <2>0 DEF WInv, Body, Emptied, Working
  <2>5. /\ TearingDown("user")' => stas_lock' = "user"
        /\ pc'["rmmod"] = "next" \/ TearingDown("rmmod")' => stas_lock' = "rmmod"
    BY <1>1, <1>3 DEF WInv, Body, Emptied, TearingDown, Threads
  <2> QED
    BY <2>1, <2>3, <2>4, <2>5 DEF Emptied
<1>13. Pool'
  <2> DEFINE a == Len(L)
             b == Len(reord_list'[i])
  <2>1. b = 0 /\ a \in Nat /\ Hand' = Hand /\ Hand \in Nat /\ free' = free /\ lost' = lost + a
    BY <1>1, <1>4, <1>8 DEF Hand
  <2> HIDE DEF a, b
  <2>2. free' + lost' + b + Hand' = free + lost + a + Hand
    BY <1>8, <2>1
  <2>3. Balanced(i)
    BY <2>2 DEF Balanced, a, b
  <2> QED
    BY <1>2, <1>4, <1>9, <2>3, PoolMoved DEF WInv, Body
<1> QED
  BY <1>7, <1>9, <1>10, <1>11, <1>12, <1>13 DEF Body

\* aicwf_sdio_release() and the ends of aicwf_rx_deinit().
LEMMA RmmodBody ==
    ASSUME WInv, BusDown \/ RmmodLock \/ RmmodUnlock \/ RmmodStop PROVE Body'
<1>1. /\ UNCHANGED <<sta, ctrl, timers, free, vif, at, pframe, senders, ghosts>>
      /\ bus' \in {"UP", "DOWN"}
      /\ \/ /\ pc["rmmod"] = "idle" /\ pc' = [pc EXCEPT !["rmmod"] = "down"]
            /\ stas_lock' = stas_lock
         \/ /\ pc["rmmod"] = "down" /\ pc' = [pc EXCEPT !["rmmod"] = "next"]
            /\ stas_lock = "none" /\ stas_lock' = "rmmod"
         \/ /\ pc["rmmod"] = "next" /\ pc' = [pc EXCEPT !["rmmod"] = "stop"]
            /\ stas_lock' = "none"
         \/ /\ pc["rmmod"] = "stop" /\ pc["rx"] = "idle" /\ stas_lock' = stas_lock
            /\ pc' = [pc EXCEPT !["rmmod"] = "gone", !["rx"] = "gone"]
  BY DEF BusDown, RmmodLock, RmmodUnlock, RmmodStop, Go, WInv, Body, Flags
<1>2. /\ pc \in [Threads -> {"idle", "found", "fl_list", "fl_timer", "fl_work", "de_timer",
                             "de_free", "down", "next", "stop", "gone"}]
      /\ "rmmod" \in Threads /\ "rx" \in Threads /\ "user" \in Threads
  BY DEF WInv, Body, Flags, Threads
<1>3. /\ pc' \in [Threads -> {"idle", "found", "fl_list", "fl_timer", "fl_work", "de_timer",
                              "de_free", "down", "next", "stop", "gone"}]
      /\ pc'["user"] = pc["user"]
      /\ pc'["rx"] = pc["rx"] \/ (pc["rx"] = "idle" /\ pc'["rx"] = "gone")
      /\ \/ pc["rmmod"] = "idle" /\ pc'["rmmod"] = "down" /\ stas_lock' = stas_lock
         \/ pc["rmmod"] = "down" /\ pc'["rmmod"] = "next" /\ stas_lock = "none" /\ stas_lock' = "rmmod"
         \/ pc["rmmod"] = "next" /\ pc'["rmmod"] = "stop" /\ stas_lock' = "none"
         \/ pc["rmmod"] = "stop" /\ pc'["rmmod"] = "gone" /\ stas_lock' = stas_lock
  BY <1>1, <1>2
<1>4. \A t \in Threads : /\ TearingDown(t)' <=> TearingDown(t)
                         /\ pc'[t] = "de_free" <=> pc[t] = "de_free"
  BY <1>3 DEF TearingDown, Threads
<1>5. Flags'
  BY <1>1, <1>3 DEF WInv, Body, Flags, ctrl, timers, senders, ghosts
<1>6. GapTimed'
  BY <1>1 DEF WInv, Body, GapTimed, ctrl, timers, ghosts
<1>7. Emptied'
  <2>1. pc'["rx"] \in {"fl_timer", "fl_work"} => reord_list'[at'["rx"]] = <<>>
    BY <1>1, <1>3 DEF WInv, Body, Emptied, ctrl
  <2>2. \A t \in Threads : /\ TearingDown(t)' => reord_list'[at'[t]] = <<>> \/ torn'[at'[t]]
                           /\ pc'[t] = "de_free" => ~timer'[at'[t]] \/ torn'[at'[t]]
    BY <1>1, <1>4 DEF WInv, Body, Emptied, ctrl, timers, ghosts
  <2>3. TearingDown("user")' => stas_lock' = "user"
    BY <1>2, <1>3, <1>4 DEF WInv, Body, Emptied
  <2>4. pc'["rmmod"] = "next" \/ TearingDown("rmmod")' => stas_lock' = "rmmod"
    BY <1>3 DEF TearingDown
  <2> QED
    BY <2>1, <2>2, <2>3, <2>4 DEF Emptied
<1>8. free' \in Nat /\ lost' \in Nat /\ free' + lost' = free + lost
  BY <1>1 DEF WInv, Body, Numbers, ghosts
<1>9. pc'["rx"] = "found" <=> pc["rx"] = "found"
  BY <1>3
<1> QED
  BY <1>1, <1>5, <1>6, <1>7, <1>8, <1>9, Quiet DEF ctrl, senders, ghosts

-----------------------------------------------------------------------------
(* The specification. *)

\* The windows of a driver that has just been loaded.
LEMMA InitWInv == Init => WInv
<1> SUFFICES ASSUME Init PROVE WInv
  OBVIOUS
<1>0. /\ SeqSpace \in Nat /\ PoolSize \in Nat /\ First \in Nat /\ MaxArrivals \in Nat
      /\ <<>> \in Seq(Nat) /\ DOMAIN <<>> = {}
  BY Constants
<1>1. RInv
  BY InitRInv
<1>2. Flags
  BY DEF Init, Flags
<1>3. Numbers
  BY <1>0 DEF Init, Numbers
<1>4. ASSUME NEW i \in Ifaces PROVE Window(i)
  <2>1. reord_list[i] = <<>> /\ ind_sn[i] = NoSn /\ last[i] = First /\ pc["rx"] = "idle"
    BY DEF Init, Threads
  <2>2. Ascending(<<>>)
    BY <1>0 DEF Ascending
  <2> QED
    BY <2>1, <2>2 DEF Window, Fresh, Found
<1>5. Held /\ ReleasedInOrder
  BY DEF Init, Held, ReleasedInOrder, Threads
<1>6. GapTimed
  BY DEF Init, GapTimed
<1>7. Emptied
  BY DEF Init, Emptied, TearingDown, Threads
<1>8. Pool
  <2>1. \A i \in Ifaces : {i} \X DOMAIN reord_list[i] = {}
    BY <1>0 DEF Init
  <2>2. Places(reord_list) = {}
    BY <2>1 DEF Places
  <2>3. IsFiniteSet({}) /\ Cardinality({}) = 0
    BY FS_EmptySet
  <2>4. free = PoolSize /\ lost = 0 /\ pframe = NoFrame
    BY DEF Init
  <2> QED
    BY <1>0, <2>2, <2>3, <2>4 DEF Pool, PoolConserved
<1> QED
  BY <1>1, <1>2, <1>3, <1>4, <1>5, <1>6, <1>7, <1>8 DEF WInv, Body

\* Every step keeps the windows.
LEMMA NextWInv == WInv /\ [Next]_vars => WInv'
<1> SUFFICES ASSUME WInv, [Next]_vars PROVE WInv'
  OBVIOUS
<1>0. RInv'
  BY NextRInv DEF WInv
<1>1. CASE Rx
  <2>1. CASE \/ \E i \in Ifaces \cup Others : RxDirect(i)
             \/ \E i \in Ifaces : RxPlain(i) \/ RxNoWindow(i)
    BY <1>0, <2>1, DirectBody DEF WInv
  <2>2. CASE \E i \in Ifaces : RxFlush(i)
    BY <1>0, <2>2, FlushBody DEF WInv
  <2>3. CASE \E i \in Ifaces : \E n \in First + 1 .. First + MaxArrivals * Reach : RxLookup(i, n)
    BY <1>0, <2>3, LookupBody DEF WInv
  <2> QED
    BY <1>1, <2>1, <2>2, <2>3 DEF Rx
<1>2. CASE RxSteps
  BY <1>0, <1>2, LateBody, BufferBody, FlushListBody, FlushBody DEF RxSteps, WInv
<1>3. CASE Teardown
  BY <1>0, <1>3, DeinitListBody, RmmodBody DEF Teardown, WInv
<1>4. CASE \E i \in Ifaces : Timeout(i)
  BY <1>0, <1>4, TimerBody, WorkerBody DEF Timeout, WInv
<1>5. CASE \E t \in Threads : Deinit(t)
  BY <1>0, <1>5, DeinitTimerBody, DeinitFreeBody DEF Deinit, WInv
<1>6. CASE UNCHANGED vars
  BY <1>0, <1>6, DirectBody DEF WInv
<1> QED
  BY <1>1, <1>2, <1>3, <1>4, <1>5, <1>6 DEF Next

\* The windows are kept for ever.
LEMMA SpecWInv == Spec => []WInv
BY InitWInv, NextWInv, PTL DEF Spec

\* Every variable of the reordering keeps its type, whatever the sequence space, the pool
\* and the traffic: in particular ind_sn stays a sequence number or unset, and no path of
\* reord_process_unit(), the worker or the teardown gives the pool a frame it does not own.
THEOREM WindowTypes == Spec => []TypeOK
<1>1. ASSUME WInv PROVE TypeOK
  <2>1. Flags /\ Numbers /\ Pool
    BY <1>1 DEF WInv, Body
  <2>2. free \in 0 .. PoolSize /\ lost \in 0 .. PoolSize
    <3> DEFINE c == Cardinality(Places(reord_list))
    <3>1. c \in Nat
      BY <2>1, FS_CardinalityType DEF Pool
    <3>2. Hand \in Nat /\ free \in Nat /\ lost \in Nat /\ free + lost + c + Hand = PoolSize
      BY <2>1 DEF Pool, PoolConserved, Numbers, Hand
    <3> HIDE DEF c
    <3> QED
      BY <3>1, <3>2, Constants
  <2> QED
    BY <2>1, <2>2 DEF TypeOK, Flags, Numbers
<1> QED
  BY <1>1, SpecWInv, PTL

\* Every frame of rxframes_freequeue is in the pool, in a list, in the receive thread's
\* hands or lost on a path that forgets it: none is ever in two places, for any number of
\* interfaces and any pool.
THEOREM AlwaysPoolConserved == Spec => []PoolConserved
<1>1. WInv => PoolConserved
  BY DEF WInv, Body, Pool
<1> QED
  BY <1>1, SpecWInv, PTL

\* The invariant bounds what waits by the window: the differences the code computes modulo
\* SeqSpace are those of the frames' numbers.
LEMMA SpanAhead ==
    ASSUME NEW i \in Ifaces, Numbers, NEW w \in Nat, Span(i, w), Ascending(reord_list[i])
    PROVE  /\ \A k \in DOMAIN reord_list[i] :
                  (Sn(reord_list[i][k]) - ind_sn[i]) % SeqSpace \in 1 .. WinSize - 1
           /\ \A k \in 1 .. Len(reord_list[i]) - 1 :
                  (Sn(reord_list[i][k]) - ind_sn[i]) % SeqSpace
                      < (Sn(reord_list[i][k + 1]) - ind_sn[i]) % SeqSpace
<1> DEFINE L == reord_list[i]
<1>1. L \in Seq(Nat) /\ ind_sn[i] = Sn(w) /\ Ascending(L)
      /\ \A k \in DOMAIN L : w < L[k] /\ L[k] < w + WinSize
  BY DEF Numbers, Span
<1>2. ASSUME NEW k \in DOMAIN L
      PROVE  (Sn(L[k]) - Sn(w)) % SeqSpace = L[k] - w /\ L[k] - w \in 1 .. WinSize - 1 /\ L[k] \in Nat
  <2>1. PICK f \in Nat : f = L[k] /\ w < f /\ f < w + WinSize
    BY <1>1
  <2>2. f \in Int /\ w \in Int /\ 0 <= f - w /\ f - w < SeqSpace /\ f - w \in 1 .. WinSize - 1
    BY <2>1, Constants
  <2>3. (Sn(f) - Sn(w)) % SeqSpace = f - w
    BY <2>2, SnDifference
  <2> QED
    BY <2>1, <2>2, <2>3
<1>3. ASSUME NEW k \in 1 .. Len(L) - 1
      PROVE  (Sn(L[k]) - Sn(w)) % SeqSpace < (Sn(L[k + 1]) - Sn(w)) % SeqSpace
  <2>1. k \in DOMAIN L /\ k + 1 \in DOMAIN L /\ k < k + 1
    BY <1>1
  <2>2. L[k] < L[k + 1]
    BY <1>1, <2>1 DEF Ascending
  <2>3. \A a, b \in Nat : a < b => a - w < b - w
    OBVIOUS
  <2> QED
    BY <1>2, <2>1, <2>2, <2>3
<1> QED
  BY <1>1, <1>2, <1>3

\* For any sequence space and any window that fits twice into it with the sender's reach:
\* what waits in a list lies strictly ahead of ind_sn, inside the window and in ascending
\* order, across the wrap, so that the walks of reord_rxframe_enqueue(),
\* reord_rxframes_process() and reord_rxframes_ind() stop at the right frame.
THEOREM AlwaysWindowAhead == Spec => []WindowAhead
<1>1. ASSUME WInv PROVE WindowAhead
  <2> SUFFICES ASSUME NEW i \in Ifaces
               PROVE  /\ \A k \in DOMAIN reord_list[i] :
                             (Sn(reord_list[i][k]) - ind_sn[i]) % SeqSpace \in 1 .. WinSize - 1
                      /\ \A k \in 1 .. Len(reord_list[i]) - 1 :
                             (Sn(reord_list[i][k]) - ind_sn[i]) % SeqSpace
                                 < (Sn(reord_list[i][k + 1]) - ind_sn[i]) % SeqSpace
    BY DEF WindowAhead
  <2>1. Numbers /\ Window(i)
    BY <1>1 DEF WInv, Body
  <2>2. CASE reord_list[i] = <<>>
    <3>1. DOMAIN <<>> = {} /\ Len(<<>>) = 0 /\ 1 .. 0 - 1 = {}
      OBVIOUS
    <3> QED
      BY <2>2, <3>1
  <2>3. CASE reord_list[i] # <<>>
    <3>1. PICK w \in Nat : Span(i, w)
      BY <2>1, <2>3 DEF Window, Fresh
    <3> QED
      BY <2>1, <3>1, SpanAhead DEF Window
  <2> QED
    BY <2>2, <2>3
<1> QED
  BY <1>1, SpecWInv, PTL

\* Whatever mixture of arrivals, timeouts, flushes and teardowns releases them, frames
\* leave a buffer in the order in which they were sent and none leaves it twice.
THEOREM AlwaysReleasedInOrder == Spec => []ReleasedInOrder
<1>1. WInv => ReleasedInOrder
  BY DEF WInv, Body
<1> QED
  BY <1>1, SpecWInv, PTL

\* A frame that waits for an older one always has a timeout coming: no interleaving of
\* reord_process_unit(), reord_timeout_handler(), reord_timeout_worker() and the flush
\* leaves a gap without a timer.
THEOREM AlwaysGapTimed == Spec => []GapTimed
<1>1. WInv => GapTimed
  BY DEF WInv, Body
<1> QED
  BY <1>1, SpecWInv, PTL

\* Only the last step of reord_deinit_sta() takes a peer out of stas_reord_list.
LEMMA OnlyFreeRemoves ==
    ASSUME WInv, [Next]_vars, NEW i \in Ifaces, sta[i], ~sta'[i]
    PROVE  \E t \in Threads : pc[t] = "de_free" /\ at[t] = i
<1>0. sta \in [Ifaces -> BOOLEAN]
  BY DEF WInv, Body, Flags
<1>1. CASE Rx
  BY <1>0, <1>1 DEF Rx, RxDirect, RxNoWindow, RxPlain, RxFlush, RxLookup
<1>2. CASE RxSteps
  BY <1>2 DEF RxSteps, RxLate, RxDuplicate, RxBuffer, FlushList, FlushTimer, FlushWork
<1>3. CASE Teardown
  BY <1>3 DEF Teardown, DelStation, Disconnect, RmmodNext, DeinitList, BusDown, RmmodLock,
              RmmodUnlock, RmmodStop
<1>4. CASE \E o \in Ifaces : Timeout(o)
  BY <1>4 DEF Timeout, TimerFires, TimerHandler, Worker
<1>5. CASE \E t \in Threads : Deinit(t)
  <2>1. PICK t \in Threads : Deinit(t)
    BY <1>5
  <2>2. ~DeinitTimer(t)
    BY DEF DeinitTimer
  <2>3. pc[t] = "de_free" /\ sta' = [sta EXCEPT ![at[t]] = FALSE]
    BY <2>1, <2>2 DEF Deinit, DeinitFree
  <2> QED
    BY <1>0, <2>3
<1>6. CASE UNCHANGED vars
  BY <1>6 DEF vars
<1> QED
  BY <1>1, <1>2, <1>3, <1>4, <1>5, <1>6 DEF Next

\* A window that no frame touched while it was torn down is freed with an empty buffer and
\* no pending timer: the worker, which takes no part in stas_reord_lock, cannot start the
\* timer again between the two steps of reord_deinit_sta().
THEOREM TeardownIsQuiet == Spec => QuietTeardown
<1>1. ASSUME WInv, [Next]_vars
      PROVE  \A i \in Ifaces :
                 sta[i] /\ ~sta'[i] /\ ~torn[i] => ~timer[i] /\ reord_list[i] = <<>>
  <2> SUFFICES ASSUME NEW i \in Ifaces, sta[i], ~sta'[i], ~torn[i]
               PROVE  ~timer[i] /\ reord_list[i] = <<>>
    OBVIOUS
  <2>1. PICK t \in Threads : pc[t] = "de_free" /\ at[t] = i
    BY <1>1, OnlyFreeRemoves
  <2> QED
    BY <1>1, <2>1 DEF WInv, Body, Emptied, TearingDown
<1> QED
  BY <1>1, SpecWInv, PTL DEF Spec, QuietTeardown

=============================================================================
