------------------------------- MODULE Lemmas -------------------------------
(***************************************************************************)
(* The facts the proofs of several components rest on: counters and        *)
(* indices that wrap, the lowest of a set of numbers, and what the list    *)
(* operators of ListOps return.  On lists without duplicates these do to   *)
(* the set of linked entries what their names say, and the result has no   *)
(* duplicates.                                                             *)
(*                                                                         *)
(* Then what the functions of generic_list.h do to a ring of pointers:     *)
(* list_add_tail appends to the list, list_del and list_del_init remove    *)
(* from it, and list_splice_init moves it behind another head, each of     *)
(* them as long as the entry is where the caller takes it to be.           *)
(*                                                                         *)
(* And what the calls of io_driver.c do to its two lists, for the loop and *)
(* for the components whose handlers make them.                            *)
(***************************************************************************)
EXTENDS ListPointers, IoDriverOps,
        SequenceTheorems, FiniteSetTheorems, WellFoundedInduction, TLAPS

-----------------------------------------------------------------------------
(* Wrapping around.                                                        *)

\* Reducing a sum that is less than twice the modulus.
LEMMA ModWrap ==
  ASSUME NEW m \in Nat \ {0}, NEW x \in 0..(2*m - 1)
  PROVE  /\ x < m => x % m = x
         /\ x >= m => x % m = x - m
OBVIOUS

\* The same for a sum: the counter plus a wait.
LEMMA SumWrap ==
  ASSUME NEW m \in Nat \ {0}, NEW a \in 0..(m - 1), NEW b \in 0..m
  PROVE  (a + b) % m = IF a + b < m THEN a + b ELSE a + b - m
<1> DEFINE x == a + b
<1>1. x \in 0..(2*m - 1)
  OBVIOUS
<1> HIDE DEF x
<1>2. x < m => x % m = x
  BY <1>1, ModWrap
<1>3. x >= m => x % m = x - m
  BY <1>1, ModWrap
<1>4. x \in Int /\ m \in Int
  BY <1>1
<1> QED BY <1>2, <1>3, <1>4 DEF x

\* Such a sum is an index again.
LEMMA SumWrapRange ==
  ASSUME NEW m \in Nat \ {0}, NEW a \in 0..(m - 1), NEW b \in 0..m
  PROVE  (a + b) % m \in 0..(m - 1)
<1> DEFINE x == a + b
           y == x % m
<1>1. x \in 0..(2*m - 1) /\ m \in Nat
  OBVIOUS
<1> HIDE DEF x
<1>2. (x < m => x % m = x) /\ (x >= m => x % m = x - m)
  <2>1. x < m => x % m = x
    BY <1>1, ModWrap
  <2>2. x >= m => x % m = x - m
    BY <1>1, ModWrap
  <2> QED BY <2>1, <2>2
<1> HIDE DEF y
<1>3. y \in 0..(m - 1)
  BY <1>1, <1>2 DEF y
<1> QED BY <1>3 DEF x, y

-----------------------------------------------------------------------------
(* The lowest of a set of numbers, as the kernel picks descriptors.        *)

\* A set of numbers has a least one.
LEMMA LeastExists ==
  ASSUME NEW S \in SUBSET Nat, S # {}
  PROVE  \E f \in S : \A g \in S : f <= g
<1> DEFINE R == OpToRel(<, Nat)
<1>1. PICK f \in S : \A g \in S : ~(<<g, f>> \in R)
  BY NatLessThanWellFounded, WFMin
<1>2. R = { ss \in Nat \X Nat : ss[1] < ss[2] }
  BY DEF OpToRel
<1> HIDE DEF R
<1>3. ASSUME NEW g \in S PROVE f <= g
  <2>1. f \in Nat /\ g \in Nat
    OBVIOUS
  <2>2. ~(g < f)
    BY <1>1, <1>2, <2>1
  <2> QED BY <2>1, <2>2
<1> QED BY <1>3

\* Induction up to n, about the members of a set.
LEMMA UpTo ==
  ASSUME NEW n \in Nat, NEW S, 0 \in S, \A k \in 0..(n - 1) : k \in S => k + 1 \in S
  PROVE  \A k \in 0..n : k \in S
<1> DEFINE Not == { k \in Nat : k <= n /\ k \notin S }
<1>1. Not = {}
  <2> SUFFICES ASSUME Not # {} PROVE FALSE
    OBVIOUS
  <2> Not \in SUBSET Nat
    OBVIOUS
  <2>1. PICK f \in Not : \A g \in Not : f <= g
    BY LeastExists
  <2>2. f # 0
    BY <2>1
  <2>3. f - 1 \in 0..(n - 1) /\ f - 1 \notin Not /\ (f - 1) + 1 = f
    BY <2>1, <2>2
  <2>4. f - 1 \in S
    BY <2>3
  <2> QED BY <2>1, <2>3, <2>4
<1> QED BY <1>1

\* f starts with x and goes on by the steps.
Follows(f, S, n, x, step) ==
  f \in [0..n -> S] /\ f[0] = x /\ \A k \in 1..n : f[k] = step[k][f[k - 1]]

\* What a recursive definition over 0..n asks for exists.
LEMMA StepsExist ==
  ASSUME NEW S, NEW n \in Nat, NEW x \in S, NEW step \in [1..n -> [S -> S]]
  PROVE  \E f : Follows(f, S, n, x, step)
<1> DEFINE Good(m) == \E f \in [0..m -> S] : f[0] = x /\ \A k \in 1..m : f[k] = step[k][f[k - 1]]
           T == { m \in 0..n : Good(m) }
<1>1. Good(0)
  <2> DEFINE f == [k \in 0..0 |-> x]
  <2>1. f \in [0..0 -> S] /\ f[0] = x /\ \A k \in 1..0 : f[k] = step[k][f[k - 1]]
    OBVIOUS
  <2> QED BY <2>1
<1>2. ASSUME NEW m \in 0..(n - 1), Good(m)
      PROVE  Good(m + 1)
  <2>1. PICK g \in [0..m -> S] : g[0] = x /\ \A k \in 1..m : g[k] = step[k][g[k - 1]]
    BY <1>2
  <2> DEFINE f == [k \in 0..(m + 1) |-> IF k <= m THEN g[k] ELSE step[m + 1][g[m]]]
  <2>2. step[m + 1] \in [S -> S] /\ g[m] \in S
    OBVIOUS
  <2>3. f \in [0..(m + 1) -> S]
    BY <2>2
  <2>4. f[0] = x
    BY <2>1
  <2>5. ASSUME NEW k \in 1..(m + 1) PROVE f[k] = step[k][f[k - 1]]
    <3>1. k - 1 \in 0..m /\ f[k - 1] = g[k - 1]
      OBVIOUS
    <3>2. CASE k <= m
      <4>1. k \in 1..m /\ f[k] = g[k]
        BY <3>2
      <4> QED BY <4>1, <3>1, <2>1
    <3>3. CASE k = m + 1
      <4>1. f[k] = step[m + 1][g[m]] /\ k - 1 = m
        BY <3>3
      <4> QED BY <4>1, <3>1, <3>3
    <3> QED BY <3>2, <3>3
  <2> HIDE DEF f
  <2> QED BY <2>3, <2>4, <2>5
<1> HIDE DEF Good
<1>3. 0 \in T
  BY <1>1
<1>4. ASSUME NEW m \in 0..(n - 1), m \in T PROVE m + 1 \in T
  <2>1. Good(m) /\ m + 1 \in 0..n
    BY <1>4
  <2> QED BY <2>1, <1>2
<1>5. n \in 0..n
  OBVIOUS
<1>6. \A m \in 0..n : m \in T
  <2> HIDE DEF T
  <2> QED BY <1>3, <1>4, UpTo
<1>7. Good(n)
  BY <1>5, <1>6
<1> QED BY <1>7 DEF Good, Follows

\* The next one above the lowest ones
LEMMA NextLowest ==
  ASSUME NEW S \in SUBSET Nat, IsFiniteSet(S), NEW T \in SUBSET S,
         \A t \in T, s \in S : s < t => s \in T,
         Cardinality(T) < Cardinality(S)
  PROVE  \E f \in S \ T :
           /\ { g \in S : g < f } = T
           /\ \A t \in T \cup {f}, s \in S : s < t => s \in T \cup {f}
           /\ Cardinality(T \cup {f}) = Cardinality(T) + 1
<1>1. IsFiniteSet(T) /\ Cardinality(T) \in Nat
  BY FS_Subset, FS_CardinalityType
<1>2. S \ T # {}
  <2>1. S # T
    BY <1>1
  <2> QED BY <2>1
<1>3. PICK f \in S \ T : \A g \in S \ T : f <= g
  <2>1. (S \ T) \in SUBSET Nat
    OBVIOUS
  <2> QED BY <1>2, <2>1, LeastExists
<1>4. \A g \in S : g \in Nat /\ f \in Nat
  OBVIOUS
<1>5. ASSUME NEW g \in S PROVE g < f <=> g \in T
  <2>1. g \in T => ~(f < g) /\ f # g
    BY <1>3
  <2> QED BY <1>3, <1>4, <2>1
<1>6. Cardinality(T \cup {f}) = Cardinality(T) + 1
  BY <1>1, FS_AddElement
<1>7. ASSUME NEW t \in T \cup {f}, NEW s \in S, s < t PROVE s \in T \cup {f}
  BY <1>5, <1>7
<1> QED BY <1>5, <1>6, <1>7

-----------------------------------------------------------------------------
(* Lists.                                                                  *)

\* What the community operator RemoveAt returns, element by element.
LEMMA RemoveAtProperties ==
  ASSUME NEW S, NEW s \in Seq(S), NEW i \in 1..Len(s)
  PROVE  /\ RemoveAt(s, i) \in Seq(S)
         /\ Len(RemoveAt(s, i)) = Len(s) - 1
         /\ \A j \in 1..(Len(s) - 1) :
              RemoveAt(s, i)[j] = IF j < i THEN s[j] ELSE s[j + 1]
<1> DEFINE a == SubSeq(s, 1, i-1)
           b == SubSeq(s, i+1, Len(s))
<1>0. Len(s) \in Nat /\ i \in Int
  BY LenProperties
<1>1. /\ a \in Seq(S)
      /\ Len(a) = i - 1
      /\ \A j \in 1..(i-1) : a[j] = s[j]
  <2>1. \A j \in 1..(i-1) : s[j] \in S
    BY <1>0, ElementOfSeq
  <2>2. /\ a \in Seq(S)
        /\ Len(a) = IF 1 <= i-1 THEN (i-1) - 1 + 1 ELSE 0
        /\ \A j \in 1..((i-1) - 1 + 1) : a[j] = s[1 + j - 1]
    BY <2>1, <1>0, SubSeqProperties
  <2> QED BY <2>2, <1>0
<1>2. /\ b \in Seq(S)
      /\ Len(b) = Len(s) - i
      /\ \A j \in 1..(Len(s) - i) : b[j] = s[i + j]
  <2>1. \A j \in (i+1)..Len(s) : s[j] \in S
    BY <1>0, ElementOfSeq
  <2>2. /\ b \in Seq(S)
        /\ Len(b) = IF i+1 <= Len(s) THEN Len(s) - (i+1) + 1 ELSE 0
        /\ \A j \in 1..(Len(s) - (i+1) + 1) : b[j] = s[(i+1) + j - 1]
    BY <2>1, <1>0, SubSeqProperties
  <2> QED BY <2>2, <1>0
<1>3. RemoveAt(s, i) = a \o b
  BY DEF RemoveAt
<1> HIDE DEF a, b
<1>4. /\ a \o b \in Seq(S)
      /\ Len(a \o b) = Len(a) + Len(b)
      /\ \A j \in 1..(Len(a) + Len(b)) :
           (a \o b)[j] = IF j <= Len(a) THEN a[j] ELSE b[j - Len(a)]
  BY <1>1, <1>2, ConcatProperties
<1>5. ASSUME NEW j \in 1..(Len(s) - 1)
      PROVE  (a \o b)[j] = IF j < i THEN s[j] ELSE s[j + 1]
  <2>1. CASE j < i
    BY <2>1, <1>0, <1>1, <1>2, <1>4
  <2>2. CASE ~(j < i)
    <3>1. (a \o b)[j] = b[j - Len(a)]
      BY <2>2, <1>0, <1>1, <1>2, <1>4
    <3>2. j - Len(a) \in 1..(Len(s) - i) /\ i + (j - Len(a)) = j + 1
      BY <2>2, <1>0, <1>1
    <3> QED BY <2>2, <3>1, <3>2, <1>2
  <2> QED BY <2>1, <2>2
<1> QED
  BY <1>0, <1>1, <1>2, <1>3, <1>4, <1>5

\* list_del_init takes the entry, and nothing else, out of the list.
LEMMA ListDelInitProperties ==
  ASSUME NEW S, NEW s \in Seq(S), NoDuplicates(s), NEW x
  PROVE  /\ ListDelInit(s, x) \in Seq(S)
         /\ NoDuplicates(ListDelInit(s, x))
         /\ Linked(ListDelInit(s, x)) = Linked(s) \ {x}
<1>0. DOMAIN s = 1..Len(s) /\ Len(s) \in Nat
  BY LenProperties
<1>1. CASE x \in Range(s)
  <2> DEFINE i == CHOOSE i \in DOMAIN s : s[i] = x
             t == RemoveAt(s, i)
  <2>1. i \in 1..Len(s) /\ s[i] = x
    BY <1>0, <1>1 DEF Range
  <2>2. ListDelInit(s, x) = t
    BY <1>1 DEF ListDelInit
  <2> HIDE DEF i
  <2>3. /\ t \in Seq(S)
        /\ Len(t) = Len(s) - 1
        /\ \A j \in 1..(Len(s) - 1) : t[j] = IF j < i THEN s[j] ELSE s[j + 1]
    BY <2>1, RemoveAtProperties
  <2> HIDE DEF t
  <2>4. DOMAIN t = 1..(Len(s) - 1)
    BY <2>3, LenProperties
  <2>5. \A j, k \in 1..Len(s) : s[j] = s[k] => j = k
    BY <1>0 DEF NoDuplicates, IsInjective
  <2>6. NoDuplicates(t)
    <3>1. SUFFICES ASSUME NEW j \in 1..(Len(s)-1), NEW k \in 1..(Len(s)-1), t[j] = t[k]
                   PROVE  j = k
      BY <2>4 DEF NoDuplicates, IsInjective
    <3>2. CASE j < i /\ k < i
      BY <3>1, <3>2, <2>1, <2>3, <2>5, <1>0
    <3>3. CASE j < i /\ ~(k < i)
      BY <3>1, <3>3, <2>1, <2>3, <2>5, <1>0
    <3>4. CASE ~(j < i) /\ k < i
      BY <3>1, <3>4, <2>1, <2>3, <2>5, <1>0
    <3>5. CASE ~(j < i) /\ ~(k < i)
      BY <3>1, <3>5, <2>1, <2>3, <2>5, <1>0
    <3> QED BY <3>2, <3>3, <3>4, <3>5
  <2>7. ASSUME NEW y \in Linked(t)
        PROVE  y \in Linked(s) \ {x}
    <3>1. PICK j \in 1..(Len(s)-1) : t[j] = y
      BY <2>4 DEF Linked, Range
    <3>2. CASE j < i
      <4>1. y = s[j] /\ j \in 1..Len(s) /\ j # i
        BY <3>1, <3>2, <2>1, <2>3, <1>0
      <4> QED BY <4>1, <2>1, <2>5, <1>0 DEF Linked, Range
    <3>3. CASE ~(j < i)
      <4>1. y = s[j+1] /\ j+1 \in 1..Len(s) /\ j+1 # i
        BY <3>1, <3>3, <2>1, <2>3, <1>0
      <4> QED BY <4>1, <2>1, <2>5, <1>0 DEF Linked, Range
    <3> QED BY <3>2, <3>3
  <2>8. ASSUME NEW y \in Linked(s) \ {x}
        PROVE  y \in Linked(t)
    <3>1. PICK j \in 1..Len(s) : s[j] = y
      BY <1>0 DEF Linked, Range
    <3>2. CASE j < i
      <4>1. j \in 1..(Len(s)-1) /\ t[j] = y
        BY <3>1, <3>2, <2>1, <2>3, <1>0
      <4> QED BY <4>1, <2>4 DEF Linked, Range
    <3>3. CASE ~(j < i)
      <4>1. j # i
        BY <3>1, <2>1
      <4>2. j-1 \in 1..(Len(s)-1) /\ ~(j-1 < i) /\ (j-1)+1 = j
        BY <4>1, <3>3, <2>1, <1>0
      <4>3. t[j-1] = y
        BY <4>2, <3>1, <2>3
      <4> QED BY <4>2, <4>3, <2>4 DEF Linked, Range
    <3> QED BY <3>2, <3>3
  <2>9. Linked(t) = Linked(s) \ {x}
    BY <2>7, <2>8
  <2> QED BY <2>2, <2>3, <2>6, <2>9
<1>2. CASE x \notin Range(s)
  BY <1>2 DEF ListDelInit, Linked
<1> QED BY <1>1, <1>2

\* What stands before the entry that is deleted keeps its position.
LEMMA ListDelInitPrefix ==
  ASSUME NEW S, NEW s \in Seq(S), NoDuplicates(s), NEW i \in 1..Len(s)
  PROVE  /\ Len(ListDelInit(s, s[i])) = Len(s) - 1
         /\ \A j \in 1..(i - 1) : ListDelInit(s, s[i])[j] = s[j]
<1> DEFINE k == CHOOSE k \in DOMAIN s : s[k] = s[i]
<1>0. DOMAIN s = 1..Len(s) /\ Len(s) \in Nat
  BY LenProperties
<1>1. k \in 1..Len(s) /\ s[k] = s[i]
  BY <1>0
<1>2. s[i] \in Range(s)
  BY <1>0 DEF Range
<1>3. ListDelInit(s, s[i]) = RemoveAt(s, k)
  BY <1>2 DEF ListDelInit
<1> HIDE DEF k
<1>4. k = i
  BY <1>0, <1>1 DEF NoDuplicates, IsInjective
<1>5. /\ Len(RemoveAt(s, i)) = Len(s) - 1
      /\ \A j \in 1..(Len(s) - 1) : RemoveAt(s, i)[j] = IF j < i THEN s[j] ELSE s[j + 1]
  BY RemoveAtProperties
<1>6. \A j \in 1..(i-1) : j \in 1..(Len(s) - 1) /\ j < i
  BY <1>0
<1> QED BY <1>3, <1>4, <1>5, <1>6

\* list_add_tail of an entry that is not on the list yet.
LEMMA ListAddTailProperties ==
  ASSUME NEW S, NEW s \in Seq(S), NoDuplicates(s), NEW x \in S, x \notin Linked(s)
  PROVE  /\ ListAddTail(s, x) \in Seq(S)
         /\ NoDuplicates(ListAddTail(s, x))
         /\ Linked(ListAddTail(s, x)) = Linked(s) \cup {x}
<1> DEFINE t == Append(s, x)
<1>0. DOMAIN s = 1..Len(s) /\ Len(s) \in Nat
  BY LenProperties
<1>1. /\ t \in Seq(S)
      /\ Len(t) = Len(s) + 1
      /\ \A i \in 1..Len(s) : t[i] = s[i]
      /\ t[Len(s) + 1] = x
  BY AppendProperties
<1>2. ListAddTail(s, x) = t
  BY DEF ListAddTail
<1> HIDE DEF t
<1>3. DOMAIN t = 1..(Len(s) + 1)
  BY <1>1, LenProperties
<1>4. \A i \in 1..Len(s) : s[i] # x
  BY <1>0 DEF Linked, Range
<1>5. \A j, k \in 1..Len(s) : s[j] = s[k] => j = k
  BY <1>0 DEF NoDuplicates, IsInjective
<1>6. \A j \in 1..(Len(s)+1) : j \in 1..Len(s) \/ j = Len(s) + 1
  BY <1>0
<1>7. \A j, k \in 1..(Len(s)+1) : t[j] = t[k] => j = k
  BY <1>1, <1>4, <1>5, <1>6
<1>8. Linked(t) = Linked(s) \cup {x}
  <2>1. ASSUME NEW y \in Linked(t) PROVE y \in Linked(s) \cup {x}
    BY <1>0, <1>1, <1>3, <1>6 DEF Linked, Range
  <2>2. ASSUME NEW y \in Linked(s) \cup {x} PROVE y \in Linked(t)
    <3>1. 1..Len(s) \subseteq 1..(Len(s)+1) /\ Len(s)+1 \in 1..(Len(s)+1)
      BY <1>0
    <3> QED BY <3>1, <1>0, <1>1, <1>3 DEF Linked, Range
  <2> QED BY <2>1, <2>2
<1> QED
  BY <1>1, <1>2, <1>3, <1>7, <1>8 DEF NoDuplicates, IsInjective

\* Taking the first entry off a list that is not empty.
LEMMA HeadTailOfList ==
  ASSUME NEW S, NEW s \in Seq(S), NoDuplicates(s), s # EmptyList
  PROVE  /\ Head(s) \in S
         /\ Head(s) \in Linked(s)
         /\ Tail(s) \in Seq(S)
         /\ NoDuplicates(Tail(s))
         /\ Linked(Tail(s)) = Linked(s) \ {Head(s)}
<1> DEFINE t == Tail(s)
<1>0. DOMAIN s = 1..Len(s) /\ Len(s) \in Nat \ {0}
  BY LenProperties, EmptySeq DEF EmptyList
<1>1. /\ Head(s) \in S
      /\ t \in Seq(S)
      /\ Len(t) = Len(s) - 1
      /\ \A i \in 1..Len(t) : t[i] = s[i+1]
  BY HeadTailProperties DEF EmptyList
<1>2. Head(s) = s[1]
  OBVIOUS
<1> HIDE DEF t
<1>3. DOMAIN t = 1..(Len(s) - 1)
  BY <1>1, LenProperties
<1>4. \A j, k \in 1..Len(s) : s[j] = s[k] => j = k
  BY <1>0 DEF NoDuplicates, IsInjective
<1>5. NoDuplicates(t)
  <2>1. SUFFICES ASSUME NEW j \in 1..(Len(s)-1), NEW k \in 1..(Len(s)-1), t[j] = t[k]
                 PROVE  j = k
    BY <1>3 DEF NoDuplicates, IsInjective
  <2>2. j+1 \in 1..Len(s) /\ k+1 \in 1..Len(s) /\ s[j+1] = s[k+1]
    BY <2>1, <1>0, <1>1
  <2>3. j+1 = k+1
    BY <2>2, <1>4
  <2> QED BY <2>3
<1>6. Linked(t) = Linked(s) \ {Head(s)}
  <2>1. ASSUME NEW y \in Linked(t) PROVE y \in Linked(s) \ {Head(s)}
    <3>1. PICK j \in 1..(Len(s)-1) : t[j] = y
      BY <1>3 DEF Linked, Range
    <3>2. y = s[j+1] /\ j+1 \in 1..Len(s) /\ j+1 # 1 /\ 1 \in 1..Len(s)
      BY <3>1, <1>0, <1>1
    <3> QED BY <3>2, <1>0, <1>2, <1>4 DEF Linked, Range
  <2>2. ASSUME NEW y \in Linked(s) \ {Head(s)} PROVE y \in Linked(t)
    <3>1. PICK j \in 1..Len(s) : s[j] = y
      BY <1>0 DEF Linked, Range
    <3>2. j # 1
      BY <3>1, <1>2
    <3>3. j-1 \in 1..(Len(s)-1) /\ (j-1)+1 = j
      BY <3>2, <1>0
    <3>4. t[j-1] = y
      BY <3>1, <3>3, <1>1
    <3> QED BY <3>3, <3>4, <1>3 DEF Linked, Range
  <2> QED BY <2>1, <2>2
<1>7. Head(s) \in Linked(s)
  BY <1>0, <1>2 DEF Linked, Range
<1> QED
  BY <1>1, <1>5, <1>6, <1>7 DEF t

\* A list that holds entries of S only, and the empty list.
LEMMA EmptyListProperties ==
  ASSUME NEW S
  PROVE  EmptyList \in Seq(S) /\ NoDuplicates(EmptyList) /\ Linked(EmptyList) = {}
BY DEF EmptyList, NoDuplicates, IsInjective, Linked, Range

\* What is linked on a list of entries of S is an entry of S.
LEMMA LinkedSubset ==
  ASSUME NEW S, NEW s \in Seq(S)
  PROVE  Linked(s) \subseteq S /\ (Linked(s) = {} <=> s = EmptyList)
<1>1. DOMAIN s = 1..Len(s) /\ Len(s) \in Nat /\ \A i \in 1..Len(s) : s[i] \in S
  BY LenProperties, ElementOfSeq
<1>2. Linked(s) \subseteq S
  BY <1>1 DEF Linked, Range
<1>3. CASE s = EmptyList
  BY <1>2, <1>3 DEF EmptyList, Linked, Range
<1>4. CASE s # EmptyList
  <2>1. 1 \in 1..Len(s)
    BY <1>1, <1>4, EmptySeq DEF EmptyList
  <2> QED BY <2>1, <1>1, <1>2, <1>4 DEF Linked, Range
<1> QED BY <1>2, <1>3, <1>4

-----------------------------------------------------------------------------
(* Going around a ring                                                     *)

\* A ring passes each of its struct list_heads once.
LEMMA AroundOnce ==
  ASSUME NEW S, NEW list \in Seq(S), NoDuplicates(list), NEW head, head \notin Linked(list)
  PROVE  /\ \A i, j \in 0..Len(list) :
              Around(head, list, i) = Around(head, list, j) => i = j
         /\ \A i, j \in 1..(Len(list) + 1) :
              Around(head, list, i) = Around(head, list, j) => i = j
         /\ \A i \in 1..Len(list) :
              /\ Around(head, list, i) = list[i]
              /\ Around(head, list, i) \in Linked(list)
         /\ Around(head, list, 0) = head
         /\ Around(head, list, Len(list) + 1) = head
<1>1. Len(list) \in Nat /\ DOMAIN list = 1..Len(list)
  BY LenProperties
<1>2. \A i \in 1..Len(list) : Around(head, list, i) = list[i] /\ list[i] \in Linked(list)
  BY <1>1 DEF Around, Linked, Range
<1>3. Around(head, list, 0) = head /\ Around(head, list, Len(list) + 1) = head
  BY <1>1 DEF Around
<1>4. \A i, j \in 1..Len(list) : list[i] = list[j] => i = j
  BY <1>1 DEF NoDuplicates, IsInjective
<1> QED BY <1>1, <1>2, <1>3, <1>4

\* A ring stays when the fields of its struct list_heads do.
LEMMA RingUntouched ==
  ASSUME NEW S, NEW list \in Seq(S), NEW head, NEW m, NEW n, RingIs(m, head, list),
         \A x \in {head} \cup Linked(list) : n.next[x] = m.next[x] /\ n.prev[x] = m.prev[x]
  PROVE  RingIs(n, head, list)
<1>1. Len(list) \in Nat /\ DOMAIN list = 1..Len(list)
  BY LenProperties
<1>2. \A i \in 0..(Len(list) + 1) : Around(head, list, i) \in {head} \cup Linked(list)
  BY <1>1 DEF Around, Linked, Range
<1> QED BY <1>1, <1>2 DEF RingIs

\* INIT_LIST_HEAD makes an empty ring and changes that one struct only.
LEMMA InitListHead ==
  ASSUME NEW N, NEW V, N \subseteq V, NEW m \in Memory(N, V), NEW x \in N
  PROVE  /\ INIT_LIST_HEAD(m, x) \in Memory(N, V)
         /\ RingIs(INIT_LIST_HEAD(m, x), x, EmptyList)
         /\ Alone(INIT_LIST_HEAD(m, x), x)
         /\ \A y \in N \ {x} : /\ INIT_LIST_HEAD(m, x).next[y] = m.next[y]
                               /\ INIT_LIST_HEAD(m, x).prev[y] = m.prev[y]
<1>1. m.next \in [N -> V] /\ m.prev \in [N -> V]
  BY DEF Memory
<1>2. Len(EmptyList) = 0
  BY DEF EmptyList
<1>3. Alone(INIT_LIST_HEAD(m, x), x)
  BY <1>1 DEF INIT_LIST_HEAD, Alone
<1>4. RingIs(INIT_LIST_HEAD(m, x), x, EmptyList)
  BY <1>2, <1>3 DEF RingIs, Alone, Around
<1> QED BY <1>1, <1>3, <1>4 DEF INIT_LIST_HEAD, Memory

-----------------------------------------------------------------------------
(* list_add_tail                                                           *)

\* An entry that is not on the list is appended to it, whatever its fields
\* hold, and nothing outside the ring changes.
LEMMA AddTailAppends ==
  ASSUME NEW S, NEW list \in Seq(S), NoDuplicates(list),
         NEW N, NEW V, N \subseteq V, NEW m \in Memory(N, V),
         NEW head \in N, head \notin Linked(list), Linked(list) \subseteq N,
         NEW x \in N, x \in S, x # head, x \notin Linked(list),
         RingIs(m, head, list)
  PROVE  /\ list_add_tail(m, x, head) \in Memory(N, V)
         /\ RingIs(list_add_tail(m, x, head), head, ListAddTail(list, x))
         /\ \A y \in N \ ({x, head} \cup Linked(list)) :
              /\ list_add_tail(m, x, head).next[y] = m.next[y]
              /\ list_add_tail(m, x, head).prev[y] = m.prev[y]
<1> DEFINE n == list_add_tail(m, x, head)
           t == ListAddTail(list, x)
           L == Len(list)
           a(i) == Around(head, list, i)
           last == m.prev[head]
<1>1. /\ L \in Nat /\ m.next \in [N -> V] /\ m.prev \in [N -> V]
  BY LenProperties DEF Memory
<1>2. /\ t \in Seq(S) /\ Len(t) = L + 1
      /\ \A i \in 1..L : t[i] = list[i]
      /\ t[L + 1] = x
  BY AppendProperties DEF ListAddTail
<1>3. /\ \A i, j \in 0..L : a(i) = a(j) => i = j
      /\ \A i \in 1..L : a(i) = list[i] /\ a(i) \in Linked(list)
      /\ a(0) = head /\ a(L + 1) = head
  BY AroundOnce
<1>4. \A i \in 0..L : m.next[a(i)] = a(i + 1) /\ m.prev[a(i + 1)] = a(i)
  BY DEF RingIs
<1>5. last = a(L) /\ last \in N /\ last # x
  <2>1. last = a(L)
    BY <1>1, <1>3, <1>4
  <2> QED BY <2>1, <1>1, <1>3
<1>6. /\ n.next = [m.next EXCEPT ![x] = head, ![last] = x]
      /\ n.prev = [m.prev EXCEPT ![head] = x, ![x] = last]
      /\ n = [next |-> n.next, prev |-> n.prev]
  BY DEF list_add_tail, AddBetween
<1>7. /\ n.next[x] = head /\ n.next[last] = x
      /\ n.prev[head] = x /\ n.prev[x] = last
      /\ \A y \in N \ {x, last} : n.next[y] = m.next[y]
      /\ \A y \in N \ {x, head} : n.prev[y] = m.prev[y]
  BY <1>1, <1>5, <1>6
<1>8. n \in Memory(N, V)
  BY <1>1, <1>5, <1>6 DEF Memory
<1> HIDE DEF n, t, last
<1>9. /\ \A i \in 0..L : Around(head, t, i) = a(i)
      /\ Around(head, t, L + 1) = x
      /\ Around(head, t, L + 2) = head
  BY <1>1, <1>2 DEF Around
<1>10. ASSUME NEW i \in 0..(L + 1)
       PROVE  /\ n.next[Around(head, t, i)] = Around(head, t, i + 1)
              /\ n.prev[Around(head, t, i + 1)] = Around(head, t, i)
  <2>1. CASE i < L
    <3>1. i \in 0..L /\ i + 1 \in 1..L /\ i + 1 \in 0..L
      BY <1>1, <2>1
    <3>2. /\ a(i) \in N /\ a(i) # x /\ a(i) # last
      BY <1>1, <1>3, <1>5, <2>1, <3>1
    <3>3. a(i + 1) \in N /\ a(i + 1) # x /\ a(i + 1) # head
      BY <1>3, <3>1
    <3>4. n.next[a(i)] = a(i + 1) /\ n.prev[a(i + 1)] = a(i)
      BY <1>4, <1>7, <3>1, <3>2, <3>3
    <3> QED BY <1>9, <3>1, <3>4
  <2>2. CASE i = L
    BY <1>1, <1>5, <1>7, <1>9, <2>2
  <2>3. CASE i = L + 1
    BY <1>1, <1>7, <1>9, <2>3
  <2> QED BY <1>1, <2>1, <2>2, <2>3
<1>11. RingIs(n, head, t)
  BY <1>2, <1>10 DEF RingIs
<1>12. last \in {head} \cup Linked(list)
  BY <1>1, <1>3, <1>5
<1> QED BY <1>7, <1>8, <1>11, <1>12 DEF n, t

-----------------------------------------------------------------------------
(* Removing from a list, as ListOps.tla has it                             *)

\* A list is unchanged by the removal of what is not on it.
LEMMA DelInitAbsent ==
  ASSUME NEW list, NEW x, x \notin Linked(list)
  PROVE  ListDelInit(list, x) = list
BY DEF ListDelInit, Linked

\* The removal of its first entry leaves the tail.
LEMMA DelInitFirst ==
  ASSUME NEW S, NEW list \in Seq(S), NoDuplicates(list), list # EmptyList
  PROVE  ListDelInit(list, Head(list)) = Tail(list)
<1> DEFINE t == Tail(list)
           r == RemoveAt(list, 1)
<1>1. DOMAIN list = 1..Len(list) /\ Len(list) \in Nat \ {0}
  BY LenProperties, EmptySeq DEF EmptyList
<1>2. /\ t \in Seq(S) /\ Len(t) = Len(list) - 1
      /\ \A i \in 1..Len(t) : t[i] = list[i + 1]
  BY HeadTailProperties DEF EmptyList
<1>3. 1 \in 1..Len(list) /\ Head(list) = list[1]
  BY <1>1
<1>4. /\ r \in Seq(S) /\ Len(r) = Len(list) - 1
      /\ \A j \in 1..(Len(list) - 1) : r[j] = IF j < 1 THEN list[j] ELSE list[j + 1]
  BY <1>3, RemoveAtProperties
<1>5. ListDelInit(list, Head(list)) = r
  <2>1. \A i \in DOMAIN list : list[i] = Head(list) => i = 1
    BY <1>1, <1>3 DEF NoDuplicates, IsInjective
  <2>2. (CHOOSE i \in DOMAIN list : list[i] = Head(list)) = 1
    BY <1>1, <1>3, <2>1
  <2>3. Head(list) \in Range(list)
    BY <1>1, <1>3 DEF Range
  <2> QED BY <2>2, <2>3 DEF ListDelInit
<1> HIDE DEF r, t
<1>6. \A i \in 1..Len(t) : t[i] = r[i]
  <2>1. ASSUME NEW i \in 1..Len(t) PROVE t[i] = r[i]
    <3>1. i \in 1..(Len(list) - 1) /\ ~(i < 1)
      BY <1>1, <1>2
    <3> QED BY <3>1, <1>2, <1>4
  <2> QED BY <2>1
<1>7. t = r
  BY <1>2, <1>4, <1>6, SeqEqual
<1> QED BY <1>5, <1>7 DEF t

-----------------------------------------------------------------------------
(* list_del and list_del_init                                              *)

\* Going around a list an entry was removed from, the step over the entry
\* is left out.
LEMMA AroundRemoved ==
  ASSUME NEW S, NEW list \in Seq(S), NoDuplicates(list), NEW head, head \notin Linked(list),
         NEW k \in 1..Len(list), NEW i \in 0..Len(list)
  PROVE  Around(head, ListDelInit(list, list[k]), i) =
           IF i < k THEN Around(head, list, i) ELSE Around(head, list, i + 1)
<1> DEFINE L == Len(list)
           a(j) == Around(head, list, j)
           t == RemoveAt(list, k)
<1>1. L \in Nat /\ DOMAIN list = 1..L
  BY LenProperties
<1>2. ListDelInit(list, list[k]) = t
  <2>1. \A j \in DOMAIN list : list[j] = list[k] => j = k
    BY <1>1 DEF NoDuplicates, IsInjective
  <2>2. (CHOOSE j \in DOMAIN list : list[j] = list[k]) = k
    BY <1>1, <2>1
  <2>3. list[k] \in Range(list)
    BY <1>1 DEF Range
  <2> QED BY <2>2, <2>3 DEF ListDelInit
<1>3. /\ t \in Seq(S) /\ Len(t) = L - 1
      /\ \A j \in 1..(L - 1) : t[j] = IF j < k THEN list[j] ELSE list[j + 1]
  BY RemoveAtProperties
<1>4. /\ \A j \in 1..L : a(j) = list[j]
      /\ a(0) = head /\ a(L + 1) = head
  BY AroundOnce
<1> HIDE DEF t
<1>5. CASE i = 0
  <2>1. i < k
    BY <1>1, <1>5
  <2>2. Around(head, t, i) = head
    BY <1>3, <1>5 DEF Around
  <2> QED BY <1>2, <1>4, <1>5, <2>1, <2>2
<1>6. CASE i \in 1..(L - 1)
  <2>1. Around(head, t, i) = IF i < k THEN list[i] ELSE list[i + 1]
    BY <1>1, <1>3, <1>6 DEF Around
  <2>2. i \in 1..L /\ i + 1 \in 1..L
    BY <1>1, <1>6
  <2> QED BY <1>2, <1>4, <2>1, <2>2
<1>7. CASE i = L /\ i # 0
  <2>1. Around(head, t, i) = head
    BY <1>1, <1>3, <1>7 DEF Around
  <2>2. ~(i < k)
    BY <1>1, <1>7
  <2> QED BY <1>2, <1>4, <1>7, <2>1, <2>2
<1>8. i = 0 \/ i \in 1..(L - 1) \/ (i = L /\ i # 0)
  <2>1. L \in Nat
    BY <1>1
  <2>2. i \in Int /\ 0 <= i /\ i <= L
    BY <2>1
  <2> HIDE DEF L
  <2> QED BY <2>1, <2>2
<1> QED BY <1>5, <1>6, <1>7, <1>8

\* Unlinking takes the entry out of the ring, whatever its own fields hold
\* afterwards, and nothing outside the ring changes.
LEMMA UnlinkRemoves ==
  ASSUME NEW S, NEW list \in Seq(S), NoDuplicates(list),
         NEW N, NEW V, N \subseteq V, NEW m \in Memory(N, V),
         NEW head \in N, head \notin Linked(list), Linked(list) \subseteq N,
         NEW x \in Linked(list), RingIs(m, head, list),
         NEW n, n.next \in [N -> V], n.prev \in [N -> V],
         \A y \in N \ {x} : /\ n.next[y] = Unlink(m, x).next[y]
                            /\ n.prev[y] = Unlink(m, x).prev[y]
  PROVE  /\ RingIs(n, head, ListDelInit(list, x))
         /\ \A y \in N \ ({head} \cup Linked(list)) :
              n.next[y] = m.next[y] /\ n.prev[y] = m.prev[y]
<1> DEFINE L == Len(list)
           a(i) == Around(head, list, i)
<1>1. /\ L \in Nat /\ m.next \in [N -> V] /\ m.prev \in [N -> V] /\ DOMAIN list = 1..L
  BY LenProperties DEF Memory
<1>2. PICK k \in 1..L : ListDelInit(list, x) = RemoveAt(list, k) /\ list[k] = x
  <2>1. \E k \in 1..L : list[k] = x
    BY <1>1 DEF Linked, Range
  <2> QED BY <1>1, <2>1 DEF ListDelInit, Linked
<1> DEFINE t == RemoveAt(list, k)
<1>3. /\ t \in Seq(S) /\ Len(t) = L - 1
      /\ \A j \in 1..(L - 1) : t[j] = IF j < k THEN list[j] ELSE list[j + 1]
  BY RemoveAtProperties
<1>4. /\ \A i, j \in 0..L : a(i) = a(j) => i = j
      /\ \A i, j \in 1..(L + 1) : a(i) = a(j) => i = j
      /\ \A i \in 1..L : a(i) = list[i] /\ a(i) \in Linked(list)
      /\ a(0) = head /\ a(L + 1) = head
  BY AroundOnce
<1>5. \A i \in 0..L : m.next[a(i)] = a(i + 1) /\ m.prev[a(i + 1)] = a(i)
  BY DEF RingIs
<1>6. \A i \in 0..(L + 1) : a(i) \in N /\ a(i) \in {head} \cup Linked(list)
  <2>1. \A i \in 0..(L + 1) : i = 0 \/ i = L + 1 \/ i \in 1..L
    BY <1>1
  <2> HIDE DEF a
  <2>2. \A i \in 0..(L + 1) : a(i) = head \/ a(i) \in Linked(list)
    BY <1>4, <2>1
  <2> QED BY <2>2
<1>7. a(k) = x /\ m.prev[x] = a(k - 1) /\ m.next[x] = a(k + 1)
  BY <1>1, <1>2, <1>4, <1>5
<1>8. /\ Unlink(m, x).next = [m.next EXCEPT ![a(k - 1)] = a(k + 1)]
      /\ Unlink(m, x).prev = [m.prev EXCEPT ![a(k + 1)] = a(k - 1)]
  BY <1>7 DEF Unlink, JoinNeighbours
<1>9. /\ a(k - 1) # x /\ a(k + 1) # x /\ a(k - 1) \in N /\ a(k + 1) \in N
  <2> HIDE DEF a
  <2>1. /\ k \in 0..L /\ k - 1 \in 0..L /\ k - 1 # k
        /\ k \in 1..(L + 1) /\ k + 1 \in 1..(L + 1) /\ k + 1 # k
    BY <1>1
  <2>2. a(k - 1) # a(k)
    BY <1>4, <2>1
  <2>3. a(k + 1) # a(k)
    BY <1>4, <2>1
  <2>4. k - 1 \in 0..(L + 1) /\ k + 1 \in 0..(L + 1)
    BY <1>1
  <2>5. a(k - 1) \in N /\ a(k + 1) \in N
    BY <1>6, <2>4
  <2> QED BY <1>7, <2>2, <2>3, <2>5
<1>10. /\ n.next[a(k - 1)] = a(k + 1) /\ n.prev[a(k + 1)] = a(k - 1)
       /\ \A y \in N \ {x, a(k - 1)} : n.next[y] = m.next[y]
       /\ \A y \in N \ {x, a(k + 1)} : n.prev[y] = m.prev[y]
  BY <1>1, <1>8, <1>9
<1> HIDE DEF t
<1>11. \A i \in 0..L : Around(head, t, i) = IF i < k THEN a(i) ELSE a(i + 1)
  BY <1>2, AroundRemoved DEF t
<1>12. ASSUME NEW i \in 0..(L - 1)
       PROVE  /\ n.next[Around(head, t, i)] = Around(head, t, i + 1)
              /\ n.prev[Around(head, t, i + 1)] = Around(head, t, i)
  <2>1. CASE i < k - 1
    <3>1. Around(head, t, i) = a(i) /\ Around(head, t, i + 1) = a(i + 1)
      BY <1>1, <1>11, <2>1
    <3>2. a(i) \in N \ {x, a(k - 1)} /\ a(i + 1) \in N \ {x, a(k + 1)}
      BY <1>1, <1>4, <1>6, <1>7, <2>1
    <3> QED BY <1>1, <1>5, <1>10, <3>1, <3>2
  <2>2. CASE i = k - 1
    BY <1>1, <1>10, <1>11, <2>2
  <2>3. CASE i >= k
    <3>1. Around(head, t, i) = a(i + 1) /\ Around(head, t, i + 1) = a(i + 2)
      BY <1>1, <1>11, <2>3
    <3>2. a(i + 1) \in N \ {x, a(k - 1)} /\ a(i + 2) \in N \ {x, a(k + 1)}
      BY <1>1, <1>4, <1>6, <1>7, <2>3
    <3>3. m.next[a(i + 1)] = a(i + 2) /\ m.prev[a(i + 2)] = a(i + 1)
      BY <1>1, <1>5
    <3> QED BY <1>10, <3>1, <3>2, <3>3
  <2>4. i \in Int /\ k \in Int
    BY <1>1
  <2>5. i < k - 1 \/ i = k - 1 \/ i >= k
    BY <2>4
  <2> QED BY <2>1, <2>2, <2>3, <2>5
<1>13. RingIs(n, head, t)
  BY <1>1, <1>3, <1>12 DEF RingIs
<1>14. a(k - 1) \in {head} \cup Linked(list) /\ a(k + 1) \in {head} \cup Linked(list)
  BY <1>1, <1>6
<1> QED BY <1>2, <1>10, <1>13, <1>14 DEF t

\* list_del_init leaves the entry pointing at itself.
LEMMA DelInitRemoves ==
  ASSUME NEW S, NEW list \in Seq(S), NoDuplicates(list),
         NEW N, NEW V, N \subseteq V, NEW m \in Memory(N, V),
         NEW head \in N, head \notin Linked(list), Linked(list) \subseteq N,
         NEW x \in Linked(list), RingIs(m, head, list)
  PROVE  /\ list_del_init(m, x) \in Memory(N, V)
         /\ RingIs(list_del_init(m, x), head, ListDelInit(list, x))
         /\ Alone(list_del_init(m, x), x)
         /\ \A y \in N \ ({head} \cup Linked(list)) :
              /\ list_del_init(m, x).next[y] = m.next[y]
              /\ list_del_init(m, x).prev[y] = m.prev[y]
<1> DEFINE u == Unlink(m, x)
           n == list_del_init(m, x)
<1>1. /\ u.next \in [N -> V] /\ u.prev \in [N -> V] /\ u \in Memory(N, V)
  <2>1. m.next \in [N -> V] /\ m.prev \in [N -> V]
    BY DEF Memory
  <2>2. m.prev[x] \in V /\ m.next[x] \in V
    BY <2>1
  <2> QED BY <2>1, <2>2 DEF Unlink, JoinNeighbours, Memory
<1>2. n = INIT_LIST_HEAD(u, x)
  BY DEF list_del_init
<1> HIDE DEF u, n
<1>3. /\ n \in Memory(N, V) /\ Alone(n, x)
      /\ \A y \in N \ {x} : n.next[y] = u.next[y] /\ n.prev[y] = u.prev[y]
  BY <1>1, <1>2, InitListHead
<1>4. n.next \in [N -> V] /\ n.prev \in [N -> V]
  BY <1>3 DEF Memory
<1> QED BY <1>3, <1>4, UnlinkRemoves DEF u, n

-----------------------------------------------------------------------------
(* list_splice_init                                                        *)

\* Spliced behind an empty head, the list is that head's, and its old head
\* is empty.
LEMMA SpliceMoves ==
  ASSUME NEW S, NEW list \in Seq(S), NoDuplicates(list),
         NEW N, NEW V, N \subseteq V, NEW m \in Memory(N, V),
         NEW old \in N, old \notin Linked(list), Linked(list) \subseteq N,
         NEW head \in N, head \notin Linked(list), head # old,
         RingIs(m, old, list), RingIs(m, head, EmptyList)
  PROVE  /\ list_splice_init(m, old, head) \in Memory(N, V)
         /\ RingIs(list_splice_init(m, old, head), head, list)
         /\ RingIs(list_splice_init(m, old, head), old, EmptyList)
         /\ \A y \in N \ ({old, head} \cup Linked(list)) :
              /\ list_splice_init(m, old, head).next[y] = m.next[y]
              /\ list_splice_init(m, old, head).prev[y] = m.prev[y]
<1> DEFINE L == Len(list)
           a(i) == Around(old, list, i)
<1>1. /\ L \in Nat /\ m.next \in [N -> V] /\ m.prev \in [N -> V] /\ Len(EmptyList) = 0
  BY LenProperties DEF Memory, EmptyList
<1>2. /\ \A i, j \in 0..L : a(i) = a(j) => i = j
      /\ \A i, j \in 1..(L + 1) : a(i) = a(j) => i = j
      /\ \A i \in 1..L : a(i) = list[i] /\ a(i) \in Linked(list)
      /\ a(0) = old /\ a(L + 1) = old
  BY AroundOnce
<1>3. \A i \in 0..L : m.next[a(i)] = a(i + 1) /\ m.prev[a(i + 1)] = a(i)
  BY DEF RingIs
<1>4. m.next[head] = head /\ m.prev[head] = head
  BY <1>1 DEF RingIs, Around
<1>5. CASE L = 0
  <2>1. list = EmptyList
    BY <1>5, EmptySeq DEF EmptyList
  <2>2. list_empty(m, old)
    BY <1>1, <1>2, <1>3, <1>5 DEF list_empty
  <2> QED BY <2>1, <2>2 DEF list_splice_init
<1>6. CASE L > 0
  <2> DEFINE s == SpliceBetween(m, old, head, head)
             n == list_splice_init(m, old, head)
  <2>1. m.next[old] = a(1) /\ m.prev[old] = a(L)
    BY <1>1, <1>2, <1>3
  <2>2. /\ a(1) \in Linked(list) /\ a(L) \in Linked(list)
        /\ a(1) \in N /\ a(L) \in N /\ a(1) # old /\ a(1) # head /\ a(L) # head /\ a(L) # old
    BY <1>1, <1>2, <1>6
  <2>3. n = INIT_LIST_HEAD(s, old)
    BY <1>4, <2>1, <2>2 DEF list_splice_init, list_empty
  <2>4. /\ s.next = [m.next EXCEPT ![head] = a(1), ![a(L)] = head]
        /\ s.prev = [m.prev EXCEPT ![a(1)] = head, ![head] = a(L)]
        /\ s \in Memory(N, V)
    BY <1>1, <2>1, <2>2 DEF SpliceBetween, Memory
  <2>5. /\ s.next[head] = a(1) /\ s.next[a(L)] = head
        /\ s.prev[a(1)] = head /\ s.prev[head] = a(L)
        /\ \A y \in N \ {head, a(L)} : s.next[y] = m.next[y]
        /\ \A y \in N \ {head, a(1)} : s.prev[y] = m.prev[y]
    BY <1>1, <2>2, <2>4
  <2> HIDE DEF s, n
  <2>6. /\ n \in Memory(N, V) /\ RingIs(n, old, EmptyList)
        /\ \A y \in N \ {old} : n.next[y] = s.next[y] /\ n.prev[y] = s.prev[y]
    <3>1. s \in Memory(N, V)
      BY <2>4
    <3> QED BY <2>3, <3>1, InitListHead
  <2>7. \A i \in 0..(L + 1) : Around(head, list, i) = IF i \in 1..L THEN a(i) ELSE head
    BY <1>2 DEF Around
  <2>8. ASSUME NEW i \in 0..L
        PROVE  /\ n.next[Around(head, list, i)] = Around(head, list, i + 1)
               /\ n.prev[Around(head, list, i + 1)] = Around(head, list, i)
    <3>1. CASE i = 0
      BY <1>1, <1>6, <2>2, <2>5, <2>6, <2>7, <3>1
    <3>2. CASE i = L /\ i # 0
      BY <1>1, <1>6, <2>2, <2>5, <2>6, <2>7, <3>2
    <3>3. CASE i # 0 /\ i # L
      <4>1. i \in 1..L /\ i + 1 \in 1..L
        BY <1>1, <3>3
      <4>2. Around(head, list, i) = a(i) /\ Around(head, list, i + 1) = a(i + 1)
        BY <1>1, <2>7, <4>1
      <4>3. /\ a(i) \in N \ {head, a(L), old}
            /\ a(i + 1) \in N \ {head, a(1), old}
        BY <1>1, <1>2, <3>3, <4>1
      <4> QED BY <1>3, <2>5, <2>6, <4>2, <4>3
    <3> QED BY <3>1, <3>2, <3>3
  <2>9. RingIs(n, head, list)
    BY <2>8 DEF RingIs
  <2> QED BY <2>2, <2>5, <2>6, <2>9 DEF n
<1> QED BY <1>1, <1>5, <1>6

-----------------------------------------------------------------------------
(* The operations of io_driver.c on lists that are consistent.             *)

\* io_driver_watch keeps the lists consistent and leaves run_list alone.
LEMMA WatchKeepsLists ==
  ASSUME NEW d \in DriverType, ListsConsistent(d),
         NEW w \in Watchers, NEW ev \in SUBSET Events
  PROVE  /\ Watch(d, w, ev) \in DriverType
         /\ ListsConsistent(Watch(d, w, ev))
         /\ Watch(d, w, ev).run_list = d.run_list
         /\ Watch(d, w, ev).event_listening =
              [d.event_listening EXCEPT ![w] = @ \cup ev]
<1> DEFINE old == d.event_listening[w]
           e == Watch(d, w, ev)
<1>1. /\ d.watchers \in Seq(Watchers) /\ d.run_list \in Seq(Watchers)
      /\ d.event_listening \in [Watchers -> SUBSET Events]
  BY DEF DriverType
<1>2. /\ e.run_list = d.run_list
      /\ e.event_listening = [d.event_listening EXCEPT ![w] = old \cup ev]
      /\ e.watchers = IF old = {} /\ ev # {} THEN ListAddTail(d.watchers, w) ELSE d.watchers
      /\ e = [watchers |-> e.watchers, run_list |-> e.run_list, event_listening |-> e.event_listening]
  BY DEF Watch, Listen
<1>3. /\ NoDuplicates(d.watchers) /\ NoDuplicates(d.run_list)
      /\ Linked(d.watchers) \cap Linked(d.run_list) = {}
      /\ \A v \in Watchers : d.event_listening[v] # {}
                               <=> v \in Linked(d.watchers) \cup Linked(d.run_list)
  BY DEF ListsConsistent, Registered
<1> HIDE DEF e
<1>4. \A v \in Watchers : e.event_listening[v] =
                            IF v = w THEN d.event_listening[v] \cup ev ELSE d.event_listening[v]
  BY <1>1, <1>2
<1>5. CASE old = {} /\ ev # {}
  <2>1. w \notin Linked(d.watchers) /\ w \notin Linked(d.run_list)
    BY <1>3, <1>5
  <2>2. /\ e.watchers \in Seq(Watchers) /\ NoDuplicates(e.watchers)
        /\ Linked(e.watchers) = Linked(d.watchers) \cup {w}
    BY <2>1, <1>1, <1>2, <1>3, <1>5, ListAddTailProperties
  <2>3. e \in DriverType
    BY <2>2, <1>1, <1>2 DEF DriverType
  <2>4. ListsConsistent(e)
    BY <2>1, <2>2, <1>2, <1>3, <1>4, <1>5 DEF ListsConsistent, Registered
  <2> QED BY <2>3, <2>4, <1>2 DEF e
<1>6. CASE ~(old = {} /\ ev # {})
  <2>1. e.watchers = d.watchers
    BY <1>2, <1>6
  <2>2. e \in DriverType
    BY <2>1, <1>1, <1>2 DEF DriverType
  <2>3. ListsConsistent(e)
    BY <2>1, <1>2, <1>3, <1>4, <1>6 DEF ListsConsistent, Registered
  <2> QED BY <2>2, <2>3, <1>2 DEF e
<1> QED BY <1>5, <1>6

\* io_driver_no_watch keeps the lists consistent; a watcher that loses its
\* last event is off both of them.
LEMMA NoWatchKeepsLists ==
  ASSUME NEW d \in DriverType, ListsConsistent(d),
         NEW w \in Watchers, NEW ev \in SUBSET Events
  PROVE  /\ NoWatch(d, w, ev) \in DriverType
         /\ ListsConsistent(NoWatch(d, w, ev))
         /\ NoWatch(d, w, ev).event_listening =
              [d.event_listening EXCEPT ![w] = @ \ ev]
         /\ Linked(NoWatch(d, w, ev).run_list) =
              Linked(d.run_list) \ (IF d.event_listening[w] \subseteq ev THEN {w} ELSE {})
         /\ d.run_list = EmptyList => NoWatch(d, w, ev).run_list = EmptyList
<1> DEFINE old == d.event_listening[w]
           unlink == old # {} /\ old \subseteq ev
           e == NoWatch(d, w, ev)
<1>1. /\ d.watchers \in Seq(Watchers) /\ d.run_list \in Seq(Watchers)
      /\ d.event_listening \in [Watchers -> SUBSET Events]
  BY DEF DriverType
<1>2. /\ e.event_listening = [d.event_listening EXCEPT ![w] = old \ ev]
      /\ e.watchers = IF unlink THEN ListDelInit(d.watchers, w) ELSE d.watchers
      /\ e.run_list = IF unlink THEN ListDelInit(d.run_list, w) ELSE d.run_list
      /\ e = [watchers |-> e.watchers, run_list |-> e.run_list, event_listening |-> e.event_listening]
  BY DEF NoWatch, Ignore
<1>3. /\ NoDuplicates(d.watchers) /\ NoDuplicates(d.run_list)
      /\ Linked(d.watchers) \cap Linked(d.run_list) = {}
      /\ \A v \in Watchers : d.event_listening[v] # {}
                               <=> v \in Linked(d.watchers) \cup Linked(d.run_list)
  BY DEF ListsConsistent, Registered
<1> HIDE DEF e
<1>4. \A v \in Watchers : e.event_listening[v] =
                            IF v = w THEN d.event_listening[v] \ ev ELSE d.event_listening[v]
  BY <1>1, <1>2
<1>5. CASE unlink
  <2>1. /\ e.watchers \in Seq(Watchers) /\ NoDuplicates(e.watchers)
        /\ Linked(e.watchers) = Linked(d.watchers) \ {w}
    BY <1>1, <1>2, <1>3, <1>5, ListDelInitProperties
  <2>2. /\ e.run_list \in Seq(Watchers) /\ NoDuplicates(e.run_list)
        /\ Linked(e.run_list) = Linked(d.run_list) \ {w}
    BY <1>1, <1>2, <1>3, <1>5, ListDelInitProperties
  <2>3. e \in DriverType
    BY <2>1, <2>2, <1>1, <1>2 DEF DriverType
  <2>4. e.event_listening[w] = {}
    BY <1>4, <1>5
  <2>5. ListsConsistent(e)
    BY <2>1, <2>2, <2>4, <1>3, <1>4 DEF ListsConsistent, Registered
  <2>6. d.run_list = EmptyList => e.run_list = EmptyList
    BY <2>2, LinkedSubset, EmptyListProperties
  <2> QED BY <2>2, <2>3, <2>5, <2>6, <1>2, <1>5 DEF e
<1>6. CASE ~unlink
  <2>1. e.watchers = d.watchers /\ e.run_list = d.run_list
    BY <1>2, <1>6
  <2>2. e \in DriverType
    BY <2>1, <1>1, <1>2 DEF DriverType
  <2>3. old \subseteq ev => w \notin Linked(d.run_list)
    BY <1>3, <1>6
  <2>4. e.event_listening[w] # {} <=> d.event_listening[w] # {}
    BY <1>4, <1>6
  <2>5. ListsConsistent(e)
    BY <2>1, <2>4, <1>3, <1>4 DEF ListsConsistent, Registered
  <2> QED BY <2>1, <2>2, <2>3, <2>5, <1>2 DEF e
<1> QED BY <1>5, <1>6

\* list_splice_init at the head of io_driver_postselect.
LEMMA SpliceKeepsLists ==
  ASSUME NEW d \in DriverType, ListsConsistent(d), d.run_list = EmptyList
  PROVE  /\ Splice(d) \in DriverType
         /\ ListsConsistent(Splice(d))
         /\ Splice(d).run_list = d.watchers
         /\ Splice(d).event_listening = d.event_listening
<1> DEFINE e == Splice(d)
<1>1. /\ e.run_list = d.watchers /\ e.watchers = EmptyList
      /\ e.event_listening = d.event_listening
      /\ e = [watchers |-> e.watchers, run_list |-> e.run_list, event_listening |-> e.event_listening]
  BY DEF Splice
<1>2. EmptyList \in Seq(Watchers) /\ NoDuplicates(EmptyList) /\ Linked(EmptyList) = {}
  BY EmptyListProperties
<1>3. e \in DriverType
  BY <1>1, <1>2 DEF DriverType
<1>4. ListsConsistent(e)
  BY <1>1, <1>2 DEF ListsConsistent, Registered
<1> QED BY <1>1, <1>3, <1>4

\* list_del_init and list_add_tail at the head of postselect's loop.
LEMMA RequeueKeepsLists ==
  ASSUME NEW d \in DriverType, ListsConsistent(d), d.run_list # EmptyList
  PROVE  /\ Requeue(d) \in DriverType
         /\ ListsConsistent(Requeue(d))
         /\ Head(d.run_list) \in Watchers
         /\ Head(d.run_list) \in Linked(d.run_list)
         /\ Linked(Requeue(d).run_list) = Linked(d.run_list) \ {Head(d.run_list)}
         /\ Requeue(d).event_listening = d.event_listening
<1> DEFINE e == Requeue(d)
           h == Head(d.run_list)
<1>1. /\ d.watchers \in Seq(Watchers) /\ d.run_list \in Seq(Watchers)
      /\ NoDuplicates(d.watchers) /\ NoDuplicates(d.run_list)
      /\ Linked(d.watchers) \cap Linked(d.run_list) = {}
  BY DEF DriverType, ListsConsistent
<1>2. /\ e.run_list = Tail(d.run_list) /\ e.watchers = ListAddTail(d.watchers, h)
      /\ e.event_listening = d.event_listening
      /\ e = [watchers |-> e.watchers, run_list |-> e.run_list, event_listening |-> e.event_listening]
  BY DEF Requeue
<1>3. /\ h \in Watchers /\ h \in Linked(d.run_list)
      /\ Tail(d.run_list) \in Seq(Watchers) /\ NoDuplicates(Tail(d.run_list))
      /\ Linked(Tail(d.run_list)) = Linked(d.run_list) \ {h}
  BY <1>1, HeadTailOfList
<1>4. h \notin Linked(d.watchers)
  BY <1>1, <1>3
<1>5. /\ e.watchers \in Seq(Watchers) /\ NoDuplicates(e.watchers)
      /\ Linked(e.watchers) = Linked(d.watchers) \cup {h}
  BY <1>1, <1>2, <1>3, <1>4, ListAddTailProperties
<1>6. e \in DriverType
  BY <1>2, <1>3, <1>5 DEF DriverType
<1>7. ListsConsistent(e)
  BY <1>1, <1>2, <1>3, <1>5 DEF ListsConsistent, Registered
<1> QED BY <1>2, <1>3, <1>6, <1>7
-----------------------------------------------------------------------------
(* The calls a callback makes on one watcher, one or several.               *)

\* d1 is d with n listening to evs: the lists are sound, and no object
\* joined the round.
Rewatched(d, d1, n, evs) ==
  /\ d1 \in DriverType /\ ListsConsistent(d1)
  /\ d1.event_listening = [d.event_listening EXCEPT ![n] = evs]
  /\ Linked(d1.run_list) \subseteq Linked(d.run_list)
  /\ d.run_list = EmptyList => d1.run_list = EmptyList

\* io_driver_watch
LEMMA WatchRewatches ==
  ASSUME NEW d \in DriverType, ListsConsistent(d),
         NEW n \in Watchers, NEW ev \in SUBSET Events
  PROVE  Rewatched(d, Watch(d, n, ev), n, d.event_listening[n] \cup ev)
<1>1. /\ Watch(d, n, ev) \in DriverType
      /\ ListsConsistent(Watch(d, n, ev))
      /\ Watch(d, n, ev).run_list = d.run_list
      /\ Watch(d, n, ev).event_listening = [d.event_listening EXCEPT ![n] = @ \cup ev]
  BY WatchKeepsLists
<1> QED BY <1>1 DEF Rewatched

\* io_driver_no_watch
LEMMA NoWatchRewatches ==
  ASSUME NEW d \in DriverType, ListsConsistent(d),
         NEW n \in Watchers, NEW ev \in SUBSET Events
  PROVE  Rewatched(d, NoWatch(d, n, ev), n, d.event_listening[n] \ ev)
<1>1. /\ NoWatch(d, n, ev) \in DriverType
      /\ ListsConsistent(NoWatch(d, n, ev))
      /\ NoWatch(d, n, ev).event_listening = [d.event_listening EXCEPT ![n] = @ \ ev]
      /\ Linked(NoWatch(d, n, ev).run_list) =
           Linked(d.run_list) \ (IF d.event_listening[n] \subseteq ev THEN {n} ELSE {})
      /\ d.run_list = EmptyList => NoWatch(d, n, ev).run_list = EmptyList
  BY NoWatchKeepsLists
<1> QED BY <1>1 DEF Rewatched

\* No call at all
LEMMA SameRewatches ==
  ASSUME NEW d \in DriverType, ListsConsistent(d), NEW n \in Watchers
  PROVE  Rewatched(d, d, n, d.event_listening[n])
BY DEF Rewatched, DriverType

\* io_driver_no_watch for TX and then io_driver_watch, as at the end of a
\* connect and in a handshake
LEMMA SwitchRewatches ==
  ASSUME NEW d \in DriverType, ListsConsistent(d),
         NEW n \in Watchers, NEW ev \in SUBSET Events, NEW ev2 \in SUBSET Events
  PROVE  Rewatched(d, Watch(NoWatch(d, n, ev), n, ev2), n, (d.event_listening[n] \ ev) \cup ev2)
<1> DEFINE c == NoWatch(d, n, ev)
<1>1. Rewatched(d, c, n, d.event_listening[n] \ ev)
  BY NoWatchRewatches
<1>2. c \in DriverType /\ ListsConsistent(c) /\ c.event_listening[n] = d.event_listening[n] \ ev
  BY <1>1 DEF Rewatched, DriverType
<1> HIDE DEF c
<1>3. Rewatched(c, Watch(c, n, ev2), n, c.event_listening[n] \cup ev2)
  BY <1>2, WatchRewatches
<1> QED BY <1>1, <1>2, <1>3 DEF Rewatched, DriverType, c
=============================================================================
