--------------------------- MODULE SequenceLemmas ---------------------------
(***************************************************************************)
(* What the list operations of the service layer do to a list without      *)
(* repetitions: append, pop(0), and remove of a value.                     *)
(***************************************************************************)
EXTENDS SequencesExt, Integers, SequenceTheorems, TLAPS

\* A list yields b before c.
Precedes(seq, b, c) ==
  \E i, j \in DOMAIN seq : i < j /\ seq[i] = b /\ seq[j] = c

\* A list without its k-th element.
Cut(s, k) == SubSeq(s, 1, k-1) \o SubSeq(s, k+1, Len(s))

\* In a list without repetitions, remove(e) cuts out the one place e has.
LEMMA RemoveFirstIsCut ==
  ASSUME NEW S, NEW s \in Seq(S), IsInjective(s), NEW k \in 1..Len(s)
  PROVE  RemoveFirst(s, s[k]) = Cut(s, k)
<1> DEFINE I == {i \in 1..Len(s) : s[i] = s[k]}
<1>1. I = {k}
  BY DEF IsInjective
<1>2. Min(I) = k
  BY <1>1 DEF Min
<1>3. SelectInSeq(s, LAMBDA v : v = s[k]) = k
  BY <1>1, <1>2 DEF SelectInSeq
<1> QED
  BY <1>3 DEF RemoveFirst, RemoveAt, Cut

\* Cut, place by place.
LEMMA CutProperties ==
  ASSUME NEW S, NEW s \in Seq(S), NEW k \in 1..Len(s)
  PROVE  /\ Cut(s, k) \in Seq(S)
         /\ Len(Cut(s, k)) = Len(s) - 1
         /\ \A i \in 1..Len(Cut(s, k)) :
              Cut(s, k)[i] = IF i < k THEN s[i] ELSE s[i+1]
<1> DEFINE r == Cut(s, k)
<1> DEFINE left == SubSeq(s, 1, k-1)
           right == SubSeq(s, k+1, Len(s))
<1>1. /\ left \in Seq(S)
      /\ Len(left) = k - 1
      /\ \A i \in 1..k-1 : left[i] = s[i]
  <2>1. \A i \in 1..k-1 : s[i] \in S
    OBVIOUS
  <2>2. /\ left \in Seq(S)
        /\ Len(left) = IF 1 <= k-1 THEN k-1-1+1 ELSE 0
        /\ \A i \in 1..k-1-1+1 : left[i] = s[1+i-1]
    BY <2>1, SubSeqProperties
  <2> QED
    BY <2>2
<1>2. /\ right \in Seq(S)
      /\ Len(right) = Len(s) - k
      /\ \A i \in 1..Len(s)-k : right[i] = s[k+i]
  <2>1. \A i \in k+1..Len(s) : s[i] \in S
    OBVIOUS
  <2>2. /\ right \in Seq(S)
        /\ Len(right) = IF k+1 <= Len(s) THEN Len(s)-(k+1)+1 ELSE 0
        /\ \A i \in 1..Len(s)-(k+1)+1 : right[i] = s[(k+1)+i-1]
    BY <2>1, SubSeqProperties
  <2> QED
    BY <2>2
<1> HIDE DEF left, right
<1>3. /\ left \o right \in Seq(S)
      /\ Len(left \o right) = Len(left) + Len(right)
      /\ \A i \in 1..Len(left) + Len(right) :
           (left \o right)[i] = IF i <= Len(left) THEN left[i] ELSE right[i - Len(left)]
  BY <1>1, <1>2, ConcatProperties
<1>4. r = left \o right
  BY DEF left, right, Cut
<1> HIDE DEF r
<1>5. r \in Seq(S) /\ Len(r) = Len(s) - 1
  BY <1>1, <1>2, <1>3, <1>4
<1>6. ASSUME NEW i \in 1..Len(r)
      PROVE  r[i] = IF i < k THEN s[i] ELSE s[i+1]
  <2>1. r[i] = IF i <= k - 1 THEN left[i] ELSE right[i - (k - 1)]
    BY <1>1, <1>2, <1>3, <1>4, <1>5
  <2>2. CASE i < k
    BY <1>1, <2>1, <2>2
  <2>3. CASE ~(i < k)
    <3>1. i - (k - 1) \in 1..Len(s)-k
      BY <1>5, <2>3
    <3>2. k + (i - (k - 1)) = i + 1
      OBVIOUS
    <3> QED
      BY <1>2, <2>1, <2>3, <3>1, <3>2
  <2> QED
    BY <2>2, <2>3
<1> QED
  BY <1>5, <1>6 DEF r

\* remove(e), or its being skipped when e is not in the list, takes e out, and
\* leaves the rest without repetitions and in order.
LEMMA RemoveFirstProperties ==
  ASSUME NEW S, NEW s \in Seq(S), IsInjective(s), NEW e
  PROVE  /\ RemoveFirst(s, e) \in Seq(S)
         /\ IsInjective(RemoveFirst(s, e))
         /\ ToSet(RemoveFirst(s, e)) = ToSet(s) \ {e}
         /\ \A b, c : b # e /\ c # e /\ Precedes(s, b, c)
                        => Precedes(RemoveFirst(s, e), b, c)
<1> DEFINE r == RemoveFirst(s, e)
<1>1. CASE \E k \in 1..Len(s) : s[k] = e
  <2>1. PICK k \in 1..Len(s) : s[k] = e
    BY <1>1
  <2>2. r = Cut(s, k)
    BY <2>1, RemoveFirstIsCut
  <2> HIDE DEF r
  <2>3. /\ r \in Seq(S)
        /\ Len(r) = Len(s) - 1
        /\ \A i \in 1..Len(r) : r[i] = IF i < k THEN s[i] ELSE s[i+1]
    BY <2>2, CutProperties
  <2>4. IsInjective(r)
    <3> SUFFICES ASSUME NEW i \in 1..Len(r), NEW j \in 1..Len(r), r[i] = r[j]
                 PROVE  i = j
      BY <2>3 DEF IsInjective
    <3> DEFINE i1 == IF i < k THEN i ELSE i + 1
               j1 == IF j < k THEN j ELSE j + 1
    <3>1. i1 \in 1..Len(s) /\ s[i1] = r[i]
      BY <2>3
    <3>2. j1 \in 1..Len(s) /\ s[j1] = r[j]
      BY <2>3
    <3>3. i1 = j1
      BY <3>1, <3>2 DEF IsInjective
    <3> QED
      BY <3>3
  <2>5. ASSUME NEW i \in 1..Len(s), i # k
        PROVE  LET j == IF i < k THEN i ELSE i - 1
               IN  j \in 1..Len(r) /\ r[j] = s[i]
    BY <2>3, <2>5
  <2>6. ToSet(r) = ToSet(s) \ {e}
    <3>1. ASSUME NEW x \in ToSet(r) PROVE x \in ToSet(s) \ {e}
      <4>1. PICK i \in 1..Len(r) : r[i] = x
        BY <2>3 DEF ToSet
      <4> DEFINE i1 == IF i < k THEN i ELSE i + 1
      <4>2. i1 \in 1..Len(s) /\ i1 # k /\ s[i1] = x
        BY <2>3, <4>1
      <4>3. s[i1] # s[k]
        BY <4>2 DEF IsInjective
      <4> HIDE DEF i1
      <4> QED
        BY <2>1, <4>2, <4>3 DEF ToSet
    <3>2. ASSUME NEW x \in ToSet(s) \ {e} PROVE x \in ToSet(r)
      <4>1. PICK i \in 1..Len(s) : s[i] = x
        BY DEF ToSet
      <4>2. i # k
        BY <2>1, <4>1
      <4>3. PICK j \in 1..Len(r) : r[j] = s[i]
        BY <2>5, <4>2
      <4> QED
        BY <2>3, <4>1, <4>3 DEF ToSet
    <3> QED
      BY <3>1, <3>2
  <2>7. ASSUME NEW b, NEW c, b # e, c # e, Precedes(s, b, c)
        PROVE  Precedes(r, b, c)
    <3>1. PICK i, j \in 1..Len(s) : i < j /\ s[i] = b /\ s[j] = c
      BY <2>7 DEF Precedes
    <3> DEFINE i1 == IF i < k THEN i ELSE i - 1
               j1 == IF j < k THEN j ELSE j - 1
    <3>2. i # k /\ j # k
      BY <2>1, <2>7, <3>1
    <3>3. /\ i1 \in 1..Len(r) /\ r[i1] = b
          /\ j1 \in 1..Len(r) /\ r[j1] = c
      BY <2>5, <3>1, <3>2
    <3>4. i1 < j1
      BY <3>1, <3>2
    <3> QED
      BY <2>3, <3>3, <3>4 DEF Precedes
  <2> QED
    BY <2>3, <2>4, <2>6, <2>7 DEF r
<1>2. CASE ~\E k \in 1..Len(s) : s[k] = e
  <2>1. r = s
    BY <1>2 DEF RemoveFirst
  <2>2. e \notin ToSet(s)
    BY <1>2 DEF ToSet
  <2> QED
    BY <2>1, <2>2
<1> QED
  BY <1>1, <1>2

\* append(e) of a new value keeps the list without repetitions and in order, and
\* puts the value behind every other.
LEMMA AppendNewProperties ==
  ASSUME NEW S, NEW s \in Seq(S), IsInjective(s), NEW e \in S, e \notin ToSet(s)
  PROVE  /\ Append(s, e) \in Seq(S)
         /\ IsInjective(Append(s, e))
         /\ ToSet(Append(s, e)) = ToSet(s) \cup {e}
         /\ \A b, c : Precedes(s, b, c) => Precedes(Append(s, e), b, c)
         /\ \A b \in ToSet(s) : Precedes(Append(s, e), b, e)
<1> DEFINE r == Append(s, e)
<1>1. /\ r \in Seq(S)
      /\ Len(r) = Len(s) + 1
      /\ \A i \in 1..Len(s) : r[i] = s[i]
      /\ r[Len(s) + 1] = e
  BY AppendProperties
<1> HIDE DEF r
<1>2. IsInjective(r)
  BY <1>1 DEF IsInjective, ToSet
<1>3. ToSet(r) = ToSet(s) \cup {e}
  <2>1. ASSUME NEW x \in ToSet(r) PROVE x \in ToSet(s) \cup {e}
    BY <1>1 DEF ToSet
  <2>2. ASSUME NEW x \in ToSet(s) \cup {e} PROVE x \in ToSet(r)
    <3>1. CASE x = e
      BY <1>1, <3>1 DEF ToSet
    <3>2. CASE x \in ToSet(s)
      BY <1>1, <3>2 DEF ToSet
    <3> QED
      BY <3>1, <3>2
  <2> QED
    BY <2>1, <2>2
<1>4. ASSUME NEW b, NEW c, Precedes(s, b, c) PROVE Precedes(r, b, c)
  <2>1. PICK i, j \in 1..Len(s) : i < j /\ s[i] = b /\ s[j] = c
    BY <1>4 DEF Precedes
  <2> QED
    BY <1>1, <2>1 DEF Precedes
<1>5. ASSUME NEW b \in ToSet(s) PROVE Precedes(r, b, e)
  <2>1. PICK i \in 1..Len(s) : s[i] = b
    BY DEF ToSet
  <2> QED
    BY <1>1, <2>1 DEF Precedes
<1> QED
  BY <1>1, <1>2, <1>3, <1>4, <1>5 DEF r

\* pop(0) takes the front out, and leaves the rest in order.
LEMMA TailProperties ==
  ASSUME NEW S, NEW s \in Seq(S), IsInjective(s), s # << >>
  PROVE  /\ Head(s) \in S
         /\ Head(s) \in ToSet(s)
         /\ Tail(s) \in Seq(S)
         /\ IsInjective(Tail(s))
         /\ ToSet(Tail(s)) = ToSet(s) \ {Head(s)}
         /\ \A b, c : b # Head(s) /\ c # Head(s) /\ Precedes(s, b, c)
                        => Precedes(Tail(s), b, c)
<1> DEFINE r == Tail(s)
           h == Head(s)
<1>1. /\ h \in S
      /\ r \in Seq(S)
      /\ Len(r) = Len(s) - 1
      /\ \A i \in 1..Len(r) : r[i] = s[i+1]
  BY HeadTailProperties
<1>2. Len(s) > 0 /\ h = s[1]
  BY EmptySeq
<1> HIDE DEF r, h
<1>3. h \in ToSet(s)
  BY <1>2 DEF ToSet
<1>4. IsInjective(r)
  BY <1>1 DEF IsInjective
<1>5. ASSUME NEW i \in 1..Len(s), s[i] # h
      PROVE  i - 1 \in 1..Len(r) /\ r[i-1] = s[i]
  BY <1>1, <1>2, <1>5
<1>6. ToSet(r) = ToSet(s) \ {h}
  <2>1. ASSUME NEW x \in ToSet(r) PROVE x \in ToSet(s) \ {h}
    BY <1>1, <1>2, <2>1 DEF ToSet, IsInjective
  <2>2. ASSUME NEW x \in ToSet(s) \ {h} PROVE x \in ToSet(r)
    <3>1. PICK i \in 1..Len(s) : s[i] = x
      BY DEF ToSet
    <3> QED
      BY <1>1, <1>5, <3>1 DEF ToSet
  <2> QED
    BY <2>1, <2>2
<1>7. ASSUME NEW b, NEW c, b # h, c # h, Precedes(s, b, c)
      PROVE  Precedes(r, b, c)
  <2>1. PICK i, j \in 1..Len(s) : i < j /\ s[i] = b /\ s[j] = c
    BY <1>7 DEF Precedes
  <2>2. /\ i - 1 \in 1..Len(r) /\ r[i-1] = b
        /\ j - 1 \in 1..Len(r) /\ r[j-1] = c
    BY <1>5, <1>7, <2>1
  <2> QED
    BY <1>1, <2>1, <2>2 DEF Precedes
<1> QED
  BY <1>1, <1>3, <1>4, <1>6, <1>7 DEF r, h

\* pop(0) cuts out the first place.
LEMMA TailIsCut ==
  ASSUME NEW S, NEW s \in Seq(S), s # << >>
  PROVE  Tail(s) = Cut(s, 1)
<1>1. Len(s) > 0
  BY EmptySeq
<1>2. /\ Tail(s) \in Seq(S)
      /\ Len(Tail(s)) = Len(s) - 1
      /\ \A i \in 1..Len(Tail(s)) : Tail(s)[i] = s[i+1]
  BY HeadTailProperties
<1>3. /\ Cut(s, 1) \in Seq(S)
      /\ Len(Cut(s, 1)) = Len(s) - 1
      /\ \A i \in 1..Len(Cut(s, 1)) : Cut(s, 1)[i] = s[i+1]
  BY <1>1, CutProperties
<1> QED
  BY <1>2, <1>3, SeqEqual

\* Two lists without repetitions and with nothing in common make one.
LEMMA JoinProperties ==
  ASSUME NEW S, NEW s \in Seq(S), IsInjective(s), NEW u \in Seq(S), IsInjective(u),
         ToSet(s) \cap ToSet(u) = {}
  PROVE  /\ s \o u \in Seq(S)
         /\ IsInjective(s \o u)
         /\ ToSet(s \o u) = ToSet(s) \cup ToSet(u)
<1> DEFINE r == s \o u
           m == Len(s)
           n == Len(u)
<1>1. /\ r \in Seq(S)
      /\ Len(r) = m + n
      /\ \A i \in 1..m+n : r[i] = IF i <= m THEN s[i] ELSE u[i - m]
      /\ m \in Nat /\ n \in Nat
  BY ConcatProperties
<1> HIDE DEF r
<1>2. \A i \in 1..m : s[i] \in ToSet(s)
  BY DEF ToSet
<1>3. \A i \in 1..n : u[i] \in ToSet(u)
  BY DEF ToSet
<1>4. IsInjective(r)
  <2> SUFFICES ASSUME NEW i \in 1..m+n, NEW j \in 1..m+n, r[i] = r[j]
               PROVE  i = j
    BY <1>1 DEF IsInjective
  <2>1. CASE i <= m /\ j <= m
    BY <1>1, <2>1 DEF IsInjective
  <2>2. CASE ~(i <= m) /\ ~(j <= m)
    <3>1. i - m \in 1..n /\ j - m \in 1..n /\ u[i - m] = u[j - m]
      BY <1>1, <2>2
    <3>2. i - m = j - m
      BY <3>1 DEF IsInjective
    <3> QED
      BY <1>1, <3>2
  <2>3. CASE i <= m /\ ~(j <= m)
    <3>1. i \in 1..m /\ j - m \in 1..n /\ s[i] = u[j - m]
      BY <1>1, <2>3
    <3> QED
      BY <1>2, <1>3, <3>1
  <2>4. CASE ~(i <= m) /\ j <= m
    <3>1. j \in 1..m /\ i - m \in 1..n /\ s[j] = u[i - m]
      BY <1>1, <2>4
    <3> QED
      BY <1>2, <1>3, <3>1
  <2> QED
    BY <2>1, <2>2, <2>3, <2>4
<1>5. ToSet(r) = ToSet(s) \cup ToSet(u)
  <2>1. ASSUME NEW x \in ToSet(r) PROVE x \in ToSet(s) \cup ToSet(u)
    <3>1. PICK i \in 1..m+n : r[i] = x
      BY <1>1, <2>1 DEF ToSet
    <3>2. i <= m => i \in 1..m /\ s[i] = x
      BY <1>1, <3>1
    <3>3. ~(i <= m) => i - m \in 1..n /\ u[i - m] = x
      BY <1>1, <3>1
    <3> QED
      BY <1>2, <1>3, <3>2, <3>3
  <2>2. ASSUME NEW x \in ToSet(s) PROVE x \in ToSet(r)
    <3>1. PICK i \in 1..m : s[i] = x
      BY <2>2 DEF ToSet
    <3>2. i \in 1..m+n /\ r[i] = x
      BY <1>1, <3>1
    <3> QED
      BY <1>1, <3>2 DEF ToSet
  <2>3. ASSUME NEW x \in ToSet(u) PROVE x \in ToSet(r)
    <3>1. PICK i \in 1..n : u[i] = x
      BY <2>3 DEF ToSet
    <3>2. i + m \in 1..m+n /\ ~(i + m <= m) /\ (i + m) - m = i
      BY <1>1
    <3>3. r[i + m] = u[i]
      BY <1>1, <3>2
    <3>4. \A j \in DOMAIN r : r[j] \in ToSet(r)
      BY DEF ToSet
    <3>5. DOMAIN r = 1..m+n
      BY <1>1
    <3>6. r[i + m] \in ToSet(r)
      BY <3>2, <3>4, <3>5
    <3> QED
      BY <3>1, <3>3, <3>6
  <2> QED
    BY <2>1, <2>2, <2>3
<1> QED
  BY <1>1, <1>4, <1>5 DEF r
=============================================================================
