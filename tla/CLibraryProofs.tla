--------------------------- MODULE CLibraryProofs ---------------------------
(***************************************************************************)
(* Theorems of the C library.                                              *)
(*                                                                         *)
(* The copies are recursive functions of the number of bytes copied: that  *)
(* they exist and what they are after every byte is shown by the least     *)
(* number for which it is not so.  LibraryInv strengthens BlocksApart by   *)
(* what the requests and the copies rely on: how much of the heap is used, *)
(* and that the heap is a memory whatever is done to it.  Comparisons and  *)
(* numerals are followed from character to character in the same way, by   *)
(* the least place at which they would go wrong.                           *)
(***************************************************************************)
EXTENDS CLibrary, FiniteSetTheorems, SequenceTheorems, TLAPS

(* A nonempty set of numbers has a least one. *)
LEMMA Least ==
    ASSUME NEW S \in SUBSET Nat, S # {}
    PROVE  \E i \in S : \A j \in S : i <= j
<1>1. PICK k \in S : TRUE
  OBVIOUS
<1> DEFINE D == 0 .. k
           B == {U \in SUBSET D : \E i \in S : U = 0 .. i}
<1>2. B \subseteq SUBSET D /\ B # {}
  <2>1. D \in B
    OBVIOUS
  <2> QED
    BY <2>1
<1>3. PICK T \in B : \A U \in B : ~ (<<U, T>> \in StrictSubsetOrdering(D))
  <2>1. IsFiniteSet(D)
    BY FS_Interval
  <2> HIDE DEF B, D
  <2>2. IsWellFoundedOn(StrictSubsetOrdering(D), SUBSET D)
    BY <2>1, FS_StrictSubsetOrderingWellFounded, FS_FiniteSubsetsOfFinite
  <2> QED
    BY <1>2, <2>2, WFMin
<1>4. PICK i \in S : T = 0 .. i
  BY <1>3
<1>5. ASSUME NEW j \in S, j < i PROVE FALSE
  <2>1. 0 .. j \in B /\ 0 .. j \subseteq T
    BY <1>4, <1>5
  <2>2. i \in 0 .. i /\ i \notin 0 .. j
    BY <1>5
  <2>3. <<0 .. j, T>> \in StrictSubsetOrdering(D)
    BY <1>3, <1>4, <2>1, <2>2 DEF StrictSubsetOrdering
  <2> QED
    BY <1>3, <2>1, <2>3
<1> QED
  BY <1>5

-----------------------------------------------------------------------------
(* Memory. *)

(* After i bytes of a copy upwards, those bytes are written, and each has  *)
(* the value of its source unless that was written before.                 *)
CopiedUp(m, d, s, i, c) ==
    /\ c = [a \in DOMAIN m |-> c[a]]
    /\ \A a \in DOMAIN m : \E b \in DOMAIN m : c[a] = m[b]
    /\ \A a \in DOMAIN m : a \notin d .. (d + i - 1) => c[a] = m[a]
    /\ \A k \in 0 .. (i - 1) :
         d + k \in DOMAIN m /\ s + k \notin d .. (d + k - 1) => c[d + k] = m[s + k]

CopiedDown(m, d, s, n, i, c) ==
    /\ c = [a \in DOMAIN m |-> c[a]]
    /\ \A a \in DOMAIN m : \E b \in DOMAIN m : c[a] = m[b]
    /\ \A a \in DOMAIN m : a \notin (d + n - i) .. (d + n - 1) => c[a] = m[a]
    /\ \A k \in (n - i) .. (n - 1) :
         d + k \in DOMAIN m /\ s + k \notin (d + k + 1) .. (d + n - 1) => c[d + k] = m[s + k]

LEMMA OneByteUp ==
    ASSUME NEW m, DOMAIN m \subseteq Nat, NEW d \in Nat, NEW s \in Nat, NEW n \in Nat,
           NEW i \in 1 .. n, \A k \in 0 .. (n - 1) : s + k \in DOMAIN m,
           NEW c, CopiedUp(m, d, s, i - 1, c)
    PROVE  CopiedUp(m, d, s, i, Assigned(c, d + i - 1, s + i - 1))
<1> DEFINE new == [c EXCEPT ![d + i - 1] = c[s + i - 1]]
           e == d + i - 1
<1>1. e \in Nat /\ e = d + (i - 1) /\ s + i - 1 = s + (i - 1) /\ s + (i - 1) \in DOMAIN m
  OBVIOUS
<1>2. /\ c = [a \in DOMAIN m |-> c[a]]
      /\ \A a \in DOMAIN m : \E b \in DOMAIN m : c[a] = m[b]
      /\ \A a \in DOMAIN m : a \notin d .. (d + (i - 1) - 1) => c[a] = m[a]
      /\ \A k \in 0 .. (i - 1 - 1) :
         d + k \in DOMAIN m /\ s + k \notin d .. (d + k - 1) => c[d + k] = m[s + k]
  BY DEF CopiedUp
<1>3. new = [a \in DOMAIN m |-> new[a]]
  BY <1>2
<1>4. \A a \in DOMAIN m : new[a] = IF a = e THEN c[s + (i - 1)] ELSE c[a]
  BY <1>1, <1>2
<1> HIDE DEF new
<1>5. ASSUME NEW a \in DOMAIN m, a \notin d .. (d + i - 1) PROVE new[a] = m[a]
  <2>1. a # e /\ a \notin d .. (d + (i - 1) - 1)
    BY <1>5
  <2> QED
    BY <1>2, <1>4, <2>1
<1>6. ASSUME NEW k \in 0 .. (i - 1), d + k \in DOMAIN m, s + k \notin d .. (d + k - 1)
      PROVE  new[d + k] = m[s + k]
  <2>1. CASE k = i - 1
    <3>1. d + k = e /\ s + k = s + (i - 1) /\ s + k \in DOMAIN m
      BY <1>1, <2>1
    <3>2. s + k \notin d .. (d + (i - 1) - 1)
      BY <1>6, <2>1
    <3> QED
      BY <1>2, <1>4, <1>6, <3>1, <3>2
  <2>2. CASE k # i - 1
    <3>1. k \in 0 .. (i - 1 - 1) /\ d + k # e
      BY <2>2
    <3> QED
      BY <1>2, <1>4, <1>6, <3>1
  <2> QED
    BY <2>1, <2>2
<1>7. \A a \in DOMAIN m : \E b \in DOMAIN m : new[a] = m[b]
  BY <1>1, <1>2, <1>4
<1> QED
  BY <1>3, <1>5, <1>6, <1>7 DEF CopiedUp, new, Assigned

LEMMA OneByteDown ==
    ASSUME NEW m, DOMAIN m \subseteq Nat, NEW d \in Nat, NEW s \in Nat, NEW n \in Nat,
           NEW i \in 1 .. n, \A k \in 0 .. (n - 1) : s + k \in DOMAIN m,
           NEW c, CopiedDown(m, d, s, n, i - 1, c)
    PROVE  CopiedDown(m, d, s, n, i, Assigned(c, d + n - i, s + n - i))
<1> DEFINE new == [c EXCEPT ![d + n - i] = c[s + n - i]]
           j == n - i
           e == d + j
<1>1. /\ j \in 0 .. (n - 1) /\ e \in Nat /\ s + j \in DOMAIN m /\ n - (i - 1) = j + 1
      /\ d + n - i = e /\ s + n - i = s + j
  OBVIOUS
<1>2. /\ c = [a \in DOMAIN m |-> c[a]]
      /\ \A a \in DOMAIN m : \E b \in DOMAIN m : c[a] = m[b]
      /\ \A a \in DOMAIN m : a \notin (d + (n - (i - 1))) .. (d + n - 1) => c[a] = m[a]
      /\ \A k \in (n - (i - 1)) .. (n - 1) :
         d + k \in DOMAIN m /\ s + k \notin (d + k + 1) .. (d + n - 1) => c[d + k] = m[s + k]
  BY DEF CopiedDown
<1>3. new = [a \in DOMAIN m |-> new[a]]
  BY <1>2
<1>4. \A a \in DOMAIN m : new[a] = IF a = e THEN c[s + j] ELSE c[a]
  BY <1>1, <1>2
<1> HIDE DEF new
<1>5. ASSUME NEW a \in DOMAIN m, a \notin (d + j) .. (d + n - 1) PROVE new[a] = m[a]
  <2>1. a # e /\ a \notin (d + (n - (i - 1))) .. (d + n - 1)
    BY <1>1, <1>5
  <2> QED
    BY <1>2, <1>4, <2>1
<1>6. ASSUME NEW k \in j .. (n - 1), d + k \in DOMAIN m, s + k \notin (d + k + 1) .. (d + n - 1)
      PROVE  new[d + k] = m[s + k]
  <2>1. CASE k = j
    <3>1. d + k = e /\ s + k = s + j /\ s + k \in DOMAIN m
      BY <1>1, <2>1
    <3>2. s + k \notin (d + (n - (i - 1))) .. (d + n - 1)
      BY <1>1, <1>6, <2>1
    <3> QED
      BY <1>2, <1>4, <1>6, <3>1, <3>2
  <2>2. CASE k # j
    <3>1. k \in (n - (i - 1)) .. (n - 1) /\ d + k # e
      BY <1>1, <2>2
    <3> QED
      BY <1>2, <1>4, <1>6, <3>1
  <2> QED
    BY <2>1, <2>2
<1>7. \A a \in DOMAIN m : a \notin (d + n - i) .. (d + n - 1) => new[a] = m[a]
  BY <1>1, <1>5
<1>8. \A k \in (n - i) .. (n - 1) :
        d + k \in DOMAIN m /\ s + k \notin (d + k + 1) .. (d + n - 1) => new[d + k] = m[s + k]
  BY <1>1, <1>6
<1>9. \A a \in DOMAIN m : \E b \in DOMAIN m : new[a] = m[b]
  BY <1>1, <1>2, <1>4
<1> QED
  BY <1>3, <1>7, <1>8, <1>9 DEF CopiedDown, new, Assigned

(* A copy assigns n bytes one after the other, the i-th from from[i] to     *)
(* to[i].  The recursive function that says so exists.                      *)
Turns(m, to, from, n, f) ==
    [i \in 0 .. n |-> IF i = 0 THEN m ELSE Assigned(f[i - 1], to[i], from[i])]

LEMMA TurnsExist ==
    ASSUME NEW m, NEW to, NEW from, NEW n \in Nat
    PROVE  \E f : f = Turns(m, to, from, n, f)
<1> DEFINE S == {i \in Nat : ~ \E f : f = Turns(m, to, from, i, f)}
<1>1. ASSUME S # {} PROVE FALSE
  <2>1. PICK i \in S : \A j \in S : i <= j
    <3>1. S \in SUBSET Nat
      OBVIOUS
    <3> HIDE DEF S
    <3> QED
      BY <1>1, <3>1, Least
  <2>2. CASE i = 0
    <3> DEFINE f == [k \in 0 .. 0 |-> m]
    <3>1. f = Turns(m, to, from, 0, f)
      BY DEF Turns
    <3> QED
      BY <2>2, <3>1
  <2>3. CASE i # 0
    <3>1. i \in Nat /\ i - 1 \in Nat /\ ~(i <= i - 1)
      BY <2>3
    <3>2. PICK f : f = Turns(m, to, from, i - 1, f)
      BY <2>1, <3>1
    <3> DEFINE g == [k \in 0 .. i |-> IF k = i THEN Assigned(f[i - 1], to[i], from[i]) ELSE f[k]]
    <3>3. \A k \in 0 .. (i - 1) :
            f[k] = IF k = 0 THEN m ELSE Assigned(f[k - 1], to[k], from[k])
      BY <3>2 DEF Turns
    <3>4. ASSUME NEW k \in 0 .. i
          PROVE  g[k] = IF k = 0 THEN m ELSE Assigned(g[k - 1], to[k], from[k])
      <4>1. CASE k = i
        BY <3>1, <4>1
      <4>2. CASE k # i /\ k # 0
        <5>1. k \in 0 .. (i - 1) /\ k - 1 \in 0 .. i /\ k - 1 # i
          BY <3>1, <4>2
        <5> QED
          BY <3>3, <4>2, <5>1
      <4>3. CASE k # i /\ k = 0
        BY <3>1, <3>3, <4>3
      <4> QED
        BY <4>1, <4>2, <4>3
    <3>5. g = [k \in 0 .. i |-> g[k]]
      OBVIOUS
    <3> HIDE DEF g
    <3>6. g = Turns(m, to, from, i, g)
      BY <3>4, <3>5 DEF Turns
    <3> QED
      BY <3>6
  <2> QED
    BY <2>2, <2>3
<1> QED
  BY <1>1

LEMMA CopyUp ==
    ASSUME NEW m, DOMAIN m \subseteq Nat, NEW d \in Nat, NEW s \in Nat, NEW n \in Nat,
           \A k \in 0 .. (n - 1) : s + k \in DOMAIN m, m = [a \in DOMAIN m |-> m[a]]
    PROVE  CopiedUp(m, d, s, n, memcpy(m, d, s, n))
<1> DEFINE After(f) == [i \in 0 .. n |-> IF i = 0 THEN m
                           ELSE Assigned(f[i - 1], d + i - 1, s + i - 1)]
           copied == CHOOSE f : f = After(f)
<1>1. memcpy(m, d, s, n) = copied[n]
  BY DEF memcpy
<1>2. \E f : f = After(f)
  <2> DEFINE to == [i \in 1 .. n |-> d + i - 1]
             from == [i \in 1 .. n |-> s + i - 1]
  <2>1. PICK f : f = Turns(m, to, from, n, f)
    <3> HIDE DEF to, from
    <3> QED
      BY TurnsExist
  <2>2. \A i \in 0 .. n : i # 0 => to[i] = d + i - 1 /\ from[i] = s + i - 1
    OBVIOUS
  <2> HIDE DEF to, from
  <2>3. f = After(f)
    BY <2>1, <2>2 DEF Turns
  <2> QED
    BY <2>3
<1>3. copied = After(copied)
  <2> HIDE DEF After
  <2> QED
    BY <1>2
<1>4. /\ copied[0] = m
      /\ \A i \in 1 .. n :
           copied[i] = Assigned(copied[i - 1], d + i - 1, s + i - 1)
  <2>1. ASSUME NEW f, f = After(f)
        PROVE  /\ f[0] = m
               /\ \A i \in 1 .. n : f[i] = Assigned(f[i - 1], d + i - 1, s + i - 1)
    <3>1. \A i \in 0 .. n : f[i] = IF i = 0 THEN m
                           ELSE Assigned(f[i - 1], d + i - 1, s + i - 1)
      BY <2>1
    <3> HIDE DEF After
    <3> QED
      BY <3>1
  <2> HIDE DEF copied, After
  <2> QED
    BY <1>3, <2>1
<1> HIDE DEF copied, After
<1> DEFINE S == {i \in 0 .. n : ~CopiedUp(m, d, s, i, copied[i])}
<1>5. ASSUME S # {} PROVE FALSE
  <2>1. PICK i \in S : \A j \in S : i <= j
    <3>1. S \in SUBSET Nat
      OBVIOUS
    <3> HIDE DEF S
    <3> QED
      BY <1>5, <3>1, Least
  <2>2. CASE i = 0
    BY <1>4, <2>2 DEF CopiedUp
  <2>3. CASE i # 0
    <3>1. i \in 1 .. n /\ i - 1 \in 0 .. n /\ ~(i <= i - 1)
      BY <2>3
    <3>2. CopiedUp(m, d, s, i - 1, copied[i - 1])
      BY <2>1, <3>1
    <3> QED
      BY <1>4, <3>1, <3>2, OneByteUp
  <2> QED
    BY <2>2, <2>3
<1> QED
  BY <1>1, <1>5

LEMMA CopyingDown ==
    ASSUME NEW m, DOMAIN m \subseteq Nat, NEW d \in Nat, NEW s \in Nat, NEW n \in Nat,
           \A k \in 0 .. (n - 1) : s + k \in DOMAIN m, m = [a \in DOMAIN m |-> m[a]]
    PROVE  CopiedDown(m, d, s, n, n, CopyDown(m, d, s, n))
<1> DEFINE After(f) == [i \in 0 .. n |-> IF i = 0 THEN m
                           ELSE Assigned(f[i - 1], d + n - i, s + n - i)]
           copied == CHOOSE f : f = After(f)
<1>1. CopyDown(m, d, s, n) = copied[n]
  BY DEF CopyDown
<1>2. \E f : f = After(f)
  <2> DEFINE to == [i \in 1 .. n |-> d + n - i]
             from == [i \in 1 .. n |-> s + n - i]
  <2>1. PICK f : f = Turns(m, to, from, n, f)
    <3> HIDE DEF to, from
    <3> QED
      BY TurnsExist
  <2>2. \A i \in 0 .. n : i # 0 => to[i] = d + n - i /\ from[i] = s + n - i
    OBVIOUS
  <2> HIDE DEF to, from
  <2>3. f = After(f)
    BY <2>1, <2>2 DEF Turns
  <2> QED
    BY <2>3
<1>3. copied = After(copied)
  <2> HIDE DEF After
  <2> QED
    BY <1>2
<1>4. /\ copied[0] = m
      /\ \A i \in 1 .. n :
           copied[i] = Assigned(copied[i - 1], d + n - i, s + n - i)
  <2>1. ASSUME NEW f, f = After(f)
        PROVE  /\ f[0] = m
               /\ \A i \in 1 .. n : f[i] = Assigned(f[i - 1], d + n - i, s + n - i)
    <3>1. \A i \in 0 .. n : f[i] = IF i = 0 THEN m
                           ELSE Assigned(f[i - 1], d + n - i, s + n - i)
      BY <2>1
    <3> HIDE DEF After
    <3> QED
      BY <3>1
  <2> HIDE DEF copied, After
  <2> QED
    BY <1>3, <2>1
<1> HIDE DEF copied, After
<1> DEFINE S == {i \in 0 .. n : ~CopiedDown(m, d, s, n, i, copied[i])}
<1>5. ASSUME S # {} PROVE FALSE
  <2>1. PICK i \in S : \A j \in S : i <= j
    <3>1. S \in SUBSET Nat
      OBVIOUS
    <3> HIDE DEF S
    <3> QED
      BY <1>5, <3>1, Least
  <2>2. CASE i = 0
    <3>1. (n - 0) .. (n - 1) = {} /\ (d + n - 0) .. (d + n - 1) = {}
      OBVIOUS
    <3>2. CopiedDown(m, d, s, n, i, copied[i])
      BY <1>4, <2>2, <3>1 DEF CopiedDown
    <3> QED
      BY <2>1, <3>2
  <2>3. CASE i # 0
    <3>1. i \in 1 .. n /\ i - 1 \in 0 .. n /\ ~(i <= i - 1)
      BY <2>3
    <3>2. CopiedDown(m, d, s, n, i - 1, copied[i - 1])
      BY <2>1, <3>1
    <3>3. CopiedDown(m, d, s, n, i, Assigned(copied[i - 1], d + n - i, s + n - i))
      BY <3>1, <3>2, OneByteDown
    <3>4. copied[i] = Assigned(copied[i - 1], d + n - i, s + n - i)
      BY <1>4, <3>1
    <3> QED
      BY <2>1, <3>3, <3>4
  <2> QED
    BY <2>2, <2>3
<1> QED
  BY <1>1, <1>5

LEMMA SmallestOf ==
    ASSUME NEW S \in SUBSET Nat, S # {}
    PROVE  Min(S) \in S /\ \A i \in S : Min(S) <= i
<1>1. \E i \in S : \A j \in S : i <= j
  BY Least
<1> QED
  BY <1>1 DEF Min

(* A copy leaves everything else alone and is right unless a byte was      *)
(* written before it was read.                                             *)
LEMMA CopyIsRight ==
    ASSUME NEW m, DOMAIN m \subseteq Nat, NEW d \in Nat, NEW s \in Nat, NEW n \in Nat,
           \A k \in 0 .. (n - 1) : s + k \in DOMAIN m, m = [a \in DOMAIN m |-> m[a]],
           d + n <= s \/ s + n <= d \/ d <= s
    PROVE  memcpy(m, d, s, n) = Moved(m, d, s, n)
<1> DEFINE c == memcpy(m, d, s, n)
<1>1. CopiedUp(m, d, s, n, c)
  BY CopyUp
<1> HIDE DEF c
<1>2. ASSUME NEW a \in DOMAIN m
      PROVE  c[a] = IF a \in d .. (d + n - 1) THEN m[a - d + s] ELSE m[a]
  <2>1. CASE a \in d .. (d + n - 1)
    <3> DEFINE k == a - d
    <3>1. /\ k \in 0 .. (n - 1) /\ d + k = a /\ s + k = a - d + s
          /\ s + k \notin d .. (d + k - 1)
      BY <2>1
    <3> QED
      BY <1>1, <2>1, <3>1 DEF CopiedUp
  <2>2. CASE a \notin d .. (d + n - 1)
    BY <1>1, <2>2 DEF CopiedUp
  <2> QED
    BY <2>1, <2>2
<1>3. c = [a \in DOMAIN m |-> c[a]]
  BY <1>1 DEF CopiedUp
<1> QED
  BY <1>2, <1>3 DEF Moved, c

LEMMA CopyDownIsRight ==
    ASSUME NEW m, DOMAIN m \subseteq Nat, NEW d \in Nat, NEW s \in Nat, NEW n \in Nat,
           \A k \in 0 .. (n - 1) : s + k \in DOMAIN m, m = [a \in DOMAIN m |-> m[a]],
           d >= s
    PROVE  CopyDown(m, d, s, n) = Moved(m, d, s, n)
<1> DEFINE c == CopyDown(m, d, s, n)
<1>1. CopiedDown(m, d, s, n, n, c)
  BY CopyingDown
<1> HIDE DEF c
<1>2. ASSUME NEW a \in DOMAIN m
      PROVE  c[a] = IF a \in d .. (d + n - 1) THEN m[a - d + s] ELSE m[a]
  <2>1. CASE a \in d .. (d + n - 1)
    <3> DEFINE k == a - d
    <3>1. /\ k \in (n - n) .. (n - 1) /\ d + k = a /\ s + k = a - d + s
          /\ s + k \notin (d + k + 1) .. (d + n - 1)
      BY <2>1
    <3> QED
      BY <1>1, <2>1, <3>1 DEF CopiedDown
  <2>2. CASE a \notin d .. (d + n - 1)
    <3>1. a \notin (d + n - n) .. (d + n - 1)
      BY <2>2
    <3> QED
      BY <1>1, <2>2, <3>1 DEF CopiedDown
  <2> QED
    BY <2>1, <2>2
<1>3. c = [a \in DOMAIN m |-> c[a]]
  BY <1>1 DEF CopiedDown
<1> QED
  BY <1>2, <1>3 DEF Moved, c

LEMMA MoveIsRight ==
    ASSUME NEW m, DOMAIN m \subseteq Nat, NEW d \in Nat, NEW s \in Nat, NEW n \in Nat,
           \A k \in 0 .. (n - 1) : s + k \in DOMAIN m, m = [a \in DOMAIN m |-> m[a]]
    PROVE  memmove(m, d, s, n) = Moved(m, d, s, n)
<1>1. CASE d < s
  BY <1>1, CopyIsRight DEF memmove, MovesUp
<1>2. CASE ~(d < s)
  BY <1>2, CopyDownIsRight DEF memmove, MovesUp
<1> QED
  BY <1>1, <1>2

-----------------------------------------------------------------------------
(* Blocks. *)
LibraryInv == TypeOK /\ BlocksApart

LEMMA SmallModulo ==
    ASSUME NEW x \in 0 .. (WORD - 1)
    PROVE  x % WORD = x
BY LibraryAssumption

LEMMA ModuloIsSmall ==
    ASSUME NEW x \in Nat
    PROVE  x % WORD \in Nat
BY LibraryAssumption

LEMMA WrapIsNoticed ==
    ASSUME LibraryInv, wraps < MaxWraps, NEW size \in Nat, Wrap(size)
    PROVE  /\ wraps' \in 0 .. MaxWraps
           /\ wraps' = 0 => wraps = 0 /\ size < WORD /\ heap_used + size < WORD
BY LibraryAssumption DEF LibraryInv, TypeOK, Wrap

(* A request leaves a number of bytes of the heap used. *)
LEMMA UseIsBounded ==
    ASSUME LibraryInv, NEW size \in Nat, Granted(size)
    PROVE  UsedAfter(size) \in 0 .. HeapSize
<1>1. heap_used + size \in Nat /\ HeapSize \in Nat
  BY LibraryAssumption DEF LibraryInv, TypeOK
<1>2. (heap_used + size) % WORD \in Nat
  BY <1>1, ModuloIsSmall
<1>3. (heap_used + size) % WORD <= HeapSize
  BY DEF Granted
<1> QED
  BY <1>1, <1>2, <1>3 DEF UsedAfter

LEMMA NoWrapAdds ==
    ASSUME LibraryInv, NEW size \in Nat, heap_used + size < WORD
    PROVE  UsedAfter(size) = heap_used + size
<1>1. heap_used + size \in 0 .. (WORD - 1)
  BY LibraryAssumption DEF LibraryInv, TypeOK
<1> QED
  BY <1>1, SmallModulo DEF UsedAfter

(* The new block begins where the used part of the heap ended. *)
LEMMA NewBlockIsApart ==
    ASSUME LibraryInv, NEW size \in Nat, blocks' \subseteq blocks \cup {Block(size)},
           wraps' = 0 => wraps = 0 /\ heap_used' = heap_used + size
    PROVE  blocks' \subseteq [at : 0 .. HeapSize, size : Nat] /\ BlocksApart'
<1>1. heap_used \in 0 .. HeapSize /\ blocks \subseteq [at : 0 .. HeapSize, size : Nat]
  BY LibraryAssumption DEF LibraryInv, TypeOK
<1>2. Block(size) \in [at : 0 .. HeapSize, size : Nat] /\ Block(size).at = heap_used /\ Block(size).size = size
  BY <1>1 DEF Block
<1>3. ASSUME wraps' = 0
      PROVE  /\ \A block \in blocks' : block.at + block.size <= heap_used'
             /\ \A b, c \in blocks' : b # c => Apart(b.at, b.size, c.at, c.size)
  <2>1. /\ \A block \in blocks : block.at + block.size <= heap_used
        /\ \A b, c \in blocks : b # c => Apart(b.at, b.size, c.at, c.size)
        /\ heap_used' = heap_used + size
    BY <1>3 DEF LibraryInv, TypeOK, BlocksApart
  <2> HIDE DEF Block
  <2>2. ASSUME NEW block \in blocks' PROVE block.at + block.size <= heap_used'
    BY <1>1, <1>2, <2>1
  <2>3. ASSUME NEW b \in blocks', NEW c \in blocks', b # c
        PROVE  Apart(b.at, b.size, c.at, c.size)
    BY <1>1, <1>2, <2>1, <2>3 DEF Apart
  <2> QED
    BY <2>2, <2>3
<1> QED
  BY <1>1, <1>2, <1>3 DEF BlocksApart

-----------------------------------------------------------------------------
(* Requests. *)
LEMMA MallocKeeps ==
    ASSUME LibraryInv, wraps < MaxWraps, NEW size \in Sizes, malloc(size)
    PROVE  LibraryInv'
<1>1. size \in Nat
  BY LibraryAssumption
<1>2. /\ Granted(size) /\ Wrap(size) /\ blocks' = blocks \cup {Block(size)}
      /\ heap_used' = UsedAfter(size) /\ heap' = heap
  BY DEF malloc, Hold
<1>3. wraps' \in 0 .. MaxWraps /\ (wraps' = 0 => wraps = 0 /\ heap_used' = heap_used + size)
  BY <1>1, <1>2, WrapIsNoticed, NoWrapAdds
<1>4. heap_used' \in 0 .. HeapSize
  BY <1>1, <1>2, UseIsBounded
<1>5. blocks' \subseteq [at : 0 .. HeapSize, size : Nat] /\ BlocksApart'
  BY <1>1, <1>2, <1>3, NewBlockIsApart
<1> QED
  BY <1>2, <1>3, <1>4, <1>5 DEF LibraryInv, TypeOK

LEMMA CallocKeeps ==
    ASSUME LibraryInv, wraps < MaxWraps, NEW nmemb \in Counts, NEW size \in Sizes, calloc(nmemb, size)
    PROVE  LibraryInv'
<1> DEFINE product == nmemb * size
           total == product % WORD
<1>1. nmemb \in Nat /\ size \in Nat
  BY LibraryAssumption
<1>2. product \in Nat
  BY <1>1
<1>3. /\ Granted(total) /\ Wrap(product) /\ blocks' = blocks \cup {Block(product)}
      /\ heap_used' = UsedAfter(total) /\ heap' = memset(heap, heap_used, NUL, total)
  BY DEF calloc, Hold
<1> HIDE DEF product
<1>4. total \in Nat
  BY <1>2, ModuloIsSmall
<1>5. wraps' \in 0 .. MaxWraps /\ (wraps' = 0 => wraps = 0 /\ product < WORD /\ heap_used + product < WORD)
  BY <1>2, <1>3, WrapIsNoticed
<1>6. product < WORD => total = product
  <2>1. product < WORD => product \in 0 .. (WORD - 1)
    BY <1>2, LibraryAssumption
  <2> QED
    BY <2>1, SmallModulo
<1> HIDE DEF total
<1>7. wraps' = 0 => wraps = 0 /\ heap_used' = heap_used + product
  BY <1>2, <1>3, <1>5, <1>6, NoWrapAdds
<1>8. heap_used' \in 0 .. HeapSize
  BY <1>3, <1>4, UseIsBounded
<1>9. blocks' \subseteq [at : 0 .. HeapSize, size : Nat] /\ BlocksApart'
  BY <1>2, <1>3, <1>7, NewBlockIsApart
<1>10. heap' \in [Addresses -> Bytes]
  BY <1>3, LibraryAssumption DEF LibraryInv, TypeOK, memset
<1> QED
  BY <1>5, <1>8, <1>9, <1>10 DEF LibraryInv, TypeOK

(* The bytes of a range of the heap, which may be empty. *)
LEMMA RangeOfHeap ==
    ASSUME LibraryInv, NEW s \in Nat, NEW n \in Nat, s + n <= HeapSize
    PROVE  /\ DOMAIN heap = Addresses /\ Addresses \subseteq Nat
           /\ heap = [a \in DOMAIN heap |-> heap[a]]
           /\ \A k \in 0 .. (n - 1) : s + k \in DOMAIN heap
<1>1. DOMAIN heap = Addresses /\ heap = [a \in DOMAIN heap |-> heap[a]]
  BY DEF LibraryInv, TypeOK
<1>2. HeapSize \in Nat
  BY LibraryAssumption
<1> QED
  BY <1>1, <1>2 DEF Addresses

LEMMA CopyKeepsMemory ==
    ASSUME LibraryInv, NEW d \in Nat, NEW s \in Nat, NEW n \in Nat, s + n <= HeapSize
    PROVE  memcpy(heap, d, s, n) \in [Addresses -> Bytes]
<1>1. CopiedUp(heap, d, s, n, memcpy(heap, d, s, n))
  BY RangeOfHeap, CopyUp
<1> QED
  BY <1>1, RangeOfHeap DEF CopiedUp, LibraryInv, TypeOK

LEMMA ReallocKeeps ==
    ASSUME LibraryInv, NEW block \in blocks, NEW size \in Sizes, realloc(block, size)
    PROVE  LibraryInv'
<1>1. size \in Nat /\ block \in [at : 0 .. HeapSize, size : Nat] /\ heap_used \in Nat
  BY LibraryAssumption DEF LibraryInv, TypeOK
<1>2. /\ Granted(size) /\ heap_used + size < WORD /\ block.at + size <= HeapSize
      /\ blocks' = (blocks \ {block}) \cup {Block(size)}
      /\ heap_used' = UsedAfter(size) /\ wraps' = wraps
      /\ heap' = memcpy(heap, heap_used, block.at, size)
  BY DEF realloc, Hold, CopyOver
<1>3. wraps' \in 0 .. MaxWraps /\ heap_used' = heap_used + size
  BY <1>1, <1>2, NoWrapAdds DEF LibraryInv, TypeOK
<1>4. heap_used' \in 0 .. HeapSize
  BY <1>1, <1>2, UseIsBounded
<1>5. blocks' \subseteq [at : 0 .. HeapSize, size : Nat] /\ BlocksApart'
  BY <1>1, <1>2, <1>3, NewBlockIsApart
<1>6. heap' \in [Addresses -> Bytes]
  BY <1>1, <1>2, CopyKeepsMemory
<1> QED
  BY <1>3, <1>4, <1>5, <1>6 DEF LibraryInv, TypeOK

LEMMA FreeKeeps ==
    ASSUME LibraryInv, NEW block \in blocks, free(block)
    PROVE  LibraryInv'
BY DEF LibraryInv, TypeOK, free, BlocksApart

-----------------------------------------------------------------------------
(* Writing into memory. *)
LEMMA WrittenKeeps ==
    ASSUME LibraryInv, NEW memory \in [Addresses -> Bytes], Written(memory)
    PROVE  LibraryInv'
<1>1. heap' = memory /\ UNCHANGED <<heap_used, blocks, wraps>>
  BY DEF Written
<1> QED
  BY <1>1 DEF LibraryInv, TypeOK, BlocksApart

LEMMA StringEnds ==
    ASSUME LibraryInv, NEW p \in Nat, IsString(heap, p)
    PROVE  strlen(heap, p) \in Nat /\ p + strlen(heap, p) + 1 <= HeapSize
<1> DEFINE S == {a \in DOMAIN heap : a >= p /\ heap[a] = NUL}
<1>1. DOMAIN heap = Addresses /\ HeapSize \in Nat
  BY LibraryAssumption DEF LibraryInv, TypeOK
<1>2. S \in SUBSET Nat /\ S # {}
  BY <1>1 DEF Addresses, IsString
<1>3. strlen(heap, p) = Min(S) - p
  BY DEF strlen
<1>4. ASSUME NEW a \in S PROVE a \in Nat /\ a >= p /\ a + 1 <= HeapSize
  BY <1>1 DEF Addresses
<1> HIDE DEF S
<1>5. Min(S) \in S
  BY <1>2, SmallestOf
<1> QED
  BY <1>3, <1>4, <1>5

LEMMA CopyStringKeepsMemory ==
    ASSUME LibraryInv, NEW d \in Nat, NEW s \in Nat, IsString(heap, s)
    PROVE  strcpy(heap, d, s) \in [Addresses -> Bytes]
<1> DEFINE n == strlen(heap, s) + 1
<1>1. n \in Nat /\ s + n <= HeapSize
  BY StringEnds
<1>2. strcpy(heap, d, s) = memcpy(heap, d, s, n)
  BY DEF strcpy
<1> HIDE DEF n
<1> QED
  BY <1>1, <1>2, CopyKeepsMemory

LEMMA CopyPartKeepsMemory ==
    ASSUME LibraryInv, NEW d \in Nat, NEW s \in Nat, NEW n \in Nat, IsString(heap, s)
    PROVE  strncpy(heap, d, s, n) \in [Addresses -> Bytes]
<1> DEFINE taken == Min({n, strlen(heap, s)})
<1>1. strlen(heap, s) \in Nat /\ s + strlen(heap, s) + 1 <= HeapSize
  BY StringEnds
<1>2. taken \in Nat /\ taken <= strlen(heap, s)
  <2>1. {n, strlen(heap, s)} \in SUBSET Nat /\ {n, strlen(heap, s)} # {}
    BY <1>1
  <2> QED
    BY <1>1, <2>1, SmallestOf
<1>3. strncpy(heap, d, s, n) = memset(memcpy(heap, d, s, taken), d + taken, NUL, n - taken)
  BY DEF strncpy
<1> HIDE DEF taken
<1>4. s + taken <= HeapSize
  BY <1>1, <1>2, LibraryAssumption
<1>5. memcpy(heap, d, s, taken) \in [Addresses -> Bytes]
  BY <1>2, <1>4, CopyKeepsMemory
<1> QED
  BY <1>3, <1>5, LibraryAssumption DEF memset

LEMMA UseKeeps ==
    ASSUME LibraryInv, Use
    PROVE  LibraryInv'
<1>1. Addresses \subseteq Nat /\ HeapSize \in Nat /\ DOMAIN heap = Addresses
      /\ heap \in [Addresses -> Bytes]
  BY LibraryAssumption DEF Addresses, LibraryInv, TypeOK
<1>2. ASSUME NEW block \in blocks, free(block) PROVE LibraryInv'
  BY <1>2, FreeKeeps
<1>3. ASSUME NEW p \in Addresses, NEW c \in Bytes, Store(p, c) PROVE LibraryInv'
  <2> DEFINE memory == [heap EXCEPT ![p] = c]
  <2>1. memory \in [Addresses -> Bytes]
    BY <1>1
  <2>2. Written(memory)
    BY <1>3 DEF Store
  <2> HIDE DEF memory
  <2> QED
    BY <2>1, <2>2, WrittenKeeps
<1>4. ASSUME NEW p \in Addresses, NEW c \in Bytes, NEW n \in 1 .. HeapSize, Fill(p, c, n)
      PROVE  LibraryInv'
  <2>1. memset(heap, p, c, n) \in [Addresses -> Bytes]
    BY <1>1 DEF memset
  <2> QED
    BY <1>4, <2>1, WrittenKeeps DEF Fill
<1>5. ASSUME NEW d \in Addresses, NEW s \in Addresses, NEW n \in 1 .. HeapSize, Move(d, s, n)
      PROVE  LibraryInv'
  <2>1. s + n <= HeapSize /\ Written(memmove(heap, d, s, n)) /\ d \in Nat /\ s \in Nat /\ n \in Nat
    BY <1>1, <1>5 DEF Move
  <2>2. memmove(heap, d, s, n) = Moved(heap, d, s, n)
    BY <2>1, RangeOfHeap, MoveIsRight
  <2>3. memmove(heap, d, s, n) \in [Addresses -> Bytes]
    <3>1. ASSUME NEW a \in Addresses, a \in d .. (d + n - 1) PROVE a - d + s \in Addresses
      BY <1>1, <2>1, <3>1 DEF Addresses
    <3> QED
      BY <1>1, <2>2, <3>1 DEF Moved
  <2> QED
    BY <2>1, <2>3, WrittenKeeps
<1>6. ASSUME NEW d \in Addresses, NEW s \in Addresses, NEW n \in 1 .. HeapSize, Copy(d, s, n)
      PROVE  LibraryInv'
  <2>1. s + n <= HeapSize /\ Written(memcpy(heap, d, s, n)) /\ d \in Nat /\ s \in Nat /\ n \in Nat
    BY <1>1, <1>6 DEF Copy
  <2> QED
    BY <2>1, CopyKeepsMemory, WrittenKeeps
<1>7. ASSUME NEW d \in Addresses, NEW s \in Addresses, NEW n \in 1 .. HeapSize, CopyPart(d, s, n)
      PROVE  LibraryInv'
  <2>1. IsString(heap, s) /\ Written(strncpy(heap, d, s, n)) /\ d \in Nat /\ s \in Nat /\ n \in Nat
    BY <1>1, <1>7 DEF CopyPart, Takes
  <2> QED
    BY <2>1, CopyPartKeepsMemory, WrittenKeeps
<1>8. ASSUME NEW d \in Addresses, NEW s \in Addresses, CopyString(d, s) PROVE LibraryInv'
  <2>1. IsString(heap, s) /\ Written(strcpy(heap, d, s)) /\ d \in Nat /\ s \in Nat
    BY <1>1, <1>8 DEF CopyString, Takes
  <2> QED
    BY <2>1, CopyStringKeepsMemory, WrittenKeeps
<1>9. ASSUME NEW d \in Addresses, NEW s \in Addresses, AppendString(d, s) PROVE LibraryInv'
  <2>1. /\ IsString(heap, s) /\ IsString(heap, d) /\ d \in Nat /\ s \in Nat
        /\ Written(strcpy(heap, d + strlen(heap, d), s))
    BY <1>1, <1>9 DEF AppendString, strcat
  <2>2. d + strlen(heap, d) \in Nat
    BY <2>1, StringEnds
  <2> QED
    BY <2>1, <2>2, CopyStringKeepsMemory, WrittenKeeps
<1> QED
  BY <1>2, <1>3, <1>4, <1>5, <1>6, <1>7, <1>8, <1>9 DEF Use

LEMMA LibraryInitially == Init => LibraryInv
BY LibraryAssumption DEF Init, LibraryInv, TypeOK, BlocksApart

LEMMA LibraryKept == LibraryInv /\ [Next]_vars => LibraryInv'
<1> SUFFICES ASSUME LibraryInv, [Next]_vars PROVE LibraryInv'
  OBVIOUS
<1>1. CASE UNCHANGED vars
  BY <1>1 DEF vars, LibraryInv, TypeOK, BlocksApart
<1>2. CASE wraps < MaxWraps /\ Request
  BY <1>2, MallocKeeps, CallocKeeps, ReallocKeeps DEF Request
<1>3. CASE wraps < MaxWraps /\ Use
  BY <1>3, UseKeeps
<1> QED
  BY <1>1, <1>2, <1>3 DEF Next, refused

LEMMA LibraryInvHolds == Spec => []LibraryInv
BY LibraryInitially, LibraryKept, PTL DEF Spec

(* The heap stays an array of bytes of its length, and heap_used stays in  *)
(* it (src/stdlib.c:179-219).                                              *)
THEOREM LibraryTypes == Spec => []TypeOK
<1>1. LibraryInv => TypeOK
  BY DEF LibraryInv
<1> QED
  BY <1>1, LibraryInvHolds, PTL

(* What malloc, calloc and realloc hand out lies in the heap and in        *)
(* nobody else's block, as long as no request wrapped around               *)
(* (src/stdlib.c:179-219).                                                 *)
THEOREM LibraryBlocksStayApart == Spec => []BlocksApart
<1>1. LibraryInv => BlocksApart
  BY DEF LibraryInv, TypeOK
<1> QED
  BY <1>1, LibraryInvHolds, PTL

(* memmove is right for every two ranges of the heap, and memcpy for those *)
(* that do not overlap or whose destination comes first                    *)
(* (src/stdlib.c:3-35).                                                    *)
THEOREM CopiesAreRight == Spec => []MovesRight
<1>1. LibraryInv => MovesRight
  <2> SUFFICES ASSUME LibraryInv, NEW d \in Addresses, NEW s \in Addresses,
                      NEW n \in 0 .. (HeapSize - Max({d, s}))
               PROVE  /\ memmove(heap, d, s, n) = Moved(heap, d, s, n)
                      /\ Apart(d, n, s, n) \/ d <= s =>
                           memcpy(heap, d, s, n) = Moved(heap, d, s, n)
    BY DEF MovesRight
  <2>1. d \in Nat /\ s \in Nat /\ HeapSize \in Nat
    BY LibraryAssumption DEF Addresses
  <2>2. Max({d, s}) \in Nat /\ s <= Max({d, s})
    <3>1. \E m \in {d, s} : \A j \in {d, s} : m >= j
      BY <2>1
    <3>2. Max({d, s}) \in {d, s} /\ \A j \in {d, s} : Max({d, s}) >= j
      BY <3>1 DEF Max
    <3> QED
      BY <2>1, <3>2
  <2>3. n \in Nat /\ s + n <= HeapSize
    BY <2>1, <2>2
  <2>4. /\ DOMAIN heap \subseteq Nat /\ heap = [a \in DOMAIN heap |-> heap[a]]
        /\ \A k \in 0 .. (n - 1) : s + k \in DOMAIN heap
    BY <2>1, <2>3, RangeOfHeap
  <2>5. memmove(heap, d, s, n) = Moved(heap, d, s, n)
    BY <2>1, <2>3, <2>4, MoveIsRight
  <2>6. ASSUME Apart(d, n, s, n) \/ d <= s
        PROVE  memcpy(heap, d, s, n) = Moved(heap, d, s, n)
    BY <2>1, <2>3, <2>4, <2>6, CopyIsRight DEF Apart
  <2> QED
    BY <2>5, <2>6
<1> QED
  BY <1>1, LibraryInvHolds, PTL

LEMMA ReallocCopies ==
    ASSUME LibraryInv, wraps = 0, NEW block \in blocks, NEW size \in Sizes,
           realloc(block, size), NEW i \in Nat, i < block.size, i < size
    PROVE  heap'[heap_used + i] = heap[block.at + i]
<1>1. /\ size \in Nat /\ block.at \in Nat /\ block.size \in Nat /\ heap_used \in Nat
      /\ HeapSize \in Nat
  BY LibraryAssumption DEF LibraryInv, TypeOK
<1>2. block.at + block.size <= heap_used
  BY DEF LibraryInv, TypeOK, BlocksApart
<1>3. /\ block.at + size <= HeapSize /\ heap_used + size < WORD /\ Granted(size)
      /\ heap' = memcpy(heap, heap_used, block.at, size)
  BY DEF realloc, CopyOver
<1>4. heap_used + size <= HeapSize
  <2>1. UsedAfter(size) = heap_used + size /\ UsedAfter(size) \in 0 .. HeapSize
    BY <1>1, <1>3, NoWrapAdds, UseIsBounded
  <2> QED
    BY <1>1, <2>1
<1>5. CopiedUp(heap, heap_used, block.at, size, heap')
  BY <1>1, <1>3, RangeOfHeap, CopyUp
<1>6. /\ i \in 0 .. (size - 1) /\ heap_used + i \in DOMAIN heap
      /\ block.at + i \notin heap_used .. (heap_used + i - 1)
  <2>1. DOMAIN heap = 0 .. (HeapSize - 1)
    BY DEF LibraryInv, TypeOK, Addresses
  <2> QED
    BY <1>1, <1>2, <1>4, <2>1
<1> QED
  BY <1>5, <1>6 DEF CopiedUp

(* What a caller had in a block is in the one realloc gives him, although  *)
(* the copy reads beyond the old block and may overwrite what it reads     *)
(* (src/stdlib.c:207-219).                                                 *)
THEOREM ReallocLosesNothing == Spec => ReallocKeepsContents
<1> DEFINE kept == \A old \in blocks \ blocks', new \in blocks' \ blocks :
                      \A i \in 0 .. (Min({old.size, new.size}) - 1) :
                         heap'[new.at + i] = heap[old.at + i]
<1>1. ASSUME LibraryInv, Next, wraps = 0 PROVE kept
  <2>1. CASE blocks \subseteq blocks' \/ blocks' \subseteq blocks
    BY <2>1
  <2>2. ASSUME NEW size \in Sizes, malloc(size) PROVE kept
    BY <2>1, <2>2 DEF malloc, Hold
  <2>3. ASSUME NEW nmemb \in Counts, NEW size \in Sizes, calloc(nmemb, size) PROVE kept
    <3>1. blocks \subseteq blocks'
      BY <2>3 DEF calloc, Hold
    <3> QED
      BY <2>1, <3>1
  <2>4. ASSUME NEW block \in blocks, NEW size \in Sizes, realloc(block, size) PROVE kept
    <3>1. blocks' = (blocks \ {block}) \cup {Block(size)}
      BY <2>4 DEF realloc, Hold
    <3>2. ASSUME NEW old \in blocks \ blocks', NEW new \in blocks' \ blocks
          PROVE  old = block /\ new = Block(size)
      BY <3>1
    <3>3. ASSUME NEW old \in blocks \ blocks', NEW new \in blocks' \ blocks,
                 NEW i \in 0 .. (Min({old.size, new.size}) - 1)
          PROVE  heap'[new.at + i] = heap[old.at + i]
      <4>1. size \in Nat /\ block.size \in Nat /\ old.size = block.size /\ new.size = size
            /\ new.at = heap_used /\ old.at = block.at
        <5>1. old = block /\ new = Block(size)
          BY <3>2
        <5>2. size \in Nat /\ block.size \in Nat
          BY <1>1, LibraryAssumption DEF LibraryInv, TypeOK
        <5>3. Block(size).size = size /\ Block(size).at = heap_used
          BY DEF Block
        <5> QED
          BY <5>1, <5>2, <5>3
      <4>2. /\ Min({block.size, size}) \in Nat
            /\ Min({block.size, size}) <= block.size /\ Min({block.size, size}) <= size
        <5>1. {block.size, size} \in SUBSET Nat /\ {block.size, size} # {}
          BY <4>1
        <5> QED
          BY <4>1, <5>1, SmallestOf
      <4>3. i \in Nat /\ i < block.size /\ i < size
        BY <4>1, <4>2
      <4> QED
        BY <1>1, <2>4, <4>1, <4>3, ReallocCopies
    <3> QED
      BY <3>3
  <2>5. CASE Use
    <3>1. blocks' \subseteq blocks
      BY <2>5 DEF Use, free, Store, Fill, Move, Copy, CopyPart, CopyString, AppendString, Written
    <3> QED
      BY <2>1, <3>1
  <2>6. CASE UNCHANGED vars
    BY <2>1, <2>6 DEF vars
  <2> QED
    BY <1>1, <2>2, <2>3, <2>4, <2>5, <2>6 DEF Next, Request, refused
<1>2. LibraryInv /\ [Next]_vars => [wraps = 0 => kept]_vars
  <2> HIDE DEF kept
  <2> QED
    BY <1>1
<1> QED
  BY <1>2, LibraryInvHolds, PTL DEF Spec, ReallocKeepsContents

-----------------------------------------------------------------------------
(* Texts and their order. *)

(* Whether a text comes first in the dictionary. *)
Before(x, y) ==
    \E k \in 1 .. Len(y) :
        /\ First(x, k - 1) = First(y, k - 1)
        /\ k <= Len(x) => x[k] < y[k]

Characters == Nat \ {0}

(* What a comparison sees at the k-th place of a text. *)
Seen(text, k) == IF k <= Len(text) THEN text[k] ELSE NUL

LEMMA SmallerOfTwo ==
    ASSUME NEW a \in Nat, NEW b \in Nat
    PROVE  Min({a, b}) = IF a <= b THEN a ELSE b
BY SmallestOf, {a, b} \in SUBSET Nat, {a, b} # {}

LEMMA FirstIsPart ==
    ASSUME NEW text \in Seq(Characters), NEW n \in Nat
    PROVE  /\ First(text, n) \in Seq(Characters)
           /\ Len(First(text, n)) = IF n <= Len(text) THEN n ELSE Len(text)
           /\ \A k \in 1 .. Len(First(text, n)) : First(text, n)[k] = text[k]
<1> DEFINE e == Min({n, Len(text)})
<1>1. e = (IF n <= Len(text) THEN n ELSE Len(text)) /\ Len(text) \in Nat
  BY SmallerOfTwo
<1>2. e \in Int /\ e >= 0 /\ e <= Len(text)
  BY <1>1
<1> HIDE DEF e
<1>3. \A k \in 1 .. e : text[k] \in Characters
  BY <1>2
<1>4. /\ SubSeq(text, 1, e) \in Seq(Characters)
      /\ Len(SubSeq(text, 1, e)) = e
      /\ \A k \in 1 .. e : SubSeq(text, 1, e)[k] = text[k]
  <2>1. /\ SubSeq(text, 1, e) \in Seq(Characters)
        /\ Len(SubSeq(text, 1, e)) = IF 1 <= e THEN e - 1 + 1 ELSE 0
        /\ \A k \in 1 .. e - 1 + 1 : SubSeq(text, 1, e)[k] = text[1 + k - 1]
    BY <1>2, <1>3, SubSeqProperties
  <2>2. e - 1 + 1 = e
    BY <1>2
  <2>3. \A k \in 1 .. e : 1 + k - 1 = k
    BY <1>2
  <2> QED
    BY <1>2, <2>1, <2>2, <2>3
<1> QED
  BY <1>1, <1>4 DEF First, e

LEMMA SameText ==
    ASSUME NEW T \in Seq(Characters), NEW U \in Seq(Characters),
           Len(T) = Len(U), \A k \in 1 .. Len(T) : T[k] = U[k]
    PROVE  T = U
BY SeqEqual

(* Texts are ordered as the characters of the first place where they       *)
(* differ or one of them has ended.                                        *)
LEMMA OrderByDifference ==
    ASSUME NEW T \in Seq(Characters), NEW U \in Seq(Characters), NEW i \in Nat,
           i <= Len(T), i <= Len(U), \A k \in 1 .. i : T[k] = U[k],
           Seen(T, i + 1) # Seen(U, i + 1) \/ Seen(T, i + 1) = NUL
    PROVE  Order(T, U) = Sign(Seen(T, i + 1) - Seen(U, i + 1))
<1> DEFINE x == Seen(T, i + 1)
           y == Seen(U, i + 1)
<1>1. /\ Len(T) \in Nat /\ Len(U) \in Nat
      /\ \A k \in 1 .. Len(T) : T[k] \in Characters
      /\ \A k \in 1 .. Len(U) : U[k] \in Characters
  OBVIOUS
<1>2. x \in Nat /\ y \in Nat /\ (x = 0 <=> i = Len(T)) /\ (y = 0 <=> i = Len(U))
  BY <1>1 DEF Seen, NUL, Characters
<1>3. Order(T, U) = CASE T = U -> 0 [] T # U /\ Before(T, U) -> -1 [] OTHER -> 1
  BY DEF Order, Before
<1>4. CASE x = y
  <2>1. Len(T) = Len(U) /\ i = Len(T)
    BY <1>2, <1>4 DEF NUL
  <2>2. T = U
    BY <2>1, SameText
  <2> QED
    BY <1>2, <1>3, <1>4, <2>2 DEF Sign
<1>5. CASE x < y
  <2>1. i + 1 \in 1 .. Len(U) /\ y = U[i + 1] /\ (i + 1 <= Len(T) => x = T[i + 1])
    BY <1>1, <1>2, <1>5 DEF Seen
  <2>2. First(T, i) = First(U, i)
    BY <1>1, FirstIsPart, SameText
  <2>3. Before(T, U)
    <3>1. (i + 1) - 1 = i
      OBVIOUS
    <3> QED
      BY <1>5, <2>1, <2>2, <3>1 DEF Before
  <2>4. T # U
    BY <1>2, <1>5
  <2>5. Order(T, U) = -1
    BY <1>3, <2>3, <2>4
  <2>6. x - y < 0
    BY <1>2, <1>5
  <2> QED
    BY <1>2, <2>5, <2>6 DEF Sign
<1>6. CASE y < x
  <2>1. i + 1 \in 1 .. Len(T) /\ x = T[i + 1] /\ (i + 1 <= Len(U) => y = U[i + 1])
    BY <1>1, <1>2, <1>6 DEF Seen
  <2>2. ASSUME NEW k \in 1 .. Len(U), First(T, k - 1) = First(U, k - 1), k <= Len(T) => T[k] < U[k]
        PROVE  FALSE
    <3>0. k \in Nat /\ k >= 1 /\ k <= Len(U)
      BY <1>1, <2>2
    <3>1. CASE k <= i
      <4>1. k \in 1 .. i /\ k \in 1 .. Len(T)
        BY <1>1, <3>0, <3>1
      <4>2. T[k] = U[k] /\ T[k] \in Nat
        BY <1>1, <4>1 DEF Characters
      <4>3. T[k] < U[k]
        BY <2>2, <3>1, <4>1
      <4> QED
        BY <4>2, <4>3
    <3>2. CASE k = i + 1
      <4>1. T[k] < U[k] /\ T[k] = x /\ U[k] = y
        BY <1>1, <2>1, <2>2, <3>0, <3>2
      <4> QED
        BY <1>2, <1>6, <4>1
    <3>3. CASE k > i + 1
      <4>1. k - 1 \in Nat /\ i + 1 \in 1 .. (k - 1) /\ i + 1 <= Len(U)
        BY <1>1, <3>3
      <4>2. First(T, k - 1)[i + 1] = x /\ First(U, k - 1)[i + 1] = y
        <5>1. i + 1 \in 1 .. Len(First(T, k - 1)) /\ i + 1 \in 1 .. Len(First(U, k - 1))
          BY <1>1, <2>1, <4>1, FirstIsPart
        <5> QED
          BY <2>1, <4>1, <5>1, FirstIsPart
      <4> QED
        BY <1>2, <1>6, <2>2, <4>2
    <3> QED
      BY <1>1, <3>1, <3>2, <3>3
  <2>3. ~ Before(T, U)
    BY <2>2 DEF Before
  <2>4. T # U
    BY <1>2, <1>6
  <2>5. Order(T, U) = 1
    BY <1>3, <2>3, <2>4
  <2>6. x - y > 0
    BY <1>2, <1>6
  <2> QED
    BY <1>2, <2>5, <2>6 DEF Sign
<1> QED
  BY <1>2, <1>4, <1>5, <1>6

(* The same of their beginnings. *)
LEMMA OrderOfBeginnings ==
    ASSUME NEW T \in Seq(Characters), NEW U \in Seq(Characters), NEW i \in Nat,
           i <= Len(T), i <= Len(U), \A k \in 1 .. i : T[k] = U[k],
           Seen(T, i + 1) # Seen(U, i + 1) \/ Seen(T, i + 1) = NUL, NEW n \in Nat
    PROVE  Order(First(T, n), First(U, n)) =
             IF n > i THEN Sign(Seen(T, i + 1) - Seen(U, i + 1)) ELSE 0
<1> DEFINE A == First(T, n)
           B == First(U, n)
<1>1. /\ A \in Seq(Characters) /\ B \in Seq(Characters) /\ Len(T) \in Nat /\ Len(U) \in Nat
      /\ Len(A) = (IF n <= Len(T) THEN n ELSE Len(T))
      /\ Len(B) = (IF n <= Len(U) THEN n ELSE Len(U))
      /\ \A k \in 1 .. Len(A) : A[k] = T[k]
      /\ \A k \in 1 .. Len(B) : B[k] = U[k]
  BY FirstIsPart
<1> HIDE DEF A, B
<1>2. CASE n > i
  <2>1. i <= Len(A) /\ i <= Len(B)
    BY <1>1, <1>2
  <2>2. \A k \in 1 .. i : A[k] = B[k]
    BY <1>1, <2>1
  <2>3. Seen(A, i + 1) = Seen(T, i + 1) /\ Seen(B, i + 1) = Seen(U, i + 1)
    BY <1>1, <1>2 DEF Seen
  <2>4. Order(A, B) = Sign(Seen(A, i + 1) - Seen(B, i + 1))
    BY <1>1, <2>1, <2>2, <2>3, OrderByDifference
  <2> QED
    BY <1>2, <2>3, <2>4 DEF A, B
<1>3. CASE n <= i
  <2>1. Len(A) = n /\ Len(B) = n /\ \A k \in 1 .. n : A[k] = B[k]
    BY <1>1, <1>3
  <2>2. A = B
    BY <1>1, <2>1, SameText
  <2>3. Order(A, B) = 0
    BY <2>2 DEF Order
  <2> QED
    BY <1>3, <2>3 DEF A, B
<1> QED
  BY <1>2, <1>3

-----------------------------------------------------------------------------
(* A string is the characters up to the first NUL. *)
LEMMA StringIsText ==
    ASSUME LibraryInv, NEW p \in Strings
    PROVE  /\ p \in Nat /\ strlen(heap, p) \in Nat
           /\ Text(p) \in Seq(Characters) /\ Len(Text(p)) = strlen(heap, p)
           /\ \A k \in 0 .. strlen(heap, p) :
                heap[p + k] = Seen(Text(p), k + 1) /\ heap[p + k] \in Nat
<1> DEFINE S == {a \in DOMAIN heap : a >= p /\ heap[a] = NUL}
           n == strlen(heap, p)
<1>1. DOMAIN heap = Addresses /\ Addresses \subseteq Nat /\ \A a \in Addresses : heap[a] \in Nat
  <2>1. heap \in [Addresses -> Bytes] /\ Bytes \subseteq 0 .. 127
    BY LibraryAssumption DEF LibraryInv, TypeOK
  <2>2. \A a \in Addresses : heap[a] \in 0 .. 127
    BY <2>1
  <2>3. Addresses \subseteq Nat
    BY DEF Addresses
  <2> QED
    BY <2>1, <2>2, <2>3
<1>2. p \in Nat /\ p \in Addresses /\ IsString(heap, p)
  BY <1>1 DEF Strings
<1>3. S \in SUBSET Nat /\ S # {}
  BY <1>1, <1>2 DEF IsString
<1>4. n = Min(S) - p
  BY DEF strlen
<1>5. Min(S) \in S /\ \A a \in S : Min(S) <= a
  <2> HIDE DEF S
  <2> QED
    BY <1>3, SmallestOf
<1>6. n \in Nat /\ p + n \in Addresses /\ heap[p + n] = NUL
  <2>1. Min(S) \in Addresses /\ Min(S) >= p /\ heap[Min(S)] = NUL /\ Min(S) \in Nat
    BY <1>1, <1>5
  <2> HIDE DEF S, n
  <2>2. n \in Nat /\ p + n = Min(S)
    BY <1>2, <1>4, <2>1
  <2> QED
    BY <2>1, <2>2
<1>7. ASSUME NEW k \in 0 .. n, k # n PROVE p + k \in Addresses /\ heap[p + k] # NUL
  <2>1. p + k \in Addresses
    <3> HIDE DEF n
    <3> QED
      BY <1>2, <1>6, <1>7, LibraryAssumption DEF Addresses
  <2>2. p + k \notin S
    <3>1. p + k < Min(S)
      <4>1. Min(S) \in Nat
        BY <1>3, <1>5
      <4> HIDE DEF n, S
      <4> QED
        BY <1>2, <1>4, <1>6, <1>7, <4>1
    <3>2. ASSUME p + k \in S PROVE FALSE
      <4>1. Min(S) <= p + k /\ Min(S) \in Nat /\ p + k \in Nat
        BY <1>3, <1>5, <3>2
      <4> HIDE DEF S, n
      <4> QED
        BY <3>1, <4>1
    <3> QED
      BY <3>2
  <2>3. p + k >= p
    <3> HIDE DEF n, S
    <3> QED
      BY <1>2, <1>6, <1>7
  <2> QED
    BY <1>1, <2>1, <2>2, <2>3
<1> HIDE DEF n, S
<1>8. Text(p) = [i \in 1 .. n |-> heap[p + i - 1]]
  BY DEF Text, n
<1>9. \A i \in 1 .. n : heap[p + i - 1] \in Characters
  <2>1. TAKE i \in 1 .. n
  <2>2. i - 1 \in 0 .. n /\ i - 1 # n /\ p + (i - 1) = p + i - 1
    BY <1>2, <1>6
  <2>3. p + (i - 1) \in Addresses /\ heap[p + (i - 1)] # NUL
    BY <1>7, <2>2
  <2> QED
    BY <1>1, <2>2, <2>3 DEF Characters, NUL
<1>10. Text(p) \in Seq(Characters) /\ Len(Text(p)) = n
  BY <1>6, <1>8, <1>9
<1>11. ASSUME NEW k \in 0 .. n PROVE heap[p + k] = Seen(Text(p), k + 1) /\ heap[p + k] \in Nat
  <2>1. CASE k = n
    BY <1>1, <1>6, <1>10, <2>1 DEF Seen
  <2>2. CASE k # n
    <3>1. k + 1 \in 1 .. n /\ p + (k + 1) - 1 = p + k /\ k + 1 <= n
      BY <1>2, <1>6, <1>11, <2>2
    <3>2. Text(p)[k + 1] = heap[p + (k + 1) - 1]
      BY <1>8, <3>1
    <3> QED
      BY <1>1, <1>7, <1>10, <1>11, <2>2, <3>1, <3>2 DEF Seen
  <2> QED
    BY <2>1, <2>2
<1> QED
  BY <1>2, <1>6, <1>10, <1>11 DEF n

(* A comparison stops where the texts differ first or have ended. *)
LEMMA ComparisonStops ==
    ASSUME LibraryInv, NEW p \in Strings, NEW q \in Strings
    PROVE  LET i == StopsAt(heap, p, q) IN
           /\ i \in Nat /\ i <= Len(Text(p)) /\ i <= Len(Text(q))
           /\ \A k \in 1 .. i : Text(p)[k] = Text(q)[k]
           /\ Seen(Text(p), i + 1) # Seen(Text(q), i + 1) \/ Seen(Text(p), i + 1) = NUL
           /\ heap[p + i] = Seen(Text(p), i + 1) /\ heap[q + i] = Seen(Text(q), i + 1)
<1> DEFINE T == Text(p)
           U == Text(q)
           i == StopsAt(heap, p, q)
           e == StopsAtEnd(heap, p, q)
           S == {k \in 0 .. e : heap[p + k] = NUL \/ heap[p + k] # heap[q + k]}
<1>1. /\ T \in Seq(Characters) /\ Len(T) = strlen(heap, p) /\ Len(T) \in Nat
      /\ U \in Seq(Characters) /\ Len(U) = strlen(heap, q) /\ Len(U) \in Nat
      /\ \A k \in 0 .. Len(T) : heap[p + k] = Seen(T, k + 1)
      /\ \A k \in 0 .. Len(U) : heap[q + k] = Seen(U, k + 1)
  BY StringIsText
<1>2. e = (IF Len(T) <= Len(U) THEN Len(T) ELSE Len(U)) /\ i = Min(S)
  BY <1>1, SmallerOfTwo DEF StopsAtEnd, StopsAt
<1> HIDE DEF T, U, i, e
<1>3. e \in 0 .. Len(T) /\ e \in 0 .. Len(U) /\ e \in Nat /\ (e = Len(T) \/ e = Len(U))
  BY <1>1, <1>2
<1>4. \A k \in 1 .. Len(T) : T[k] # NUL
  BY <1>1 DEF Characters, NUL
<1>5. e \in S
  <2>1. CASE e = Len(T)
    BY <1>1, <1>3, <2>1 DEF Seen
  <2>2. CASE e # Len(T)
    <3>1. heap[q + e] = NUL
      BY <1>1, <1>3, <2>2 DEF Seen
    <3>2. e + 1 \in 1 .. Len(T) /\ heap[p + e] = T[e + 1]
      BY <1>1, <1>3, <2>2 DEF Seen
    <3> QED
      BY <1>3, <1>4, <3>1, <3>2
  <2> QED
    BY <2>1, <2>2
<1>6. i \in S /\ \A k \in S : i <= k
  <2>1. S \in SUBSET Nat /\ S # {}
    BY <1>3, <1>5
  <2> HIDE DEF S
  <2> QED
    BY <1>2, <2>1, SmallestOf
<1>7. i \in Nat /\ i <= e /\ i <= Len(T) /\ i <= Len(U)
  BY <1>1, <1>3, <1>6
<1>8. ASSUME NEW k \in 1 .. i PROVE T[k] = U[k]
  <2>1. k - 1 \in 0 .. e /\ k - 1 < i /\ k - 1 \in Nat
    BY <1>3, <1>7
  <2>2. k - 1 \notin S
    BY <1>6, <1>7, <2>1
  <2>3. heap[p + (k - 1)] = heap[q + (k - 1)]
    BY <2>1, <2>2
  <2>4. k - 1 \in 0 .. Len(T) /\ k - 1 \in 0 .. Len(U) /\ k - 1 + 1 = k /\ k <= Len(T) /\ k <= Len(U)
    BY <1>1, <1>7, <2>1
  <2>5. Seen(T, k) = T[k] /\ Seen(U, k) = U[k]
    BY <2>4 DEF Seen
  <2> QED
    BY <1>1, <2>3, <2>4, <2>5
<1>9. heap[p + i] = Seen(T, i + 1) /\ heap[q + i] = Seen(U, i + 1)
  BY <1>1, <1>7
<1>10. heap[p + i] = NUL \/ heap[p + i] # heap[q + i]
  BY <1>6
<1> QED
  BY <1>7, <1>8, <1>9, <1>10 DEF T, U, i

LEMMA ComparisonsAreRight == LibraryInv => StringsRight
<1> SUFFICES ASSUME LibraryInv, NEW p \in Strings, NEW q \in Strings
             PROVE  /\ Sign(strcmp(heap, p, q)) = Order(Text(p), Text(q))
                    /\ \A n \in 0 .. (HeapSize + 1) :
                         LET order(k) == Order(First(Text(p), k), First(Text(q), k))
                         IN  Sign(strncmp(heap, p, q, n)) =
                               IF n > 0 /\ order(n) # order(n - 1) THEN 0 ELSE order(n + 1)
  BY DEF StringsRight
<1> DEFINE T == Text(p)
           U == Text(q)
           i == StopsAt(heap, p, q)
           A == Sign(heap[p + i] - heap[q + i])
<1>1. /\ T \in Seq(Characters) /\ Len(T) = strlen(heap, p) /\ Len(T) \in Nat
      /\ U \in Seq(Characters) /\ Len(U) = strlen(heap, q) /\ Len(U) \in Nat
      /\ \A k \in 0 .. Len(T) : heap[p + k] = Seen(T, k + 1) /\ heap[p + k] \in Nat
      /\ \A k \in 0 .. Len(U) : heap[q + k] = Seen(U, k + 1) /\ heap[q + k] \in Nat
  BY StringIsText
<1>2. /\ i \in Nat /\ i <= Len(T) /\ i <= Len(U)
      /\ \A k \in 1 .. i : T[k] = U[k]
      /\ Seen(T, i + 1) # Seen(U, i + 1) \/ Seen(T, i + 1) = NUL
      /\ heap[p + i] = Seen(T, i + 1) /\ heap[q + i] = Seen(U, i + 1)
  BY ComparisonStops
<1>3. Sign(strcmp(heap, p, q)) = A
  BY DEF strcmp
<1>4. \A n \in Nat : strncmp(heap, p, q, n) =
        IF i = n - 1 THEN 0 ELSE LET j == Min({i, n}) IN heap[p + j] - heap[q + j]
  BY DEF strncmp
<1> DEFINE order(k) == Order(First(T, k), First(U, k))
<1> HIDE DEF T, U, i
<1>5. Order(T, U) = A
  BY <1>1, <1>2, OrderByDifference
<1>6. \A k \in Nat : order(k) = IF k > i THEN A ELSE 0
  BY <1>1, <1>2, OrderOfBeginnings
<1> HIDE DEF order
<1>7. ASSUME NEW n \in 0 .. (HeapSize + 1)
      PROVE  Sign(strncmp(heap, p, q, n)) =
               IF n > 0 /\ order(n) # order(n - 1) THEN 0 ELSE order(n + 1)
  <2> DEFINE answer == Sign(strncmp(heap, p, q, n))
  <2>1. n \in Nat /\ n + 1 \in Nat /\ (n > 0 => n - 1 \in Nat)
    BY LibraryAssumption
  <2>2. Sign(0) = 0
    BY DEF Sign
  <2>3. CASE i = n - 1
    <3>1. answer = 0
      <4>1. strncmp(heap, p, q, n) = 0
        BY <1>4, <2>1, <2>3
      <4> QED
        BY <2>2, <4>1
    <3>2. n > 0 /\ order(n - 1) = 0 /\ order(n) = A /\ order(n + 1) = A
      BY <1>2, <1>6, <2>1, <2>3
    <3> QED
      BY <3>1, <3>2
  <2>4. CASE i < n - 1
    <3>1. i # n - 1 /\ Min({i, n}) = i
      BY <1>2, <2>1, <2>4, SmallerOfTwo
    <3>2. answer = A
      BY <1>4, <2>1, <3>1
    <3>3. order(n - 1) = A /\ order(n) = A /\ order(n + 1) = A
      BY <1>2, <1>6, <2>1, <2>4
    <3> QED
      BY <3>2, <3>3
  <2>5. CASE i = n
    <3>1. i # n - 1 /\ Min({i, n}) = i
      BY <1>2, <2>1, <2>5, SmallerOfTwo
    <3>2. answer = A
      BY <1>4, <2>1, <3>1
    <3>3. (n > 0 => order(n - 1) = 0) /\ order(n) = 0 /\ order(n + 1) = A
      BY <1>2, <1>6, <2>1, <2>5
    <3> QED
      BY <3>2, <3>3
  <2>6. CASE i > n
    <3>1. i # n - 1 /\ Min({i, n}) = n
      BY <1>2, <2>1, <2>6, SmallerOfTwo
    <3>2. heap[p + n] - heap[q + n] = 0
      <4>1. n \in 0 .. Len(T) /\ n \in 0 .. Len(U) /\ n + 1 \in 1 .. i /\ n + 1 <= Len(T) /\ n + 1 <= Len(U)
        BY <1>1, <1>2, <2>1, <2>6
      <4>2. heap[p + n] = T[n + 1] /\ heap[q + n] = U[n + 1] /\ heap[p + n] \in Nat
        BY <1>1, <4>1 DEF Seen
      <4> QED
        BY <1>2, <4>1, <4>2
    <3>3. answer = 0
      BY <1>4, <2>1, <2>2, <3>1, <3>2
    <3>4. order(n + 1) = 0
      BY <1>2, <1>6, <2>1, <2>6
    <3> QED
      BY <3>3, <3>4
  <2> QED
    BY <1>2, <2>1, <2>3, <2>4, <2>5, <2>6
<1> QED
  BY <1>1, <1>3, <1>5, <1>7 DEF T, U, order

(* strcmp is the dictionary's order; strncmp is that order of the first    *)
(* n + 1 characters, but blind to the n-th if that is the first to differ  *)
(* (src/stdlib.c:73-87), in every heap the library can leave.              *)
THEOREM ComparisonsFollowTheDictionary == Spec => []StringsRight
BY LibraryInvHolds, ComparisonsAreRight, PTL

-----------------------------------------------------------------------------
(* Numerals.  The recursive functions of Numeral and Value exist, by the   *)
(* least number for which they would not.                                  *)
Bases == {8, 10, 16}

LEMMA DivisionByBase ==
    ASSUME NEW v \in Nat, NEW base \in Bases
    PROVE  /\ v \div base \in Nat /\ v \div base <= v
           /\ v % base \in 0 .. (base - 1)
           /\ (v \div base) * base + (v % base) = v
<1>1. CASE base = 8
  BY <1>1
<1>2. CASE base = 10
  BY <1>2
<1>3. CASE base = 16
  BY <1>3
<1> QED
  BY <1>1, <1>2, <1>3 DEF Bases

LEMMA QuotientIsSmaller ==
    ASSUME NEW v \in Nat, NEW base \in Bases, v >= base
    PROVE  v \div base \in Nat /\ v \div base < v
<1>1. CASE base = 8
  BY <1>1
<1>2. CASE base = 10
  BY <1>2
<1>3. CASE base = 16
  BY <1>3
<1> QED
  BY <1>1, <1>2, <1>3 DEF Bases

(* The digits of x, from those of smaller numbers. *)
FromSmaller(f, x, base) ==
    IF x < base THEN <<x>> ELSE Append(f[x \div base], x % base)

LEMMA SmallerDecide ==
    ASSUME NEW f, NEW g, NEW x \in Nat, NEW base \in Bases,
           \A y \in 0 .. (x - 1) : f[y] = g[y]
    PROVE  FromSmaller(f, x, base) = FromSmaller(g, x, base)
<1>1. CASE x < base
  BY <1>1 DEF FromSmaller
<1>2. CASE ~(x < base)
  <2>1. x >= base
    BY <1>2 DEF Bases
  <2>2. x \div base \in 0 .. (x - 1)
    BY <2>1, QuotientIsSmaller
  <2>3. f[x \div base] = g[x \div base]
    BY <2>2
  <2> QED
    BY <2>3 DEF FromSmaller
<1> QED
  BY <1>1, <1>2

Numerals(v, base, f) == [x \in 0 .. v |-> FromSmaller(f, x, base)]

LEMMA NumeralsExist ==
    ASSUME NEW v \in Nat, NEW base \in Bases
    PROVE  \E f : f = Numerals(v, base, f)
<1> DEFINE S == {i \in Nat : ~ \E f : f = Numerals(i, base, f)}
<1>1. ASSUME S # {} PROVE FALSE
  <2>1. PICK i \in S : \A j \in S : i <= j
    <3>1. S \in SUBSET Nat
      OBVIOUS
    <3> HIDE DEF S
    <3> QED
      BY <1>1, <3>1, Least
  <2>2. \E f : i = 0 \/ f = Numerals(i - 1, base, f)
    <3>1. CASE i = 0
      BY <3>1
    <3>2. CASE i # 0
      <4>1. i - 1 \in Nat /\ ~(i <= i - 1)
        BY <3>2
      <4> QED
        BY <2>1, <4>1
    <3> QED
      BY <3>1, <3>2
  <2>3. PICK f : i = 0 \/ f = Numerals(i - 1, base, f)
    BY <2>2
  <2> DEFINE g == [x \in 0 .. i |-> IF x = i THEN FromSmaller(f, i, base) ELSE f[x]]
  <2>4. i \in Nat /\ \A x \in 0 .. i : x # i => g[x] = f[x]
    OBVIOUS
  <2>5. ASSUME NEW x \in 0 .. i PROVE g[x] = FromSmaller(g, x, base)
    <3>1. x \in Nat /\ \A y \in 0 .. (x - 1) : y \in 0 .. i /\ y # i
      BY <2>4, <2>5
    <3>2. \A y \in 0 .. (x - 1) : f[y] = g[y]
      BY <2>4, <3>1
    <3>3. FromSmaller(f, x, base) = FromSmaller(g, x, base)
      <4> HIDE DEF g
      <4> QED
        BY <3>1, <3>2, SmallerDecide
    <3>4. g[x] = FromSmaller(f, x, base)
      <4>1. CASE x = i
        BY <4>1
      <4>2. CASE x # i
        <5>1. i # 0 /\ x \in 0 .. (i - 1) /\ g[x] = f[x]
          BY <2>4, <2>5, <4>2
        <5>2. f = [y \in 0 .. (i - 1) |-> FromSmaller(f, y, base)]
          BY <2>3, <5>1 DEF Numerals
        <5>3. f[x] = FromSmaller(f, x, base)
          BY <5>1, <5>2
        <5> QED
          BY <5>1, <5>3
      <4> QED
        BY <4>1, <4>2
    <3> QED
      BY <3>3, <3>4
  <2>6. g = [x \in 0 .. i |-> g[x]]
    OBVIOUS
  <2> HIDE DEF g
  <2>7. g = Numerals(i, base, g)
    BY <2>5, <2>6 DEF Numerals
  <2> QED
    BY <2>1, <2>7
<1> QED
  BY <1>1

(* The recursive function that gives the numeral. *)
NumeralsTo(v, base) == CHOOSE f : f = Numerals(v, base, f)

LEMMA NumeralsAreThese ==
    ASSUME NEW v \in Nat, NEW base \in Bases
    PROVE  \A x \in 0 .. v :
             NumeralsTo(v, base)[x] = FromSmaller(NumeralsTo(v, base), x, base)
<1>1. NumeralsTo(v, base) = Numerals(v, base, NumeralsTo(v, base))
  BY NumeralsExist DEF NumeralsTo
<1>2. ASSUME NEW f, f = Numerals(v, base, f) PROVE \A x \in 0 .. v : f[x] = FromSmaller(f, x, base)
  BY <1>2 DEF Numerals
<1> QED
  BY <1>1, <1>2

LEMMA NumeralIsLast ==
    ASSUME NEW v \in Nat, NEW base \in Bases
    PROVE  Numeral(v, base) = NumeralsTo(v, base)[v]
BY DEF Numeral, NumeralsTo, Numerals, FromSmaller

(* The digits of v are those of v \div base, and v % base. *)
LEMMA NumeralGrows ==
    ASSUME NEW v \in Nat, NEW base \in Bases
    PROVE  Numeral(v, base) =
             IF v < base THEN <<v>> ELSE Append(Numeral(v \div base, base), v % base)
<1> DEFINE f == NumeralsTo(v, base)
           u == v \div base
           g == NumeralsTo(u, base)
<1>1. Numeral(v, base) = f[v] /\ v \in 0 .. v
  BY NumeralIsLast
<1>2. \A x \in 0 .. v : f[x] = FromSmaller(f, x, base)
  BY NumeralsAreThese
<1>3. Numeral(v, base) = IF v < base THEN <<v>> ELSE Append(f[u], v % base)
  BY <1>1, <1>2 DEF FromSmaller
<1>4. CASE v < base
  BY <1>3, <1>4
<1>5. CASE ~(v < base)
  <2>1. v >= base
    BY <1>5 DEF Bases
  <2>2. u \in Nat /\ u < v
    BY <2>1, QuotientIsSmaller
  <2>3. \A x \in 0 .. u : g[x] = FromSmaller(g, x, base)
    BY <2>2, NumeralsAreThese
  <2> DEFINE S == {x \in 0 .. u : f[x] # g[x]}
  <2> HIDE DEF u, f, g
  <2>4. ASSUME S # {} PROVE FALSE
    <3>1. PICK x \in S : \A y \in S : x <= y
      <4>1. S \in SUBSET Nat
        OBVIOUS
      <4> HIDE DEF S
      <4> QED
        BY <2>4, <4>1, Least
    <3>2. x \in Nat /\ x \in 0 .. v /\ x \in 0 .. u /\ f[x] # g[x]
      BY <2>2, <3>1
    <3>3. ASSUME NEW y \in 0 .. (x - 1) PROVE f[y] = g[y]
      <4>1. y \in 0 .. u /\ ~(x <= y)
        BY <2>2, <3>2, <3>3
      <4> QED
        BY <3>1, <4>1
    <3>4. FromSmaller(f, x, base) = FromSmaller(g, x, base)
      BY <3>2, <3>3, SmallerDecide
    <3> QED
      BY <1>2, <2>3, <3>2, <3>4
  <2>5. u \in 0 .. u
    BY <2>2
  <2>6. f[u] = g[u]
    BY <2>4, <2>5
  <2>7. Numeral(u, base) = g[u]
    BY <2>2, NumeralIsLast DEF g
  <2>8. Numeral(v, base) = Append(f[u], v % base)
    BY <1>3, <1>5
  <2> QED
    BY <1>5, <2>6, <2>7, <2>8 DEF u
<1> QED
  BY <1>4, <1>5

-----------------------------------------------------------------------------
(* What the loops of atoi and strtol have computed before each character. *)
Values(m, p, q, base, f) ==
    [a \in p .. q |-> IF a = p THEN 0 ELSE Wrapped(f[a - 1] * base + DigitOf(m[a - 1]))]

LEMMA ValuesExist ==
    ASSUME NEW m, NEW p \in Nat, NEW n \in Nat, NEW base
    PROVE  \E f : f = Values(m, p, p + n, base, f)
<1> DEFINE S == {i \in Nat : ~ \E f : f = Values(m, p, p + i, base, f)}
<1>1. ASSUME S # {} PROVE FALSE
  <2>1. PICK i \in S : \A j \in S : i <= j
    <3>1. S \in SUBSET Nat
      OBVIOUS
    <3> HIDE DEF S
    <3> QED
      BY <1>1, <3>1, Least
  <2>2. CASE i = 0
    <3> DEFINE f == [a \in p .. p |-> 0]
    <3>1. f = Values(m, p, p, base, f)
      <4>1. \A a \in p .. p : a = p
        OBVIOUS
      <4> QED
        BY <4>1 DEF Values
    <3>2. p + 0 = p
      OBVIOUS
    <3> QED
      BY <2>1, <2>2, <3>1, <3>2
  <2>3. CASE i # 0
    <3>1. i - 1 \in Nat /\ ~(i <= i - 1) /\ p + (i - 1) = p + i - 1
      BY <2>3
    <3>2. PICK f : f = Values(m, p, p + (i - 1), base, f)
      BY <2>1, <3>1
    <3> DEFINE g == [a \in p .. (p + i) |->
                       IF a = p + i THEN Wrapped(f[a - 1] * base + DigitOf(m[a - 1])) ELSE f[a]]
    <3>3. \A a \in p .. (p + (i - 1)) :
            f[a] = IF a = p THEN 0 ELSE Wrapped(f[a - 1] * base + DigitOf(m[a - 1]))
      BY <3>2 DEF Values
    <3>4. ASSUME NEW a \in p .. (p + i)
          PROVE  g[a] = IF a = p THEN 0 ELSE Wrapped(g[a - 1] * base + DigitOf(m[a - 1]))
      <4>1. CASE a = p + i
        <5>1. a # p /\ a - 1 \in p .. (p + i) /\ a - 1 # p + i
          BY <2>3, <4>1
        <5>2. g[a - 1] = f[a - 1]
          BY <5>1
        <5> QED
          BY <4>1, <5>1, <5>2
      <4>2. CASE a # p + i /\ a # p
        <5>1. a \in p .. (p + (i - 1)) /\ a - 1 \in p .. (p + i) /\ a - 1 # p + i
          BY <3>1, <4>2
        <5>2. g[a - 1] = f[a - 1] /\ g[a] = f[a]
          BY <4>2, <5>1
        <5> QED
          BY <3>3, <4>2, <5>1, <5>2
      <4>3. CASE a # p + i /\ a = p
        <5>1. a \in p .. (p + (i - 1))
          BY <3>1, <4>3
        <5> QED
          BY <3>3, <4>3, <5>1
      <4> QED
        BY <4>1, <4>2, <4>3
    <3>5. g = [a \in p .. (p + i) |-> g[a]]
      OBVIOUS
    <3> HIDE DEF g
    <3>6. g = Values(m, p, p + i, base, g)
      BY <3>4, <3>5 DEF Values
    <3> QED
      BY <2>1, <3>6
  <2> QED
    BY <2>2, <2>3
<1> QED
  BY <1>1

(* The digits that n characters stand for. *)
DigitsAt(m, s, n) == [k \in 1 .. n |-> DigitOf(m[s + k - 1])]

(* A numeral has a digit, and a second one from base on. *)
LEMMA NumeralLength ==
    ASSUME NEW v \in Nat, NEW base \in Bases
    PROVE  /\ Numeral(v, base) \in Seq(Nat)
           /\ IF v < base THEN Len(Numeral(v, base)) = 1 ELSE Len(Numeral(v, base)) > 1
<1> DEFINE Right(x) == /\ Numeral(x, base) \in Seq(Nat)
                       /\ IF x < base THEN Len(Numeral(x, base)) = 1
                                      ELSE Len(Numeral(x, base)) > 1
           S == {x \in Nat : ~Right(x)}
<1>1. ASSUME S # {} PROVE FALSE
  <2>1. PICK x \in S : \A y \in S : x <= y
    <3>1. S \in SUBSET Nat
      OBVIOUS
    <3> HIDE DEF S
    <3> QED
      BY <1>1, <3>1, Least
  <2>2. x \in Nat /\ ~Right(x)
    BY <2>1
  <2>3. CASE x < base
    <3>1. Numeral(x, base) = <<x>>
      BY <2>2, <2>3, NumeralGrows
    <3> QED
      BY <2>2, <2>3, <3>1
  <2>4. CASE ~(x < base)
    <3>1. x \div base \in Nat /\ x \div base < x /\ x % base \in Nat
      BY <2>2, <2>4, QuotientIsSmaller, DivisionByBase DEF Bases
    <3>2. Right(x \div base)
      <4>1. x \div base \notin S
        BY <2>1, <2>2, <3>1
      <4> HIDE DEF Right
      <4> QED
        BY <3>1, <4>1
    <3>3. Numeral(x, base) = Append(Numeral(x \div base, base), x % base)
      BY <2>2, <2>4, NumeralGrows
    <3> DEFINE t == Numeral(x \div base, base)
    <3>4. t \in Seq(Nat) /\ Len(t) \in Nat /\ Len(t) >= 1
      <4>1. t \in Seq(Nat) /\ (Len(t) = 1 \/ Len(t) > 1)
        BY <3>2
      <4>2. Len(t) \in Nat
        BY <4>1, LenProperties
      <4>3. \A k \in Nat : k = 1 \/ k > 1 => k >= 1
        OBVIOUS
      <4>4. Len(t) >= 1
        BY ONLY <4>1, <4>2, <4>3
      <4> QED
        BY ONLY <4>1, <4>2, <4>4
    <3> HIDE DEF t
    <3>5. Append(t, x % base) \in Seq(Nat) /\ Len(Append(t, x % base)) = Len(t) + 1
      BY <3>1, <3>4, AppendProperties
    <3> QED
      BY <2>2, <2>4, <3>3, <3>4, <3>5 DEF t
  <2> QED
    BY <2>3, <2>4
<1> HIDE DEF Right
<1> QED
  BY <1>1 DEF Right

(* What a long holds does not wrap around. *)
LEMMA FitsUnchanged ==
    ASSUME NEW v \in 0 .. LONG_MAX
    PROVE  Wrapped(v) = v /\ Wrapped(-v) = -v
<1> DEFINE W == 2 * (LONG_MAX + 1)
<1>1. /\ LONG_MAX \in Nat /\ W \in Nat /\ W > 0
      /\ v + LONG_MAX + 1 \in Nat /\ v + LONG_MAX + 1 < W
      /\ -v + LONG_MAX + 1 \in Nat /\ -v + LONG_MAX + 1 < W
  BY LongAssumption
<1> HIDE DEF W
<1>2. (v + LONG_MAX + 1) % W = v + LONG_MAX + 1 /\ (-v + LONG_MAX + 1) % W = -v + LONG_MAX + 1
  <2>1. \A x \in Nat : x < W => x % W = x
    BY <1>1
  <2> QED
    BY <1>1, <2>1
<1> QED
  BY <1>1, <1>2 DEF Wrapped, W

(* Reading the numeral of a number that fits gives this number: what was   *)
(* read before the last digit is the numeral's quotient by the base.       *)
LEMMA ValueOfNumeral ==
    ASSUME NEW m, NEW s \in Nat, NEW n \in Nat, n >= 1, NEW base \in Bases,
           NEW v \in 0 .. LONG_MAX, Numeral(v, base) = DigitsAt(m, s, n)
    PROVE  Value(m, s, s + n, base) = v
<1> DEFINE value == CHOOSE f : f = Values(m, s, s + n, base, f)
           digit(k) == DigitOf(m[s + k - 1])
           text(i) == [k \in 1 .. i |-> digit(k)]
           Read(i) == \A w \in 0 .. LONG_MAX : Numeral(w, base) = text(i) => value[s + i] = w
<1>1. Value(m, s, s + n, base) = value[s + n]
  BY DEF Value, Values
<1>2. value = Values(m, s, s + n, base, value)
  BY ValuesExist
<1>3. /\ value[s] = 0
      /\ \A i \in 1 .. n : value[s + i] = Wrapped(value[s + (i - 1)] * base + digit(i))
  <2>1. ASSUME NEW f, f = Values(m, s, s + n, base, f)
        PROVE  /\ f[s] = 0
               /\ \A i \in 1 .. n :
                    f[s + i] = Wrapped(f[s + (i - 1)] * base + DigitOf(m[s + i - 1]))
    <3>1. \A a \in s .. (s + n) :
            f[a] = IF a = s THEN 0 ELSE Wrapped(f[a - 1] * base + DigitOf(m[a - 1]))
      BY <2>1 DEF Values
    <3>2. ASSUME NEW i \in 1 .. n
          PROVE  f[s + i] = Wrapped(f[s + (i - 1)] * base + DigitOf(m[s + i - 1]))
      <4>1. s + i \in s .. (s + n) /\ s + i # s /\ (s + i) - 1 = s + (i - 1) /\ (s + i) - 1 = s + i - 1
        OBVIOUS
      <4> QED
        BY <3>1, <4>1
    <3>3. s \in s .. (s + n)
      OBVIOUS
    <3> QED
      BY <3>1, <3>2, <3>3
  <2> HIDE DEF value
  <2> QED
    BY <1>2, <2>1
<1> HIDE DEF value, digit
<1>4. base \in Nat /\ LONG_MAX \in Nat
  BY LongAssumption DEF Bases
<1> DEFINE S == {i \in 1 .. n : ~Read(i)}
<1>5. ASSUME S # {} PROVE FALSE
  <2>1. PICK i \in S : \A j \in S : i <= j
    <3>1. S \in SUBSET Nat
      OBVIOUS
    <3> HIDE DEF S
    <3> QED
      BY <1>5, <3>1, Least
  <2>2. i \in 1 .. n /\ i \in Nat
    BY <2>1
  <2>3. PICK w \in 0 .. LONG_MAX : Numeral(w, base) = text(i) /\ value[s + i] # w
    BY <2>1
  <2>4. w \in Nat /\ Len(text(i)) = i
    BY <1>4, <2>2
  <2>5. IF w < base THEN i = 1 ELSE i > 1
    <3>1. IF w < base THEN Len(text(i)) = 1 ELSE Len(text(i)) > 1
      BY <2>3, <2>4, NumeralLength
    <3> HIDE DEF text
    <3> QED
      BY <2>4, <3>1
  <2>6. value[s + i] = Wrapped(value[s + (i - 1)] * base + digit(i)) /\ Wrapped(w) = w
    BY <1>3, <2>2, FitsUnchanged
  <2>7. CASE w < base
    <3>1. i = 1 /\ s + (i - 1) = s /\ 0 * base = 0 /\ 0 + w = w
      BY <1>4, <2>4, <2>5, <2>7
    <3>2. text(1) = <<w>> /\ text(1)[1] = digit(1) /\ <<w>>[1] = w
      BY <2>3, <2>4, <2>7, <3>1, NumeralGrows
    <3>3. digit(i) = w
      BY <3>1, <3>2
    <3> HIDE DEF S, Read, text
    <3> QED
      BY <1>3, <2>3, <2>6, <3>1, <3>3
  <2>8. CASE ~(w < base)
    <3> DEFINE u == w \div base
               d == w % base
               t == Numeral(u, base)
    <3>1. u \in Nat /\ u <= w /\ d \in Nat /\ u * base + d = w /\ u \in 0 .. LONG_MAX
      BY <1>4, <2>3, <2>4, DivisionByBase
    <3>2. text(i) = Append(t, d)
      BY <2>3, <2>4, <2>8, NumeralGrows
    <3>3. t \in Seq(Nat)
      BY <3>1, NumeralLength
    <3> HIDE DEF u, d, t
    <3>4. /\ Len(text(i)) = Len(t) + 1 /\ Len(t) \in Nat
          /\ \A k \in 1 .. Len(t) + 1 : text(i)[k] = IF k = Len(t) + 1 THEN d ELSE t[k]
      <4> HIDE DEF text
      <4> QED
        BY <3>1, <3>2, <3>3, AppendProperties
    <3>5. Len(t) = i - 1 /\ i - 1 \in 1 .. n /\ ~(i <= i - 1) /\ Len(t) + 1 = i
      BY <2>2, <2>4, <2>5, <2>8, <3>4
    <3>6. digit(i) = d
      BY <2>2, <3>4, <3>5
    <3>7. t = text(i - 1)
      <4>1. \A k \in 1 .. (i - 1) : t[k] = digit(k)
        <5>1. TAKE k \in 1 .. (i - 1)
        <5>2. k \in 1 .. i /\ k \in 1 .. Len(t) + 1 /\ k # Len(t) + 1
          BY <2>2, <3>5
        <5>3. text(i)[k] = t[k] /\ text(i)[k] = digit(k)
          BY <3>4, <5>2
        <5> QED
          BY <5>3
      <4>2. t = [k \in 1 .. (i - 1) |-> t[k]]
        BY <3>3, <3>5
      <4> QED
        BY <4>1, <4>2
    <3>8. value[s + (i - 1)] = u
      <4>1. Read(i - 1)
        BY <2>1, <3>5
      <4> HIDE DEF text
      <4> QED
        BY <3>1, <3>7, <4>1 DEF t
    <3> HIDE DEF S, Read, text
    <3> QED
      BY <2>3, <2>6, <3>1, <3>6, <3>8
  <2> QED
    BY <2>7, <2>8
<1>6. Read(n)
  <2>1. n \in 1 .. n
    OBVIOUS
  <2> QED
    BY <1>5, <2>1
<1>7. Numeral(v, base) = text(n)
  BY DEF DigitsAt, digit
<1> HIDE DEF text
<1> QED
  BY <1>1, <1>6, <1>7

-----------------------------------------------------------------------------
(* Characters that are digits. *)
LEMMA DigitCharacters ==
    ASSUME NEW c \in Nat, NEW base \in Bases, DigitOf(c) < base
    PROVE  /\ DigitOf(c) \in 0 .. (base - 1)
           /\ c \notin {Space, Tab, Minus, Plus} /\ c \notin LetterX
           /\ c # Zero => DigitOf(c) # 0
<1>1. base \in Nat /\ base <= 16
  BY DEF Bases
<1>2. CASE c \in 48 .. 57
  BY <1>1, <1>2 DEF DigitOf, Space, Tab, Minus, Plus, LetterX, Zero
<1>3. CASE c \in 97 .. 102
  BY <1>1, <1>3 DEF DigitOf, Space, Tab, Minus, Plus, LetterX, Zero
<1>4. CASE c \in 65 .. 70
  BY <1>1, <1>4 DEF DigitOf, Space, Tab, Minus, Plus, LetterX, Zero
<1>5. CASE c \notin 48 .. 57 /\ c \notin 97 .. 102 /\ c \notin 65 .. 70
  <2>1. DigitOf(c) = 99
    BY <1>5 DEF DigitOf, NotADigit
  <2> QED
    BY <1>1, <2>1
<1> QED
  BY <1>2, <1>3, <1>4, <1>5

LEMMA DigitIsNumber ==
    ASSUME NEW c \in Nat
    PROVE  DigitOf(c) \in Nat
<1>1. CASE c \in 48 .. 57
  BY <1>1 DEF DigitOf
<1>2. CASE c \in 97 .. 102
  BY <1>2 DEF DigitOf
<1>3. CASE c \in 65 .. 70
  BY <1>3 DEF DigitOf
<1>4. CASE c \notin 48 .. 57 /\ c \notin 97 .. 102 /\ c \notin 65 .. 70
  BY <1>4 DEF DigitOf, NotADigit
<1> QED
  BY <1>1, <1>2, <1>3, <1>4

LEMMA NoDigitEndsAString ==
    ASSUME NEW base \in Bases
    PROVE  ~ (DigitOf(NUL) < base)
<1>1. DigitOf(NUL) = 99
  BY DEF DigitOf, NUL, NotADigit
<1> QED
  BY <1>1 DEF Bases

LEMMA DigitsEndThere ==
    ASSUME NEW m, DOMAIN m \subseteq Nat, NEW s \in Nat, NEW e \in Nat, s <= e, e \in DOMAIN m,
           NEW base, ~ (DigitOf(m[e]) < base),
           \A a \in s .. (e - 1) : DigitOf(m[a]) < base
    PROVE  DigitsEnd(m, s, base) = e
<1> DEFINE S == {a \in DOMAIN m : a >= s /\ ~IsDigit(m[a], base)}
<1>1. S \in SUBSET Nat /\ e \in S
  BY DEF IsDigit
<1>2. DigitsEnd(m, s, base) = Min(S)
  BY DEF DigitsEnd
<1>3. Min(S) \in S /\ Min(S) <= e
  <2> HIDE DEF S
  <2> QED
    BY <1>1, SmallestOf
<1>4. Min(S) \in Nat /\ Min(S) >= s /\ ~ (DigitOf(m[Min(S)]) < base)
  BY <1>1, <1>3 DEF IsDigit
<1> HIDE DEF S
<1>5. Min(S) \notin s .. (e - 1)
  BY <1>4
<1> QED
  BY <1>2, <1>3, <1>4, <1>5

LEMMA NothingToSkip ==
    ASSUME NEW m, DOMAIN m \subseteq Nat, NEW p \in DOMAIN m, NEW blanks, m[p] \notin blanks
    PROVE  SkipBlanks(m, p, blanks) = p
<1> DEFINE S == {a \in DOMAIN m : a >= p /\ m[a] \notin blanks}
<1>1. S \in SUBSET Nat /\ p \in S /\ p \in Nat /\ \A a \in S : a >= p
  OBVIOUS
<1>2. SkipBlanks(m, p, blanks) = Min(S)
  BY DEF SkipBlanks
<1>3. Min(S) \in S /\ Min(S) <= p
  <2> HIDE DEF S
  <2> QED
    BY <1>1, SmallestOf
<1>4. Min(S) >= p /\ Min(S) \in Nat
  <2> HIDE DEF S
  <2> QED
    BY <1>1, <1>3
<1> HIDE DEF S
<1> QED
  BY <1>1, <1>2, <1>3, <1>4

LEMMA NumbersAreRight == LibraryInv => NumbersRight
<1> SUFFICES ASSUME LibraryInv, NEW p \in Strings, NEW base \in {8, 10, 16},
                    NEW stop \in 1 .. strlen(heap, p), NEW start \in 0 .. (stop - 1)
             PROVE
        LET text   == Text(p)
            prefix == First(text, start)
            number == SubSeq(text, start + 1, stop)
            ends   == stop = Len(text) \/ DigitOf(text[stop + 1]) >= base
            read   == strtol(heap, p, IF prefix \in {<<>>, <<Minus>>} THEN base ELSE 0)
            minus  == prefix # <<>> /\ prefix[1] = Minus
            known  == \/ prefix \in {<<>>, <<Minus>>}
                      \/ base = 8 /\ prefix \in {<<Zero>>, <<Minus, Zero>>}
                      \/ base = 16 /\ \E x \in LetterX :
                           prefix \in {<<Zero, x>>, <<Minus, Zero, x>>}
        IN  known /\ IsNumeral(number, base) /\ ends =>
              /\ read.end = p + stop
              /\ \A v \in 0 .. LONG_MAX : Numeral(v, base) = Digits(number) =>
                    /\ read.value = IF minus THEN -v ELSE v
                    /\ base = 10 => atoi(heap, p) = read.value
  BY DEF NumbersRight
<1> DEFINE text   == Text(p)
           prefix == First(text, start)
           number == SubSeq(text, start + 1, stop)
           ends   == stop = Len(text) \/ DigitOf(text[stop + 1]) >= base
           arg    == IF prefix \in {<<>>, <<Minus>>} THEN base ELSE 0
           read   == strtol(heap, p, arg)
           negative == prefix # <<>> /\ prefix[1] = Minus
           known  == \/ prefix \in {<<>>, <<Minus>>}
                     \/ base = 8 /\ prefix \in {<<Zero>>, <<Minus, Zero>>}
                     \/ base = 16 /\ \E x \in LetterX :
                          prefix \in {<<Zero, x>>, <<Minus, Zero, x>>}
           s == p + start
           e == p + stop
           n == stop - start
           V == Value(heap, s, e, base)
<1> SUFFICES ASSUME known, IsNumeral(number, base), ends
             PROVE  /\ read.end = p + stop
                    /\ \A v \in 0 .. LONG_MAX : Numeral(v, base) = Digits(number) =>
                          /\ read.value = IF negative THEN -v ELSE v
                          /\ base = 10 => atoi(heap, p) = read.value
  OBVIOUS
<1>0. base \in Bases /\ base \in Nat
  BY DEF Bases
<1>1. /\ p \in Nat /\ text \in Seq(Characters) /\ Len(text) \in Nat /\ Len(text) = strlen(heap, p)
      /\ \A k \in 0 .. Len(text) : heap[p + k] = Seen(text, k + 1) /\ heap[p + k] \in Nat
  BY StringIsText
<1>2. stop \in Nat /\ start \in Nat /\ start < stop /\ stop <= Len(text) /\ n \in Nat /\ n >= 1
  BY <1>1
<1>3. DOMAIN heap = Addresses /\ Addresses \subseteq Nat /\ \A k \in 0 .. Len(text) : p + k \in DOMAIN heap
  <2>1. IsString(heap, p)
    BY DEF Strings
  <2>2. Len(text) \in Nat /\ p + Len(text) + 1 <= HeapSize
    BY <1>1, <2>1, StringEnds
  <2>3. DOMAIN heap = Addresses /\ HeapSize \in Nat
    BY LibraryAssumption DEF LibraryInv, TypeOK
  <2>4. ASSUME NEW k \in 0 .. Len(text) PROVE p + k \in 0 .. (HeapSize - 1)
    <3> HIDE DEF text
    <3> QED
      BY <1>1, <2>2, <2>3
  <2>5. Addresses \subseteq Nat
    BY DEF Addresses
  <2> QED
    BY <2>3, <2>4, <2>5 DEF Addresses
<1> HIDE DEF text
<1>4. ASSUME NEW k \in 0 .. (Len(text) - 1) PROVE heap[p + k] = text[k + 1]
  <2>1. k \in 0 .. Len(text) /\ k + 1 <= Len(text)
    BY <1>1
  <2> QED
    BY <1>1, <2>1 DEF Seen
(* The characters of the number. *)
<1>5. Len(number) = n /\ \A i \in 1 .. n : number[i] = heap[s + i - 1]
  <2>1. \A i \in start + 1 .. stop : text[i] \in Characters
    BY <1>1, <1>2
  <2>2. /\ Len(number) = IF start + 1 <= stop THEN stop - (start + 1) + 1 ELSE 0
        /\ \A i \in 1 .. stop - (start + 1) + 1 : number[i] = text[start + 1 + i - 1]
    BY <1>2, <2>1, SubSeqProperties
  <2>3. stop - (start + 1) + 1 = n /\ start + 1 <= stop
    BY <1>2
  <2>4. ASSUME NEW i \in 1 .. n PROVE number[i] = heap[s + i - 1]
    <3>1. number[i] = text[start + 1 + i - 1]
      BY <2>2, <2>3
    <3>2. /\ start + i - 1 \in 0 .. (Len(text) - 1) /\ (start + i - 1) + 1 = start + 1 + i - 1
          /\ p + (start + i - 1) = s + i - 1
      BY <1>1, <1>2
    <3>3. heap[p + (start + i - 1)] = text[(start + i - 1) + 1]
      BY <1>4, <3>2
    <3> QED
      BY <3>1, <3>2, <3>3
  <2> QED
    BY <2>2, <2>3, <2>4
<1>6. \A i \in 1 .. n : DigitOf(number[i]) < base
  BY <1>5 DEF IsNumeral
<1> HIDE DEF number
<1>7. \A k \in 0 .. (n - 1) : heap[s + k] \in Nat /\ DigitOf(heap[s + k]) < base
  <2>1. TAKE k \in 0 .. (n - 1)
  <2>2. k + 1 \in 1 .. n /\ s + (k + 1) - 1 = s + k /\ start + k \in 0 .. Len(text) /\ p + (start + k) = s + k
    BY <1>1, <1>2
  <2>3. heap[s + k] = number[k + 1] /\ heap[s + k] \in Nat
    BY <1>1, <1>5, <2>2
  <2> QED
    BY <1>6, <2>2, <2>3
<1>8. ~ (DigitOf(heap[e]) < base)
  <2>1. CASE stop = Len(text)
    <3>1. heap[p + stop] = NUL
      BY <1>1, <1>2, <2>1 DEF Seen
    <3> QED
      BY <1>0, <3>1, NoDigitEndsAString
  <2>2. CASE stop # Len(text) /\ DigitOf(text[stop + 1]) >= base
    <3>1. stop \in 0 .. (Len(text) - 1)
      BY <1>1, <1>2, <2>2
    <3>2. heap[p + stop] = text[stop + 1]
      BY <1>4, <3>1
    <3>3. DigitOf(heap[p + stop]) \in Nat
      <4>1. stop \in 0 .. Len(text)
        BY <3>1
      <4> QED
        BY <1>1, <4>1, DigitIsNumber
    <3> QED
      BY <1>0, <2>2, <3>2, <3>3
  <2> QED
    BY <2>1, <2>2
<1>9. /\ s \in Nat /\ e \in Nat /\ s <= e /\ e = s + n /\ e \in DOMAIN heap /\ s \in DOMAIN heap
      /\ p \in DOMAIN heap /\ heap[p] \in Nat /\ heap[s] \in Nat
  <2>1. 0 \in 0 .. Len(text) /\ start \in 0 .. Len(text) /\ stop \in 0 .. Len(text) /\ p + 0 = p
    BY <1>1, <1>2
  <2>2. s \in Nat /\ e \in Nat /\ s <= e /\ e = s + n
    BY <1>1, <1>2
  <2> QED
    BY <1>1, <1>3, <2>1, <2>2
<1>10. DigitsEnd(heap, s, base) = e
  <2>1. ASSUME NEW a \in s .. (e - 1) PROVE DigitOf(heap[a]) < base
    <3>1. a - s \in 0 .. (n - 1) /\ s + (a - s) = a
      BY <1>9, <1>2
    <3> QED
      BY <1>7, <3>1
  <2>2. DOMAIN heap \subseteq Nat
    BY <1>3
  <2> HIDE DEF s, e
  <2> QED
    BY <1>8, <1>9, <2>1, <2>2, DigitsEndThere
<1>11. ASSUME NEW v \in 0 .. LONG_MAX, Numeral(v, base) = Digits(number) PROVE V = v
  <2>1. Digits(number) = DigitsAt(heap, s, n)
    BY <1>5 DEF Digits, DigitsAt
  <2> HIDE DEF s, n
  <2>2. Value(heap, s, s + n, base) = v
    BY <1>0, <1>2, <1>9, <1>11, <2>1, ValueOfNumeral
  <2> QED
    BY <1>9, <2>2
<1>12. heap[s] \notin {Space, Tab, Minus, Plus} /\ heap[s] \notin LetterX
  <2>1. 0 \in 0 .. (n - 1) /\ s + 0 = s
    BY <1>2, <1>9
  <2>2. DigitOf(heap[s]) < base
    BY <1>7, <2>1
  <2> QED
    BY <1>0, <1>9, <2>2, DigitCharacters
(* What stands in front of the number. *)
<1>13. /\ prefix \in Seq(Characters) /\ Len(prefix) = start
       /\ \A k \in 1 .. start : prefix[k] = heap[p + (k - 1)]
  <2>1. /\ prefix \in Seq(Characters) /\ Len(prefix) = start
        /\ \A k \in 1 .. start : prefix[k] = text[k]
    <3>1. /\ First(text, start) \in Seq(Characters)
          /\ Len(First(text, start)) = IF start <= Len(text) THEN start ELSE Len(text)
          /\ \A k \in 1 .. Len(First(text, start)) : First(text, start)[k] = text[k]
      BY <1>1, <1>2, FirstIsPart
    <3>2. start <= Len(text)
      BY <1>2
    <3> QED
      BY <3>1, <3>2
  <2>2. ASSUME NEW k \in 1 .. start PROVE text[k] = heap[p + (k - 1)]
    <3>1. k - 1 \in 0 .. (Len(text) - 1) /\ (k - 1) + 1 = k
      BY <1>1, <1>2
    <3> QED
      BY <1>4, <3>1
  <2> QED
    BY <2>1, <2>2
<1> HIDE DEF prefix
<1> DEFINE sign == IF negative THEN p + 1 ELSE p
           format == IF arg = 0 THEN Prefix(heap, sign) ELSE [base |-> base, digits |-> sign]
<1>14. /\ heap[p] \notin {Space, Tab} /\ (heap[p] = Minus <=> negative)
       /\ SkipSign(heap, p) = sign
       /\ format.base = base /\ format.digits = s
       /\ prefix \in {<<>>, <<Minus>>} => sign = s
  <2> HIDE DEF s, e, V
  <2>1. /\ s = p + start /\ p + 0 = p /\ p + 1 \in Nat /\ base # 0 /\ NUL = 0
        /\ Space = 32 /\ Tab = 9 /\ Minus = 45 /\ Plus = 43 /\ Zero = 48
    BY <1>0, <1>1 DEF Bases, NUL, Space, Tab, Minus, Plus, Zero, s
  <2>2. ASSUME prefix \in {<<>>, <<Minus>>} PROVE format = [base |-> base, digits |-> sign]
    BY <2>1, <2>2
  <2>3. ASSUME prefix \notin {<<>>, <<Minus>>} PROVE format = Prefix(heap, sign)
    BY <2>3
  <2> HIDE DEF format, arg
  <2>4. CASE prefix = <<>>
    <3>1. start = 0 /\ s = p /\ ~ negative /\ sign = p
      BY <1>2, <1>13, <2>1, <2>4
    <3> QED
      BY <1>12, <2>1, <2>2, <2>4, <3>1 DEF SkipSign
  <2>5. CASE prefix = <<Minus>>
    <3>1. start = 1 /\ prefix[1] = Minus /\ prefix # <<>>
      BY <1>13, <2>5
    <3>2. s = p + 1 /\ negative /\ sign = p + 1 /\ heap[p] = Minus
      BY <1>13, <2>1, <3>1
    <3> QED
      BY <2>1, <2>2, <2>5, <3>2 DEF SkipSign
  <2>6. CASE base = 8 /\ prefix = <<Zero>>
    <3>1. start = 1 /\ prefix[1] = Zero
      BY <1>13, <2>6
    <3>2. s = p + 1 /\ ~ negative /\ sign = p /\ heap[p] = Zero
      BY <1>13, <2>1, <3>1
    <3>3. prefix \notin {<<>>, <<Minus>>}
      <4>1. prefix = <<Minus>> => prefix[1] = Minus
        OBVIOUS
      <4>2. prefix # <<Minus>>
        BY <2>1, <3>1, <4>1
      <4>3. prefix # <<>>
        BY <2>6
      <4> QED
        BY <4>2, <4>3
    <3>4. Prefix(heap, p) = [base |-> 8, digits |-> p + 1]
      BY <1>12, <3>2 DEF Prefix
    <3> QED
      BY <2>1, <2>3, <2>6, <3>2, <3>3, <3>4 DEF SkipSign
  <2>7. CASE base = 8 /\ prefix = <<Minus, Zero>>
    <3>1. start = 2 /\ prefix[1] = Minus /\ prefix[2] = Zero /\ prefix # <<>>
      BY <1>13, <2>7
    <3>2. s = p + 2 /\ negative /\ sign = p + 1 /\ heap[p] = Minus /\ heap[p + 1] = Zero
      BY <1>13, <2>1, <3>1
    <3>3. prefix \notin {<<>>, <<Minus>>}
      BY <1>13, <2>1, <3>1
    <3>4. (p + 1) + 1 = p + 2
      BY <1>1
    <3>5. Prefix(heap, p + 1) = [base |-> 8, digits |-> (p + 1) + 1]
      BY <1>12, <3>2, <3>4 DEF Prefix
    <3> QED
      BY <2>1, <2>3, <2>7, <3>2, <3>3, <3>4, <3>5 DEF SkipSign
  <2>8. ASSUME base = 16, NEW x \in LetterX, prefix = <<Zero, x>>
        PROVE  /\ heap[p] \notin {Space, Tab} /\ (heap[p] = Minus <=> negative)
               /\ SkipSign(heap, p) = sign /\ format.base = base /\ format.digits = s
               /\ prefix \notin {<<>>, <<Minus>>}
    <3>1. start = 2 /\ prefix[1] = Zero /\ prefix[2] = x /\ prefix # <<>>
      BY <1>13, <2>8
    <3>2. s = p + 2 /\ ~ negative /\ sign = p /\ heap[p] = Zero /\ heap[p + 1] = x
      BY <1>13, <2>1, <3>1
    <3>3. prefix \notin {<<>>, <<Minus>>}
      BY <1>13, <2>1, <3>1
    <3>4. Prefix(heap, p) = [base |-> 16, digits |-> p + 2]
      BY <2>8, <3>2 DEF Prefix
    <3> QED
      BY <2>1, <2>3, <2>8, <3>2, <3>3, <3>4 DEF SkipSign
  <2>9. ASSUME base = 16, NEW x \in LetterX, prefix = <<Minus, Zero, x>>
        PROVE  /\ heap[p] \notin {Space, Tab} /\ (heap[p] = Minus <=> negative)
               /\ SkipSign(heap, p) = sign /\ format.base = base /\ format.digits = s
               /\ prefix \notin {<<>>, <<Minus>>}
    <3>1. start = 3 /\ prefix[1] = Minus /\ prefix[2] = Zero /\ prefix[3] = x /\ prefix # <<>>
      BY <1>13, <2>9
    <3>2. s = p + 3 /\ negative /\ sign = p + 1 /\ heap[p] = Minus /\ heap[p + 1] = Zero /\ heap[p + 2] = x
      BY <1>13, <2>1, <3>1
    <3>3. prefix \notin {<<>>, <<Minus>>}
      BY <1>13, <2>1, <3>1
    <3>4. (p + 1) + 1 = p + 2 /\ (p + 1) + 2 = p + 3
      BY <1>1
    <3>5. Prefix(heap, p + 1) = [base |-> 16, digits |-> (p + 1) + 2]
      BY <2>9, <3>2, <3>4 DEF Prefix
    <3> QED
      BY <2>1, <2>3, <2>9, <3>2, <3>3, <3>4, <3>5 DEF SkipSign
  <2> QED
    BY <2>4, <2>5, <2>6, <2>7, <2>8, <2>9
<1> HIDE DEF sign, format, arg, negative
<1> DEFINE signed == IF negative THEN Wrapped(-V) ELSE V
<1>15. SkipBlanks(heap, p, {Space, Tab}) = p /\ SkipBlanks(heap, p, {Space}) = p
  BY <1>3, <1>9, <1>14, NothingToSkip
<1>16. \A v : Signed(heap, p, v) = IF negative THEN Wrapped(-v) ELSE v
  BY <1>14 DEF Signed
<1>17. read = [value |-> signed, end |-> e]
  <2>1. \A v \in {arg} : v = 0 => format = Prefix(heap, sign)
    BY DEF format
  <2>2. \A v \in {arg} : v # 0 => format = [base |-> v, digits |-> sign]
    BY DEF format, arg
  <2>3. format = IF arg = 0 THEN Prefix(heap, SkipSign(heap, SkipBlanks(heap, p, {Space, Tab})))
                 ELSE [base |-> arg, digits |-> SkipSign(heap, SkipBlanks(heap, p, {Space, Tab}))]
    BY <1>14, <1>15, <2>1, <2>2
  <2>4. read = [value |-> Signed(heap, SkipBlanks(heap, p, {Space, Tab}),
                             Value(heap, format.digits, DigitsEnd(heap, format.digits, format.base), format.base)),
                end |-> DigitsEnd(heap, format.digits, format.base)]
    BY <2>3 DEF strtol
  <2>5. format.base = base /\ format.digits = s /\ DigitsEnd(heap, s, base) = e
    BY <1>10, <1>14
  <2> HIDE DEF s, e, format
  <2>6. read = [value |-> Signed(heap, p, Value(heap, s, e, base)), end |-> e]
    BY <1>15, <2>4, <2>5
  <2> QED
    BY <1>16, <2>6
<1>18. ASSUME NEW v \in 0 .. LONG_MAX, Numeral(v, base) = Digits(number)
       PROVE  read.value = IF negative THEN -v ELSE v
  <2> HIDE DEF V
  <2>1. V = v /\ Wrapped(-v) = -v
    BY <1>11, <1>18, FitsUnchanged
  <2> QED
    BY <1>17, <2>1
<1>19. base = 10 => atoi(heap, p) = read.value
  <2> SUFFICES ASSUME base = 10 PROVE atoi(heap, p) = read.value
    OBVIOUS
  <2>1. SkipSign(heap, SkipBlanks(heap, p, {Space})) = s
    BY <1>14, <1>15
  <2>2. atoi(heap, p) = Signed(heap, p, Value(heap, s, DigitsEnd(heap, s, 10), 10))
    <3> HIDE DEF s
    <3> QED
      BY <1>15, <2>1 DEF atoi
  <2>3. DigitsEnd(heap, s, 10) = e /\ Value(heap, s, e, 10) = V
    BY <1>10
  <2> HIDE DEF s, e, V
  <2>4. atoi(heap, p) = signed
    BY <1>16, <2>2, <2>3
  <2> QED
    BY <1>17, <2>4
<1> QED
  BY <1>17, <1>18, <1>19

(* strtol and atoi read the number, if a long can hold it, whose digits    *)
(* stand there, and strtol stops behind them (src/stdlib.c:112-177), in    *)
(* every heap the library can leave.                                       *)
THEOREM NumeralsAreRead == Spec => []NumbersRight
BY LibraryInvHolds, NumbersAreRight, PTL
=============================================================================
