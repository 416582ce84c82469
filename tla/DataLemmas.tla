------------------------------ MODULE DataLemmas ----------------------------
(***************************************************************************)
(* Facts about numbers and sequences that the proofs of several components *)
(* use.                                                                    *)
(***************************************************************************)
EXTENDS Integers, Sequences, FiniteSetTheorems, SequenceTheorems, WellFoundedInduction, TLAPS

(***************************************************************************)
(* Every set of naturals that is not empty has a least element: the        *)
(* intervals 0 .. n are finite sets, and those are well founded under      *)
(* inclusion.                                                              *)
(***************************************************************************)
LEMMA LeastNumber ==
  ASSUME NEW T, T \subseteq Nat, T # {}
  PROVE \E n \in T : \A m \in T : n <= m
<1> DEFINE F == {0 .. n : n \in T}
           R == StrictSubsetOrdering(Nat)
<1>1. IsWellFoundedOn(R, FiniteSubsetsOf(Nat))
  BY FS_StrictSubsetOrderingWellFounded
<1>2. \A n \in T : 0 .. n \in FiniteSubsetsOf(Nat)
  <2> TAKE n \in T
  <2>1. IsFiniteSet(0 .. n)
    BY FS_Interval
  <2> QED BY <2>1 DEF FiniteSubsetsOf
<1>3. F \subseteq FiniteSubsetsOf(Nat) /\ F # {}
  BY <1>2
<1> HIDE DEF R
<1>4. PICK x \in F : \A y \in F : ~(<<y, x>> \in R)
  <2> HIDE DEF F
  <2> QED BY <1>1, <1>3, WFMin
<1>5. PICK n \in T : x = 0 .. n
  OBVIOUS
<1>6. ASSUME NEW m \in T, ~(n <= m)
      PROVE  FALSE
  <2>1. n \in 0 .. n /\ n \notin 0 .. m /\ 0 .. m \subseteq 0 .. n
    BY <1>6
  <2>2. 0 .. m \in F /\ 0 .. m \in SUBSET Nat /\ 0 .. n \in SUBSET Nat
    BY <1>6
  <2>3. <<0 .. m, 0 .. n>> \in R
    BY <2>1, <2>2 DEF R, StrictSubsetOrdering
  <2> QED BY <1>4, <1>5, <2>2, <2>3
<1> QED BY <1>6

(* Induction over an interval, for a set rather than for a predicate. *)
LEMMA Upward ==
  ASSUME NEW N \in Nat, NEW T, 0 \in T, \A n \in 0 .. N - 1 : n \in T => n + 1 \in T
  PROVE  0 .. N \subseteq T
<1> DEFINE C == {n \in 0 .. N : n \notin T}
<1>1. SUFFICES ASSUME C # {} PROVE FALSE
  OBVIOUS
<1>2. C \subseteq Nat
  OBVIOUS
<1>3. PICK n \in C : \A m \in C : n <= m
  <2> HIDE DEF C
  <2> QED BY <1>1, <1>2, LeastNumber
<1>4. n # 0 /\ n - 1 \in 0 .. N - 1
  BY <1>3
<1> QED BY <1>3, <1>4

(* Quotient and remainder, and what determines them. *)
LEMMA ModRange ==
  ASSUME NEW a \in Int, NEW n \in Int, n > 0
  PROVE  /\ a % n \in Int /\ 0 <= a % n /\ a % n < n
         /\ a \div n \in Int
         /\ a = n * (a \div n) + (a % n)
<1>1. a % n \in Int /\ 0 <= a % n /\ a % n < n /\ a \div n \in Int
  BY Z3
<1>2. a = n * (a \div n) + (a % n)
  BY Z3
<1> QED BY <1>1, <1>2

LEMMA ModUnique ==
  ASSUME NEW a \in Int, NEW n \in Int, n > 0,
         NEW q \in Int, NEW r \in Int, 0 <= r, r < n, a = n * q + r
  PROVE  a % n = r
  BY Z3

LEMMA DivUnique ==
  ASSUME NEW a \in Int, NEW n \in Int, n > 0,
         NEW q \in Int, NEW r \in Int, 0 <= r, r < n, a = n * q + r
  PROVE  a \div n = q
  BY Z3

----------------------------------------------------------------------------
(* What a sequence holds, and that it holds nothing twice. *)
Elements(s) == {s[i] : i \in DOMAIN s}
Distinct(s) == \A i, j \in DOMAIN s : s[i] = s[j] => i = j

LEMMA AppendDistinct ==
  ASSUME NEW S, NEW s \in Seq(S), Distinct(s), NEW b \in S, b \notin Elements(s)
  PROVE  /\ Append(s, b) \in Seq(S) /\ Distinct(Append(s, b))
         /\ Elements(Append(s, b)) = Elements(s) \cup {b}
<1>1. /\ Append(s, b) \in Seq(S)
      /\ DOMAIN s = 1 .. Len(s) /\ DOMAIN Append(s, b) = 1 .. Len(s) + 1
      /\ \A i \in 1 .. Len(s) : Append(s, b)[i] = s[i]
      /\ Append(s, b)[Len(s) + 1] = b
      /\ Len(s) \in Nat
  BY AppendProperties, LenProperties
<1>2. \A i \in DOMAIN s : s[i] # b
  BY DEF Elements
<1>3. Distinct(Append(s, b))
  <2> SUFFICES ASSUME NEW i \in 1 .. Len(s) + 1, NEW j \in 1 .. Len(s) + 1,
                      Append(s, b)[i] = Append(s, b)[j]
               PROVE  i = j
    BY <1>1 DEF Distinct
  <2> QED BY <1>1, <1>2 DEF Distinct
<1>4. Elements(Append(s, b)) = Elements(s) \cup {b}
  BY <1>1 DEF Elements
<1> QED BY <1>1, <1>3, <1>4

LEMMA TailDistinct ==
  ASSUME NEW S, NEW s \in Seq(S), Distinct(s), s # << >>
  PROVE  /\ Tail(s) \in Seq(S) /\ Distinct(Tail(s)) /\ Head(s) \in Elements(s)
         /\ Elements(Tail(s)) = Elements(s) \ {Head(s)}
<1>1. /\ Tail(s) \in Seq(S)
      /\ DOMAIN s = 1 .. Len(s) /\ DOMAIN Tail(s) = 1 .. Len(s) - 1
      /\ \A i \in 1 .. Len(s) - 1 : Tail(s)[i] = s[i + 1]
      /\ Len(s) \in Nat /\ Len(s) > 0 /\ Head(s) = s[1]
  <2>1. Len(s) \in Nat /\ DOMAIN s = 1 .. Len(s) /\ Len(s) > 0
    BY LenProperties, EmptySeq
  <2> QED BY <2>1, HeadTailProperties, LenProperties
<1>2. Distinct(Tail(s))
  <2> SUFFICES ASSUME NEW i \in 1 .. Len(s) - 1, NEW j \in 1 .. Len(s) - 1,
                      s[i + 1] = s[j + 1]
               PROVE  i = j
    BY <1>1 DEF Distinct
  <2> QED BY <1>1 DEF Distinct
<1>3. Elements(Tail(s)) = Elements(s) \ {Head(s)}
  <2>1. ASSUME NEW i \in 1 .. Len(s) - 1
        PROVE  s[i + 1] \in Elements(s) /\ s[i + 1] # Head(s)
    BY <1>1 DEF Distinct, Elements
  <2>2. ASSUME NEW i \in 1 .. Len(s), s[i] # Head(s)
        PROVE  i - 1 \in 1 .. Len(s) - 1 /\ (i - 1) + 1 = i
    BY <1>1, <2>2
  <2>3. Elements(Tail(s)) \subseteq Elements(s) \ {Head(s)}
    BY <1>1, <2>1 DEF Elements
  <2>4. ASSUME NEW i \in 1 .. Len(s), s[i] # Head(s)
        PROVE  s[i] \in Elements(Tail(s))
    <3>1. PICK k \in 1 .. Len(s) - 1 : k + 1 = i
      BY <2>2, <2>4
    <3>2. Tail(s)[k] = s[i]
      BY <1>1, <3>1
    <3> QED BY <1>1, <3>2 DEF Elements
  <2>5. ASSUME NEW x \in Elements(s), x # Head(s)
        PROVE  x \in Elements(Tail(s))
    <3>1. PICK i \in 1 .. Len(s) : x = s[i]
      BY <1>1 DEF Elements
    <3> QED BY <2>4, <2>5, <3>1
  <2> QED BY <2>3, <2>5
<1> QED BY <1>1, <1>2, <1>3 DEF Elements

----------------------------------------------------------------------------
(* A function applied to every element of a sequence. *)
Image(f, s) == [k \in DOMAIN s |-> f[s[k]]]

IsImage(t, f, s, T) ==
  /\ t \in Seq(T) /\ Len(t) = Len(s)
  /\ \A k \in 1 .. Len(s) : t[k] = f[s[k]]

LEMMA ImageLemma ==
  ASSUME NEW S, NEW T, NEW f, \A x \in S : f[x] \in T, NEW s \in Seq(S)
  PROVE  IsImage(Image(f, s), f, s, T)
<1>1. Len(s) \in Nat /\ DOMAIN s = 1 .. Len(s) /\ \A k \in DOMAIN s : s[k] \in S
  BY LenProperties, ElementOfSeq
<1>2. Image(f, s) = [k \in 1 .. Len(s) |-> f[s[k]]]
  BY <1>1 DEF Image
<1>3. \A k \in 1 .. Len(s) : f[s[k]] \in T
  BY <1>1
<1>4. Image(f, s) \in Seq(T) /\ Len(Image(f, s)) = Len(s)
  BY <1>1, <1>2, <1>3
<1> QED BY <1>1, <1>2, <1>4 DEF IsImage

LEMMA ImageAppend ==
  ASSUME NEW S, NEW f, NEW s \in Seq(S), NEW e \in S
  PROVE  Image(f, Append(s, e)) = Append(Image(f, s), f[e])
<1> DEFINE T == {f[x] : x \in S}
<1>0. \A x \in S : f[x] \in T
  OBVIOUS
<1> HIDE DEF T
<1>1. /\ Append(s, e) \in Seq(S) /\ Len(Append(s, e)) = Len(s) + 1 /\ Len(s) \in Nat
      /\ \A k \in 1 .. Len(s) : Append(s, e)[k] = s[k]
      /\ Append(s, e)[Len(s) + 1] = e
  BY AppendProperties, LenProperties
<1>2. IsImage(Image(f, s), f, s, T) /\ IsImage(Image(f, Append(s, e)), f, Append(s, e), T)
  BY <1>0, <1>1, ImageLemma
<1>3. Image(f, s) \in Seq(T) /\ f[e] \in T
  BY <1>0, <1>2 DEF IsImage
<1>4. /\ Append(Image(f, s), f[e]) \in Seq(T)
      /\ Len(Append(Image(f, s), f[e])) = Len(Image(f, s)) + 1
      /\ \A k \in 1 .. Len(Image(f, s)) : Append(Image(f, s), f[e])[k] = Image(f, s)[k]
      /\ Append(Image(f, s), f[e])[Len(Image(f, s)) + 1] = f[e]
  BY <1>3, AppendProperties
<1>5. \A k \in 1 .. Len(s) + 1 :
        Image(f, Append(s, e))[k] = Append(Image(f, s), f[e])[k]
  BY <1>1, <1>2, <1>4 DEF IsImage
<1> QED BY <1>1, <1>2, <1>4, <1>5, SeqEqual DEF IsImage

LEMMA ImageTail ==
  ASSUME NEW S, NEW f, NEW s \in Seq(S), s # << >>
  PROVE  /\ Image(f, s) # << >> /\ Head(Image(f, s)) = f[Head(s)]
         /\ Image(f, Tail(s)) = Tail(Image(f, s))
<1> DEFINE T == {f[x] : x \in S}
<1>0. \A x \in S : f[x] \in T
  OBVIOUS
<1> HIDE DEF T
<1>1. /\ Tail(s) \in Seq(S) /\ Len(Tail(s)) = Len(s) - 1 /\ Len(s) \in Nat /\ Len(s) > 0
      /\ \A k \in 1 .. Len(s) - 1 : Tail(s)[k] = s[k + 1]
      /\ Head(s) = s[1]
  <2>1. Len(s) \in Nat /\ Len(s) > 0
    BY LenProperties, EmptySeq
  <2> QED BY <2>1, HeadTailProperties
<1>2. IsImage(Image(f, s), f, s, T) /\ IsImage(Image(f, Tail(s)), f, Tail(s), T)
  BY <1>0, <1>1, ImageLemma
<1>3. Image(f, s) # << >> /\ Head(Image(f, s)) = f[Head(s)] /\ Image(f, s) \in Seq(T)
  BY <1>1, <1>2 DEF IsImage
<1>4. /\ Tail(Image(f, s)) \in Seq(T) /\ Len(Tail(Image(f, s))) = Len(Image(f, s)) - 1
      /\ \A k \in 1 .. Len(Tail(Image(f, s))) : Tail(Image(f, s))[k] = Image(f, s)[k + 1]
  BY <1>3, HeadTailProperties
<1>5. \A k \in 1 .. Len(s) - 1 : Image(f, Tail(s))[k] = Tail(Image(f, s))[k]
  BY <1>1, <1>2, <1>4 DEF IsImage
<1>6. Image(f, Tail(s)) = Tail(Image(f, s))
  BY <1>1, <1>2, <1>4, <1>5, SeqEqual DEF IsImage
<1> QED BY <1>3, <1>6

(* Of a function, only the values at the elements count. *)
LEMMA ImageSame ==
  ASSUME NEW f, NEW g, NEW s, \A x \in Elements(s) : f[x] = g[x]
  PROVE  Image(f, s) = Image(g, s)
  BY DEF Image, Elements

(* How often a value occurs in a sequence without repetitions. *)
LEMMA CountLemma ==
  ASSUME NEW s, Distinct(s), NEW b
  PROVE  Cardinality({k \in DOMAIN s : s[k] = b}) = IF b \in Elements(s) THEN 1 ELSE 0
<1>1. CASE b \in Elements(s)
  <2>1. PICK i \in DOMAIN s : s[i] = b
    BY <1>1 DEF Elements
  <2>2. {k \in DOMAIN s : s[k] = b} = {i}
    BY <2>1 DEF Distinct
  <2> QED BY <1>1, <2>2, FS_Singleton
<1>2. CASE b \notin Elements(s)
  <2>1. {k \in DOMAIN s : s[k] = b} = {}
    BY <1>2 DEF Elements
  <2> QED BY <1>2, <2>1, FS_EmptySet
<1> QED BY <1>1, <1>2

=============================================================================
