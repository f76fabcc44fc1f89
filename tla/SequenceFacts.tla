---------------------------- MODULE SequenceFacts ----------------------------
(***************************************************************************)
(* What the proofs need to know of sequences: the elements and the order   *)
(* of a sequence that was extended, shortened, reversed or cut in two, and *)
(* that one without repetitions stays so.                                  *)
(***************************************************************************)
EXTENDS Integers, SequencesExt, FiniteSetTheorems, SequenceTheorems, TLAPS

(* One element of s for each element of t, of the same name: the rest of the
   module derives what it says of elements from what it says of places. *)
LEMMA ElementsOf ==
    ASSUME NEW S, NEW s \in Seq(S)
    PROVE  /\ \A x : x \in ToSet(s) <=> \E i \in 1..Len(s) : s[i] = x
           /\ \A i \in 1..Len(s) : s[i] \in ToSet(s)
           /\ ToSet(s) \subseteq S
           /\ IsInjective(s) <=> \A i, j \in 1..Len(s) : s[i] = s[j] => i = j
  BY DEF ToSet, IsInjective

LEMMA OfNothing ==
    /\ \A S : <<>> \in Seq(S)
    /\ Len(<<>>) = 0 /\ ToSet(<<>>) = {} /\ IsInjective(<<>>)
  BY DEF ToSet, IsInjective

LEMMA NoElements ==
    ASSUME NEW S, NEW s \in Seq(S)
    PROVE  /\ s = <<>> <=> Len(s) = 0
           /\ s = <<>> <=> ToSet(s) = {}
<1>1. s = <<>> <=> Len(s) = 0
  BY EmptySeq
<1>2. s # <<>> => s[1] \in ToSet(s)
  BY <1>1, ElementsOf
<1> QED
  BY <1>1, <1>2, OfNothing

LEMMA FirstAndRest ==
    ASSUME NEW S, NEW s \in Seq(S), s # <<>>
    PROVE  /\ Len(s) \in Nat \ {0} /\ Head(s) = s[1] /\ Head(s) \in S /\ Head(s) \in ToSet(s)
           /\ Tail(s) \in Seq(S) /\ Len(Tail(s)) = Len(s) - 1
           /\ \A i \in 1..Len(s) - 1 : Tail(s)[i] = s[i + 1]
           /\ ToSet(s) = {Head(s)} \cup ToSet(Tail(s))
           /\ IsInjective(s) => IsInjective(Tail(s)) /\ Head(s) \notin ToSet(Tail(s))
<1> DEFINE t == Tail(s)
<1>1. /\ Len(s) \in Nat \ {0} /\ Head(s) = s[1] /\ Head(s) \in S
      /\ t \in Seq(S) /\ Len(t) = Len(s) - 1
      /\ \A i \in 1..Len(s) - 1 : t[i] = s[i + 1]
  OBVIOUS
<1> HIDE DEF t
<1>2. \A i \in 1..Len(s) : i = 1 \/ (i - 1 \in 1..Len(t) /\ s[i] = t[i - 1])
  BY <1>1
<1>3. /\ \A x : x \in ToSet(s) <=> \E i \in 1..Len(s) : s[i] = x
      /\ IsInjective(s) <=> \A i, j \in 1..Len(s) : s[i] = s[j] => i = j
  BY ElementsOf
<1>4. /\ \A x : x \in ToSet(t) <=> \E i \in 1..Len(t) : t[i] = x
      /\ IsInjective(t) <=> \A i, j \in 1..Len(t) : t[i] = t[j] => i = j
  BY <1>1, ElementsOf
<1>5. \A x : x \in ToSet(s) => x = s[1] \/ x \in ToSet(t)
  BY <1>2, <1>3, <1>4
<1>6. s[1] \in ToSet(s)
  BY <1>1, <1>3
<1>7. \A i \in 1..Len(t) : i + 1 \in 1..Len(s) /\ t[i] = s[i + 1]
  BY <1>1
<1>8. \A x : x \in ToSet(t) => x \in ToSet(s)
  BY <1>3, <1>4, <1>7
<1>9. ASSUME IsInjective(s) PROVE IsInjective(t) /\ s[1] \notin ToSet(t)
  <2>1. \A i, j \in 1..Len(s) : s[i] = s[j] => i = j
    BY <1>3, <1>9
  <2>2. ASSUME NEW i \in 1..Len(t), NEW j \in 1..Len(t), t[i] = t[j] PROVE i = j
    <3>1. i + 1 = j + 1
      BY <1>7, <2>1, <2>2
    <3> QED
      BY <3>1
  <2>3. ASSUME NEW i \in 1..Len(t) PROVE t[i] # s[1]
    <3>1. i + 1 # 1 /\ 1 \in 1..Len(s)
      BY <1>1
    <3> QED
      BY <1>7, <2>1, <3>1
  <2> QED
    BY <1>4, <2>2, <2>3
<1>10. ToSet(s) = {s[1]} \cup ToSet(t)
  BY <1>5, <1>6, <1>8
<1> QED
  BY <1>1, <1>6, <1>9, <1>10 DEF t

LEMMA Appended ==
    ASSUME NEW S, NEW s \in Seq(S), NEW e \in S
    PROVE  /\ Append(s, e) \in Seq(S) /\ Len(Append(s, e)) = Len(s) + 1
           /\ \A i \in 1..Len(s) : Append(s, e)[i] = s[i]
           /\ Append(s, e)[Len(s) + 1] = e
           /\ ToSet(Append(s, e)) = ToSet(s) \cup {e}
           /\ IsInjective(s) /\ e \notin ToSet(s) => IsInjective(Append(s, e))
<1> DEFINE t == Append(s, e)
<1>1. /\ t \in Seq(S) /\ Len(t) = Len(s) + 1 /\ Len(s) \in Nat
      /\ \A i \in 1..Len(s) : t[i] = s[i]
      /\ t[Len(s) + 1] = e
  OBVIOUS
<1> HIDE DEF t
<1>2. /\ \A x : x \in ToSet(s) <=> \E i \in 1..Len(s) : s[i] = x
      /\ IsInjective(s) <=> \A i, j \in 1..Len(s) : s[i] = s[j] => i = j
  BY ElementsOf
<1>3. /\ \A x : x \in ToSet(t) <=> \E i \in 1..Len(t) : t[i] = x
      /\ IsInjective(t) <=> \A i, j \in 1..Len(t) : t[i] = t[j] => i = j
  BY <1>1, ElementsOf
<1>4. \A i \in 1..Len(t) : i \in 1..Len(s) \/ i = Len(s) + 1
  BY <1>1
<1>5. \A x : x \in ToSet(t) => x \in ToSet(s) \/ x = e
  BY <1>1, <1>2, <1>3, <1>4
<1>6. /\ \A i \in 1..Len(s) : i \in 1..Len(t)
      /\ Len(s) + 1 \in 1..Len(t)
  BY <1>1
<1>7. \A x : x \in ToSet(s) \/ x = e => x \in ToSet(t)
  BY <1>1, <1>2, <1>3, <1>6
<1>8. ASSUME IsInjective(s), e \notin ToSet(s) PROVE IsInjective(t)
  <2>1. \A i, j \in 1..Len(s) : s[i] = s[j] => i = j
    BY <1>2, <1>8
  <2>2. \A i \in 1..Len(s) : s[i] # e
    BY <1>2, <1>8
  <2>3. ASSUME NEW i \in 1..Len(t), NEW j \in 1..Len(t), t[i] = t[j] PROVE i = j
    BY <1>1, <1>4, <2>1, <2>2, <2>3
  <2> QED
    BY <1>3, <2>3
<1> QED
  BY <1>1, <1>5, <1>7, <1>8 DEF t

LEMMA Concatenated ==
    ASSUME NEW S, NEW s \in Seq(S), NEW t \in Seq(S)
    PROVE  /\ s \o t \in Seq(S) /\ Len(s \o t) = Len(s) + Len(t)
           /\ \A i \in 1..Len(s) : (s \o t)[i] = s[i]
           /\ \A i \in 1..Len(t) : (s \o t)[Len(s) + i] = t[i]
           /\ \A i \in 1..Len(s \o t) : i \in 1..Len(s) \/ i - Len(s) \in 1..Len(t)
           /\ ToSet(s \o t) = ToSet(s) \cup ToSet(t)
           /\ IsInjective(s) /\ IsInjective(t) /\ ToSet(s) \cap ToSet(t) = {}
                => IsInjective(s \o t)
<1> DEFINE u == s \o t
<1>1. /\ u \in Seq(S) /\ Len(u) = Len(s) + Len(t) /\ Len(s) \in Nat /\ Len(t) \in Nat
      /\ \A i \in 1..Len(s) : u[i] = s[i]
      /\ \A i \in 1..Len(t) : u[Len(s) + i] = t[i]
      /\ \A i \in 1..Len(s) + Len(t) : i \in 1..Len(s) \/ i - Len(s) \in 1..Len(t)
  OBVIOUS
<1> HIDE DEF u
<1>2. /\ \A x : x \in ToSet(u) <=> \E i \in 1..Len(u) : u[i] = x
      /\ IsInjective(u) <=> \A i, j \in 1..Len(u) : u[i] = u[j] => i = j
  BY <1>1, ElementsOf
<1>3. /\ \A x : x \in ToSet(s) <=> \E i \in 1..Len(s) : s[i] = x
      /\ IsInjective(s) <=> \A i, j \in 1..Len(s) : s[i] = s[j] => i = j
  BY ElementsOf
<1>4. /\ \A x : x \in ToSet(t) <=> \E i \in 1..Len(t) : t[i] = x
      /\ IsInjective(t) <=> \A i, j \in 1..Len(t) : t[i] = t[j] => i = j
  BY ElementsOf
<1>5. \A i \in 1..Len(u) :
         \/ i \in 1..Len(s) /\ u[i] = s[i]
         \/ i - Len(s) \in 1..Len(t) /\ u[i] = t[i - Len(s)]
  <2>1. \A i \in 1..Len(u) : i \in 1..Len(s) \/ (i - Len(s) \in 1..Len(t) /\ Len(s) + (i - Len(s)) = i)
    BY <1>1
  <2> QED
    BY <1>1, <2>1
<1>6. ASSUME NEW x \in ToSet(u) PROVE x \in ToSet(s) \cup ToSet(t)
  <2>1. PICK i \in 1..Len(u) : u[i] = x
    BY <1>2
  <2>2. CASE i \in 1..Len(s) /\ u[i] = s[i]
    BY <1>3, <2>1, <2>2
  <2>3. CASE i - Len(s) \in 1..Len(t) /\ u[i] = t[i - Len(s)]
    BY <1>4, <2>1, <2>3
  <2> QED
    BY <1>5, <2>2, <2>3
<1>7. \A i \in 1..Len(s) : i \in 1..Len(u)
  BY <1>1
<1>8. \A x : x \in ToSet(s) => x \in ToSet(u)
  BY <1>1, <1>2, <1>3, <1>7
<1>9. \A i \in 1..Len(t) : Len(s) + i \in 1..Len(u)
  BY <1>1
<1>10. \A x : x \in ToSet(t) => x \in ToSet(u)
  BY <1>1, <1>2, <1>4, <1>9
<1>11. ASSUME IsInjective(s), IsInjective(t), ToSet(s) \cap ToSet(t) = {} PROVE IsInjective(u)
  <2>1. \A i \in 1..Len(s), j \in 1..Len(t) : s[i] # t[j]
    BY <1>3, <1>4, <1>11
  <2>2. ASSUME NEW i \in 1..Len(u), NEW j \in 1..Len(u), u[i] = u[j] PROVE i = j
    <3>1. CASE i \in 1..Len(s) /\ j \in 1..Len(s)
      BY <1>1, <1>3, <1>11, <2>2, <3>1
    <3>2. CASE i \notin 1..Len(s) /\ j \notin 1..Len(s)
      <4>1. i - Len(s) = j - Len(s)
        BY <1>4, <1>5, <1>11, <2>2, <3>2
      <4> QED
        BY <1>1, <4>1
    <3>3. CASE ~(i \in 1..Len(s) <=> j \in 1..Len(s))
      <4>1. CASE i \in 1..Len(s) /\ j - Len(s) \in 1..Len(t)
        BY <1>1, <1>5, <2>1, <2>2, <3>3, <4>1
      <4>2. CASE i - Len(s) \in 1..Len(t) /\ j \in 1..Len(s)
        BY <1>1, <1>5, <2>1, <2>2, <3>3, <4>2
      <4> QED
        BY <1>5, <3>3, <4>1, <4>2
    <3> QED
      BY <3>1, <3>2, <3>3
  <2> QED
    BY <1>2, <2>2
<1> QED
  BY <1>1, <1>6, <1>8, <1>10, <1>11 DEF u

LEMMA Reversed ==
    ASSUME NEW S, NEW s \in Seq(S)
    PROVE  /\ Reverse(s) \in Seq(S) /\ Len(Reverse(s)) = Len(s)
           /\ \A i \in 1..Len(s) : Reverse(s)[i] = s[Len(s) - i + 1]
           /\ ToSet(Reverse(s)) = ToSet(s)
           /\ IsInjective(s) => IsInjective(Reverse(s))
<1> DEFINE r == Reverse(s)
<1>1. /\ r \in Seq(S) /\ Len(r) = Len(s) /\ Len(s) \in Nat
      /\ \A i \in 1..Len(s) : r[i] = s[Len(s) - i + 1]
  BY DEF Reverse
<1> HIDE DEF r
<1>2. \A i \in 1..Len(s) : Len(s) - i + 1 \in 1..Len(s) /\ Len(s) - (Len(s) - i + 1) + 1 = i
  BY <1>1
<1>3. /\ \A x : x \in ToSet(s) <=> \E i \in 1..Len(s) : s[i] = x
      /\ IsInjective(s) <=> \A i, j \in 1..Len(s) : s[i] = s[j] => i = j
  BY ElementsOf
<1>4. /\ \A x : x \in ToSet(r) <=> \E i \in 1..Len(s) : r[i] = x
      /\ IsInjective(r) <=> \A i, j \in 1..Len(s) : r[i] = r[j] => i = j
  BY <1>1, ElementsOf
<1>5. ASSUME NEW i \in 1..Len(s) PROVE \E j \in 1..Len(s) : r[j] = s[i]
  <2>1. r[Len(s) - i + 1] = s[Len(s) - (Len(s) - i + 1) + 1]
    BY <1>1, <1>2
  <2> QED
    BY <1>2, <2>1
<1>6. ToSet(r) = ToSet(s)
  <2>1. \A x : x \in ToSet(s) => x \in ToSet(r)
    BY <1>3, <1>4, <1>5
  <2>2. \A x : x \in ToSet(r) => x \in ToSet(s)
    BY <1>1, <1>2, <1>3, <1>4
  <2> QED
    BY <2>1, <2>2
<1>7. ASSUME IsInjective(s) PROVE IsInjective(r)
  <2>1. ASSUME NEW i \in 1..Len(s), NEW j \in 1..Len(s), r[i] = r[j] PROVE i = j
    <3>1. s[Len(s) - i + 1] = s[Len(s) - j + 1]
      BY <1>1, <2>1
    <3>2. \A a, b \in 1..Len(s) : s[a] = s[b] => a = b
      BY <1>3, <1>7
    <3>3. Len(s) - i + 1 = Len(s) - j + 1
      BY <1>2, <3>1, <3>2
    <3> QED
      BY <1>1, <3>3
  <2> QED
    BY <1>4, <2>1
<1> QED
  BY <1>1, <1>6, <1>7 DEF r

(* The first n of a sequence, and all of it. *)
LEMMA Prefix ==
    ASSUME NEW S, NEW s \in Seq(S), NEW n \in 0..Len(s)
    PROVE  /\ SubSeq(s, 1, n) \in Seq(S) /\ Len(SubSeq(s, 1, n)) = n
           /\ \A i \in 1..n : SubSeq(s, 1, n)[i] = s[i]
           /\ n = Len(s) => SubSeq(s, 1, n) = s
           /\ n = 0 => SubSeq(s, 1, n) = <<>>
<1>1. n \in Nat /\ Len(s) \in Nat /\ n <= Len(s)
  OBVIOUS
<1>2. \A i \in 1..n : s[i] \in S
  BY <1>1
<1>3. /\ SubSeq(s, 1, n) \in Seq(S)
      /\ Len(SubSeq(s, 1, n)) = IF 1 <= n THEN n - 1 + 1 ELSE 0
      /\ \A i \in 1..n - 1 + 1 : SubSeq(s, 1, n)[i] = s[1 + i - 1]
  BY <1>1, <1>2, SubSeqProperties
<1>4. n = Len(s) => SubSeq(s, 1, n) = s
  BY <1>1, SubSeqFull
<1>5. n = 0 => SubSeq(s, 1, n) = <<>>
  BY <1>1, SubSeqEmpty
<1> QED
  BY <1>1, <1>3, <1>4, <1>5

(* What follows the first n. *)
LEMMA Suffix ==
    ASSUME NEW S, NEW s \in Seq(S), NEW n \in 0..Len(s)
    PROVE  /\ SubSeq(s, n + 1, Len(s)) \in Seq(S)
           /\ Len(SubSeq(s, n + 1, Len(s))) = Len(s) - n
           /\ \A i \in 1..Len(s) - n : SubSeq(s, n + 1, Len(s))[i] = s[i + n]
           /\ n = Len(s) => SubSeq(s, n + 1, Len(s)) = <<>>
           /\ n = 0 => SubSeq(s, n + 1, Len(s)) = s
<1>1. n \in Nat /\ Len(s) \in Nat /\ n <= Len(s)
  OBVIOUS
<1>2. \A i \in n + 1..Len(s) : s[i] \in S
  BY <1>1
<1>3. /\ SubSeq(s, n + 1, Len(s)) \in Seq(S)
      /\ Len(SubSeq(s, n + 1, Len(s))) = IF n + 1 <= Len(s) THEN Len(s) - (n + 1) + 1 ELSE 0
      /\ \A i \in 1..Len(s) - (n + 1) + 1 : SubSeq(s, n + 1, Len(s))[i] = s[n + 1 + i - 1]
  BY <1>1, <1>2, SubSeqProperties
<1>4. Len(SubSeq(s, n + 1, Len(s))) = Len(s) - n
  BY <1>1, <1>3
<1>5. n = Len(s) => SubSeq(s, n + 1, Len(s)) = <<>>
  BY <1>1, SubSeqEmpty
<1>6. n = 0 => SubSeq(s, n + 1, Len(s)) = s
  BY <1>1, SubSeqFull
<1> QED
  BY <1>1, <1>3, <1>4, <1>5, <1>6

(* A sequence cut in two. *)
LEMMA Cut ==
    ASSUME NEW S, NEW s \in Seq(S), NEW n \in 0..Len(s)
    PROVE  /\ ToSet(s) = ToSet(SubSeq(s, 1, n)) \cup ToSet(SubSeq(s, n + 1, Len(s)))
           /\ IsInjective(s) =>
                /\ IsInjective(SubSeq(s, 1, n)) /\ IsInjective(SubSeq(s, n + 1, Len(s)))
                /\ ToSet(SubSeq(s, 1, n)) \cap ToSet(SubSeq(s, n + 1, Len(s))) = {}
<1> DEFINE f == SubSeq(s, 1, n)
<1> DEFINE r == SubSeq(s, n + 1, Len(s))
<1>1. f \in Seq(S) /\ Len(f) = n /\ \A i \in 1..n : f[i] = s[i]
  BY Prefix
<1>2. r \in Seq(S) /\ Len(r) = Len(s) - n /\ \A i \in 1..Len(s) - n : r[i] = s[i + n]
  BY Suffix
<1> HIDE DEF f, r
<1>3. n \in Nat /\ Len(s) \in Nat /\ n <= Len(s)
  OBVIOUS
<1>4. /\ \A x : x \in ToSet(s) <=> \E i \in 1..Len(s) : s[i] = x
      /\ IsInjective(s) <=> \A i, j \in 1..Len(s) : s[i] = s[j] => i = j
  BY ElementsOf
<1>5. /\ \A x : x \in ToSet(f) <=> \E i \in 1..Len(f) : f[i] = x
      /\ IsInjective(f) <=> \A i, j \in 1..Len(f) : f[i] = f[j] => i = j
  BY <1>1, ElementsOf
<1>6. /\ \A x : x \in ToSet(r) <=> \E i \in 1..Len(r) : r[i] = x
      /\ IsInjective(r) <=> \A i, j \in 1..Len(r) : r[i] = r[j] => i = j
  BY <1>2, ElementsOf
<1>7. \A i \in 1..Len(s) - n : i + n \in 1..Len(s) /\ i + n \notin 1..n /\ i + n - n = i
  BY <1>3
<1>8. \A i \in 1..n : i \in 1..Len(s)
  BY <1>3
<1>9. \A i \in 1..Len(s) : i \in 1..n \/ (i - n \in 1..Len(s) - n /\ i - n + n = i)
  BY <1>3
<1>10. \A x : x \in ToSet(f) \/ x \in ToSet(r) => x \in ToSet(s)
  BY <1>1, <1>2, <1>4, <1>5, <1>6, <1>7, <1>8
<1>11. \A x : x \in ToSet(s) => x \in ToSet(f) \/ x \in ToSet(r)
  <2>1. ASSUME NEW i \in 1..Len(s) PROVE s[i] \in ToSet(f) \/ s[i] \in ToSet(r)
    <3>1. CASE i \in 1..n
      BY <1>1, <1>5, <3>1
    <3>2. CASE i - n \in 1..Len(s) - n /\ i - n + n = i
      BY <1>2, <1>6, <3>2
    <3> QED
      BY <1>9, <3>1, <3>2
  <2> QED
    BY <1>4, <2>1
<1>12. ASSUME IsInjective(s) PROVE IsInjective(f) /\ IsInjective(r) /\ ToSet(f) \cap ToSet(r) = {}
  <2>1. \A i, j \in 1..Len(s) : s[i] = s[j] => i = j
    BY <1>4, <1>12
  <2>2. IsInjective(f)
    BY <1>1, <1>5, <1>8, <2>1
  <2>3. ASSUME NEW i \in 1..Len(s) - n, NEW j \in 1..Len(s) - n, r[i] = r[j] PROVE i = j
    <3>1. i + n = j + n
      BY <1>2, <1>7, <2>1, <2>3
    <3> QED
      BY <1>7, <3>1
  <2>4. ASSUME NEW i \in 1..n, NEW j \in 1..Len(s) - n PROVE f[i] # r[j]
    BY <1>1, <1>2, <1>7, <1>8, <2>1
  <2>5. IsInjective(r)
    BY <1>2, <1>6, <2>3
  <2>6. ToSet(f) \cap ToSet(r) = {}
    BY <1>1, <1>2, <1>5, <1>6, <2>4
  <2> QED
    BY <2>2, <2>5, <2>6
<1> QED
  BY <1>10, <1>11, <1>12 DEF f, r

(* A set of places that holds with a place all before it is the first ones. *)
LEMMA FirstOnes ==
    ASSUME NEW n \in Nat, NEW E \in SUBSET (1..n),
           \A i, j \in 1..n : i < j /\ j \in E => i \in E
    PROVE  /\ Cardinality(E) \in 0..n
           /\ E = 1..Cardinality(E)
<1>1. IsFiniteSet(1..n) /\ Cardinality(1..n) = n
  BY FS_Interval
<1>2. IsFiniteSet(E) /\ Cardinality(E) \in Nat /\ Cardinality(E) <= n
  BY <1>1, FS_Subset, FS_CardinalityType
<1>3. ASSUME NEW i \in E PROVE i <= Cardinality(E)
  <2>1. 1..i \subseteq E
    BY <1>3
  <2>2. IsFiniteSet(1..i) /\ Cardinality(1..i) = i
    BY <1>3, FS_Interval
  <2> QED
    BY <1>2, <2>1, <2>2, FS_Subset
<1>4. ASSUME NEW i \in 1..n, i \notin E PROVE Cardinality(E) < i
  <2>1. E \subseteq 1..(i - 1)
    BY <1>4
  <2>2. IsFiniteSet(1..(i - 1)) /\ Cardinality(1..(i - 1)) = i - 1
    BY <1>4, FS_Interval
  <2>3. Cardinality(E) <= Cardinality(1..(i - 1))
    BY <2>1, <2>2, FS_Subset
  <2> QED
    BY <1>2, <2>2, <2>3
<1>5. \A i \in 1..n : i \in E <=> i <= Cardinality(E)
  BY <1>2, <1>3, <1>4
<1>6. E = {i \in 1..n : i <= Cardinality(E)}
  BY <1>5
<1>7. {i \in 1..n : i <= Cardinality(E)} = 1..Cardinality(E)
  BY <1>2
<1> QED
  BY <1>2, <1>6, <1>7

(* Every rank is the rank of one of the places. *)
LEMMA Ranked ==
    ASSUME NEW n \in Nat, NEW places \in SUBSET (1..n), NEW k \in 1..Cardinality(places)
    PROVE  \E i \in places : Cardinality(places \cap (1..i)) = k
<1> DEFINE below(i) == places \cap (1..i)
<1> DEFINE rank == [i \in places |-> Cardinality(below(i))]
<1> DEFINE all == 1..Cardinality(places)
<1>1. IsFiniteSet(places) /\ Cardinality(places) \in Nat
  <2>1. IsFiniteSet(1..n)
    BY FS_Interval
  <2> QED
    BY <2>1, FS_Subset, FS_CardinalityType
<1>2. IsFiniteSet(all) /\ Cardinality(all) = Cardinality(places)
  BY <1>1, FS_Interval
<1>3. \A i \in places :
         /\ IsFiniteSet(below(i)) /\ Cardinality(below(i)) \in Nat
         /\ Cardinality(below(i)) <= Cardinality(places)
         /\ i \in below(i) /\ below(i) # {}
  BY <1>1, FS_Subset, FS_CardinalityType
<1>4. \A i \in places : Cardinality(below(i)) \in all
  <2> SUFFICES ASSUME NEW i \in places PROVE Cardinality(below(i)) \in all
    OBVIOUS
  <2>1. Cardinality(below(i)) # 0
    BY <1>3, FS_EmptySet
  <2> HIDE DEF below
  <2> QED
    BY <1>1, <1>3, <2>1
<1>5. ASSUME NEW i \in places, NEW j \in places, i < j
      PROVE  Cardinality(below(i)) # Cardinality(below(j))
  <2>1. below(i) \subseteq below(j) /\ j \in below(j) /\ j \notin below(i)
    BY <1>5
  <2>2. below(i) # below(j)
    BY <2>1
  <2> HIDE DEF below
  <2> QED
    BY <1>3, <2>1, <2>2, FS_Subset
<1> HIDE DEF below, all
<1>6. rank \in [places -> all]
  BY <1>4
<1>7. \A i, j \in places : rank[i] = rank[j] => i = j
  <2>1. \A i, j \in places : i \in Int /\ j \in Int
    OBVIOUS
  <2>2. \A i, j \in places : i # j => i < j \/ j < i
    BY <2>1
  <2> QED
    BY <1>5, <2>2
<1>8. rank \in Injection(places, all)
  BY <1>6, <1>7 DEF Injection, IsInjective
<1>9. rank \in Surjection(places, all)
  BY <1>2, <1>8, FS_Injection
<1>10. \A m \in all : \E i \in places : rank[i] = m
  BY <1>9 DEF Surjection
<1> QED
  BY <1>10 DEF all, below

(* The places in a sequence that has lost its first element. *)
LEMMA ShiftedPlaces ==
    ASSUME NEW n \in Nat \ {0}, NEW E \in SUBSET (1..n), NEW F \in SUBSET (1..(n - 1)),
           \A i \in 1..(n - 1) : i \in F <=> i + 1 \in E
    PROVE  /\ Cardinality(F) \in Nat
           /\ Cardinality(E) = (IF 1 \in E THEN 1 ELSE 0) + Cardinality(F)
<1>1. IsFiniteSet(E) /\ IsFiniteSet(F) /\ Cardinality(E) \in Nat /\ Cardinality(F) \in Nat
  <2>1. IsFiniteSet(1..n) /\ IsFiniteSet(1..(n - 1))
    BY FS_Interval
  <2> QED
    BY <2>1, FS_Subset, FS_CardinalityType
<1> DEFINE rest == E \ {1}
<1> DEFINE shift == [i \in F |-> i + 1]
<1>2. /\ IsFiniteSet(rest)
      /\ Cardinality(rest) = IF 1 \in E THEN Cardinality(E) - 1 ELSE Cardinality(E)
  BY <1>1, FS_RemoveElement
<1>3. \A i \in rest : i - 1 \in F /\ i - 1 + 1 = i
  <2>1. \A i \in rest : i - 1 \in 1..(n - 1) /\ i - 1 + 1 = i /\ i \in E
    OBVIOUS
  <2> QED
    BY <2>1
<1>4. \A i \in F : i + 1 \in rest /\ i \in Int
  <2>1. \A i \in F : i \in 1..(n - 1) /\ i + 1 # 1
    OBVIOUS
  <2> QED
    BY <2>1
<1> HIDE DEF rest
<1>5. shift \in [F -> rest]
  BY <1>4
<1>6. \A i, j \in F : shift[i] = shift[j] => i = j
  BY <1>4
<1>7. \A i \in rest : \E j \in F : shift[j] = i
  BY <1>3
<1>8. shift \in Bijection(F, rest)
  BY <1>5, <1>6, <1>7 DEF Bijection, Injection, Surjection, IsInjective
<1>9. Cardinality(rest) = Cardinality(F)
  BY <1>1, <1>8, FS_Bijection DEF ExistsBijection
<1> QED
  BY <1>1, <1>2, <1>9

(* The places in a sequence that has gained a last element. *)
LEMMA AddedPlace ==
    ASSUME NEW n \in Nat, NEW E \in SUBSET (1..n), NEW F \in SUBSET (1..(n + 1)),
           \A i \in 1..n : i \in F <=> i \in E
    PROVE  /\ Cardinality(E) \in Nat
           /\ Cardinality(F) = Cardinality(E) + (IF n + 1 \in F THEN 1 ELSE 0)
<1>1. IsFiniteSet(E) /\ Cardinality(E) \in Nat
  <2>1. IsFiniteSet(1..n)
    BY FS_Interval
  <2> QED
    BY <2>1, FS_Subset, FS_CardinalityType
<1>2. n + 1 \notin E
  OBVIOUS
<1>3. \A i \in F : i \in 1..n \/ i = n + 1
  OBVIOUS
<1>4. CASE n + 1 \in F
  <2>1. F = E \cup {n + 1}
    BY <1>3, <1>4
  <2> QED
    BY <1>1, <1>2, <1>4, <2>1, FS_AddElement
<1>5. CASE n + 1 \notin F
  <2>1. F = E
    BY <1>3, <1>5
  <2> QED
    BY <1>1, <1>5, <2>1
<1> QED
  BY <1>4, <1>5

-----------------------------------------------------------------------------
(* How many elements of a sequence are of some kind. *)

Counted(s, Kind) == Cardinality({i \in 1..Len(s) : s[i] \in Kind})

LEMMA CountedAppend ==
    ASSUME NEW S, NEW s \in Seq(S), NEW e \in S, NEW Kind
    PROVE  /\ Counted(s, Kind) \in Nat
           /\ Counted(Append(s, e), Kind) = Counted(s, Kind) + (IF e \in Kind THEN 1 ELSE 0)
<1> DEFINE more == Append(s, e)
<1> DEFINE E == {i \in 1..Len(s) : s[i] \in Kind}
<1> DEFINE F == {i \in 1..Len(more) : more[i] \in Kind}
<1>1. /\ Len(s) \in Nat /\ Len(more) = Len(s) + 1 /\ more[Len(s) + 1] = e
      /\ \A i \in 1..Len(s) : more[i] = s[i]
  BY Appended
<1>2. Counted(s, Kind) = Cardinality(E) /\ Counted(more, Kind) = Cardinality(F)
  BY DEF Counted
<1> HIDE DEF more
<1>3. E \in SUBSET (1..Len(s)) /\ F \in SUBSET (1..(Len(s) + 1))
  BY <1>1
<1>4. \A i \in 1..Len(s) : i \in F <=> i \in E
  BY <1>1
<1>5. Len(s) + 1 \in F <=> e \in Kind
  BY <1>1
<1> HIDE DEF E, F
<1>6. Cardinality(E) \in Nat /\ Cardinality(F) = Cardinality(E) + (IF Len(s) + 1 \in F THEN 1 ELSE 0)
  BY <1>1, <1>3, <1>4, AddedPlace
<1> QED
  BY <1>2, <1>5, <1>6 DEF more

LEMMA CountedTail ==
    ASSUME NEW S, NEW s \in Seq(S), s # <<>>, NEW Kind
    PROVE  /\ Counted(Tail(s), Kind) \in Nat
           /\ Counted(s, Kind) = (IF Head(s) \in Kind THEN 1 ELSE 0) + Counted(Tail(s), Kind)
<1> DEFINE rest == Tail(s)
<1> DEFINE E == {i \in 1..Len(s) : s[i] \in Kind}
<1> DEFINE F == {i \in 1..Len(rest) : rest[i] \in Kind}
<1>1. /\ Len(s) \in Nat \ {0} /\ Len(rest) = Len(s) - 1 /\ Head(s) = s[1]
      /\ \A i \in 1..Len(s) - 1 : rest[i] = s[i + 1]
  BY FirstAndRest
<1>2. Counted(s, Kind) = Cardinality(E) /\ Counted(rest, Kind) = Cardinality(F)
  BY DEF Counted
<1> HIDE DEF rest
<1>3. E \in SUBSET (1..Len(s)) /\ F \in SUBSET (1..(Len(s) - 1))
  BY <1>1
<1>4. \A i \in 1..(Len(s) - 1) : i \in F <=> i + 1 \in E
  BY <1>1
<1>5. 1 \in E <=> Head(s) \in Kind
  BY <1>1
<1> HIDE DEF E, F
<1>6. Cardinality(F) \in Nat /\ Cardinality(E) = (IF 1 \in E THEN 1 ELSE 0) + Cardinality(F)
  BY <1>1, <1>3, <1>4, ShiftedPlaces
<1> QED
  BY <1>2, <1>5, <1>6 DEF rest

LEMMA CountedNone ==
    ASSUME NEW S, NEW s \in Seq(S), NEW Kind
    PROVE  /\ Counted(s, Kind) \in Nat
           /\ Counted(s, Kind) = 0 <=> \A i \in 1..Len(s) : s[i] \notin Kind
<1> DEFINE E == {i \in 1..Len(s) : s[i] \in Kind}
<1>1. IsFiniteSet(1..Len(s))
  BY FS_Interval
<1>2. IsFiniteSet(E)
  BY <1>1, FS_Subset
<1>3. Counted(s, Kind) \in Nat /\ (Counted(s, Kind) = 0 <=> E = {})
  BY <1>2, FS_EmptySet, FS_CardinalityType DEF Counted
<1> QED
  BY <1>3

-----------------------------------------------------------------------------
(* What the elements of a sequence contribute to a set. *)

Gathered(s, Of) == UNION {Of[s[i]] : i \in 1..Len(s)}
Scattered(s, Of) == \A i, j \in 1..Len(s) : i # j => Of[s[i]] \cap Of[s[j]] = {}

LEMMA GatheredAppend ==
    ASSUME NEW S, NEW s \in Seq(S), NEW e \in S, NEW Of
    PROVE  /\ Gathered(Append(s, e), Of) = Gathered(s, Of) \cup Of[e]
           /\ Scattered(s, Of) /\ Of[e] \cap Gathered(s, Of) = {} => Scattered(Append(s, e), Of)
<1> DEFINE more == Append(s, e)
<1>1. /\ Len(s) \in Nat /\ Len(more) = Len(s) + 1 /\ more[Len(s) + 1] = e
      /\ \A i \in 1..Len(s) : more[i] = s[i]
  BY Appended
<1> HIDE DEF more
<1>2. \A i \in 1..Len(more) : (i \in 1..Len(s) /\ more[i] = s[i]) \/ (i = Len(s) + 1 /\ more[i] = e)
  <2>1. \A i \in 1..(Len(s) + 1) : i \in 1..Len(s) \/ i = Len(s) + 1
    BY <1>1
  <2> QED
    BY <1>1, <2>1
<1>3. \A i \in 1..Len(s) : i \in 1..Len(more)
  BY <1>1
<1>4. Len(s) + 1 \in 1..Len(more)
  BY <1>1
<1>5. \A x : x \in Gathered(more, Of) <=> \E i \in 1..Len(more) : x \in Of[more[i]]
  BY DEF Gathered
<1>6. \A x : x \in Gathered(s, Of) <=> \E i \in 1..Len(s) : x \in Of[s[i]]
  BY DEF Gathered
<1>7. \A x : x \in Gathered(more, Of) => x \in Gathered(s, Of) \cup Of[e]
  BY <1>2, <1>5, <1>6
<1>8. \A x : x \in Gathered(s, Of) \cup Of[e] => x \in Gathered(more, Of)
  BY <1>1, <1>3, <1>4, <1>5, <1>6
<1>9. ASSUME Scattered(s, Of), Of[e] \cap Gathered(s, Of) = {} PROVE Scattered(more, Of)
  <2> SUFFICES ASSUME NEW i \in 1..Len(more), NEW j \in 1..Len(more), i # j
               PROVE  Of[more[i]] \cap Of[more[j]] = {}
    BY DEF Scattered
  <2>1. \A k \in 1..Len(s) : Of[e] \cap Of[s[k]] = {}
    BY <1>6, <1>9
  <2>2. CASE i \in 1..Len(s) /\ j \in 1..Len(s)
    BY <1>1, <1>9, <2>2 DEF Scattered
  <2>3. CASE i \in 1..Len(s) /\ j = Len(s) + 1
    <3>1. more[i] = s[i] /\ more[j] = e
      BY <1>1, <2>3
    <3> QED
      BY <2>1, <2>3, <3>1
  <2>4. CASE i = Len(s) + 1 /\ j \in 1..Len(s)
    <3>1. more[i] = e /\ more[j] = s[j]
      BY <1>1, <2>4
    <3> QED
      BY <2>1, <2>4, <3>1
  <2> QED
    BY <1>2, <2>2, <2>3, <2>4
<1> QED
  BY <1>7, <1>8, <1>9 DEF more

LEMMA GatheredTail ==
    ASSUME NEW S, NEW s \in Seq(S), s # <<>>, NEW Of
    PROVE  /\ Gathered(s, Of) = Of[Head(s)] \cup Gathered(Tail(s), Of)
           /\ Scattered(s, Of) => Scattered(Tail(s), Of) /\ Of[Head(s)] \cap Gathered(Tail(s), Of) = {}
<1> DEFINE first == Head(s)
<1> DEFINE rest == Tail(s)
<1>1. /\ Len(s) \in Nat \ {0} /\ Len(rest) = Len(s) - 1 /\ first = s[1]
      /\ \A i \in 1..Len(s) - 1 : rest[i] = s[i + 1]
  BY FirstAndRest
<1> HIDE DEF first, rest
<1>2. \A i \in 1..Len(rest) : i + 1 \in 1..Len(s) /\ rest[i] = s[i + 1] /\ i + 1 # 1
  BY <1>1
<1>3. \A i \in 1..Len(s) : i = 1 \/ (i - 1 \in 1..Len(rest) /\ rest[i - 1] = s[i])
  <2> SUFFICES ASSUME NEW i \in 1..Len(s), i # 1 PROVE i - 1 \in 1..Len(rest) /\ rest[i - 1] = s[i]
    OBVIOUS
  <2>1. i - 1 \in 1..Len(s) - 1 /\ i - 1 + 1 = i
    BY <1>1
  <2> QED
    BY <1>1, <2>1
<1>4. 1 \in 1..Len(s)
  BY <1>1
<1>5. \A x : x \in Gathered(s, Of) <=> \E i \in 1..Len(s) : x \in Of[s[i]]
  BY DEF Gathered
<1>6. \A x : x \in Gathered(rest, Of) <=> \E i \in 1..Len(rest) : x \in Of[rest[i]]
  BY DEF Gathered
<1>7. \A x : x \in Gathered(s, Of) => x \in Of[first] \cup Gathered(rest, Of)
  BY <1>1, <1>3, <1>5, <1>6
<1>8. \A x : x \in Of[first] \cup Gathered(rest, Of) => x \in Gathered(s, Of)
  BY <1>1, <1>2, <1>4, <1>5, <1>6
<1>9. ASSUME Scattered(s, Of)
      PROVE  Scattered(rest, Of) /\ Of[first] \cap Gathered(rest, Of) = {}
  <2>1. \A i, j \in 1..Len(rest) : i # j => Of[rest[i]] \cap Of[rest[j]] = {}
    <3> SUFFICES ASSUME NEW i \in 1..Len(rest), NEW j \in 1..Len(rest), i # j
                 PROVE  Of[rest[i]] \cap Of[rest[j]] = {}
      OBVIOUS
    <3>1. i + 1 # j + 1
      OBVIOUS
    <3> QED
      BY <1>2, <1>9, <3>1 DEF Scattered
  <2>2. \A i \in 1..Len(rest) : Of[first] \cap Of[rest[i]] = {}
    <3> SUFFICES ASSUME NEW i \in 1..Len(rest) PROVE Of[first] \cap Of[rest[i]] = {}
      OBVIOUS
    <3>1. i + 1 \in 1..Len(s) /\ rest[i] = s[i + 1] /\ 1 # i + 1
      BY <1>2
    <3> QED
      BY <1>1, <1>4, <1>9, <3>1 DEF Scattered
  <2> QED
    BY <1>6, <2>1, <2>2 DEF Scattered
<1> QED
  BY <1>7, <1>8, <1>9 DEF first, rest

=============================================================================
