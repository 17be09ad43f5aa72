----------------------------- MODULE ListFacts ------------------------------
(***************************************************************************)
(* Facts about lists and natural numbers that the proofs share: what the   *)
(* elements of a list are, when they are distinct, and what consing,       *)
(* dropping the first element and filtering do to them.                    *)
(***************************************************************************)
EXTENDS Naturals, Sequences, SequencesExt, WellFoundedInduction, TLAPS

(* Induction, for a set of numbers: the least number outside it would have *)
(* a predecessor inside.                                                   *)
LEMMA AllNumbers ==
  ASSUME NEW T \in SUBSET Nat, 0 \in T, \A n \in T : n + 1 \in T
  PROVE  T = Nat
<1> DEFINE Rest == Nat \ T
<1> SUFFICES ASSUME Rest # {} PROVE FALSE
  OBVIOUS
<1>1. PICK x \in Rest : \A y \in Rest : ~ (<<y, x>> \in OpToRel(<, Nat))
  BY NatLessThanWellFounded, WFMin
<1>2. \A y \in Rest : ~(y < x)
  BY <1>1 DEF OpToRel
<1>3. x - 1 \in T /\ (x - 1) + 1 = x
  BY <1>2
<1>4. QED
  BY <1>3

(* The elements of a list, in terms of its indices.                        *)
LEMMA InList ==
  ASSUME NEW S, NEW s \in Seq(S)
  PROVE  /\ ToSet(s) \subseteq S
         /\ \A j : j \in ToSet(s) <=> \E i \in 1 .. Len(s) : s[i] = j
         /\ \A j : j \in ToSet(s) <=> Contains(s, j)
         /\ IsInjective(s) <=> \A i, k \in 1 .. Len(s) : s[i] = s[k] => i = k
BY DEF ToSet, Contains, IsInjective

(* The empty list.                                                         *)
LEMMA NoList == ToSet(<<>>) = {} /\ IsInjective(<<>>)
BY DEF ToSet, IsInjective

(* A new element in front of a list.                                       *)
LEMMA ConsList ==
  ASSUME NEW S, NEW s \in Seq(S), NEW j \in S
  PROVE  /\ <<j>> \o s \in Seq(S)
         /\ ToSet(<<j>> \o s) = ToSet(s) \cup {j}
         /\ IsInjective(s) /\ j \notin ToSet(s) => IsInjective(<<j>> \o s)
<1> DEFINE p == <<j>> \o s
<1>1. p \in Seq(S) /\ Len(p) = Len(s) + 1 /\ Len(s) \in Nat
  OBVIOUS
<1>2. p[1] = j /\ \A i \in 2 .. Len(p) : i - 1 \in 1 .. Len(s) /\ p[i] = s[i - 1]
  OBVIOUS
<1>3. \A i \in 1 .. Len(s) : i + 1 \in 1 .. Len(p) /\ p[i + 1] = s[i]
  OBVIOUS
<1> HIDE DEF p
<1>4. ASSUME IsInjective(s), j \notin ToSet(s) PROVE IsInjective(p)
  <2>1. \A i, k \in 1 .. Len(s) : s[i] = s[k] => i = k
    BY <1>4, InList
  <2>2. \A i \in 1 .. Len(s) : s[i] # j
    BY <1>4, InList
  <2>3. ASSUME NEW i \in 1 .. Len(p), NEW k \in 1 .. Len(p), p[i] = p[k]
        PROVE  i = k
    <3>1. CASE i = 1 \/ k = 1
      BY <1>1, <1>2, <2>2, <2>3, <3>1
    <3>2. CASE i # 1 /\ k # 1
      <4>1. i \in 2 .. Len(p) /\ k \in 2 .. Len(p)
        BY <1>1, <3>2
      <4>2. s[i - 1] = s[k - 1] /\ i - 1 \in 1 .. Len(s) /\ k - 1 \in 1 .. Len(s)
        BY <1>2, <2>3, <4>1
      <4>3. i - 1 = k - 1
        BY <2>1, <4>2
      <4>4. QED
        BY <4>1, <4>3
    <3>3. QED
      BY <3>1, <3>2
  <2>4. QED
    BY <1>1, <2>3, InList
<1>5. \A x : x \in ToSet(p) <=> x \in ToSet(s) \cup {j}
  <2>1. \A x : x \in ToSet(p) <=> \E i \in 1 .. Len(p) : p[i] = x
    BY <1>1, InList
  <2>2. \A x : x \in ToSet(s) <=> \E i \in 1 .. Len(s) : s[i] = x
    BY InList
  <2>3. ASSUME NEW i \in 1 .. Len(p) PROVE p[i] \in ToSet(s) \cup {j}
    <3>1. CASE i = 1
      BY <1>2, <3>1
    <3>2. CASE i \in 2 .. Len(p)
      BY <1>2, <2>2, <3>2
    <3>3. QED
      BY <1>1, <3>1, <3>2
  <2>4. j \in ToSet(p)
    BY <1>1, <1>2, <2>1
  <2>5. \A i \in 1 .. Len(s) : s[i] \in ToSet(p)
    BY <1>3, <2>1
  <2>6. QED
    BY <2>1, <2>2, <2>3, <2>4, <2>5
<1>6. QED
  BY <1>1, <1>4, <1>5 DEF p

(* A new element at the end of a list.                                     *)
LEMMA AppendList ==
  ASSUME NEW S, NEW s \in Seq(S), NEW j \in S
  PROVE  /\ Append(s, j) \in Seq(S)
         /\ ToSet(Append(s, j)) = ToSet(s) \cup {j}
         /\ IsInjective(s) /\ j \notin ToSet(s) => IsInjective(Append(s, j))
<1> DEFINE p == Append(s, j)
<1>1. p \in Seq(S) /\ Len(p) = Len(s) + 1 /\ Len(s) \in Nat
  OBVIOUS
<1>2. p[Len(s) + 1] = j /\ \A i \in 1 .. Len(s) : p[i] = s[i]
  OBVIOUS
<1>3. \A i \in 1 .. Len(p) : i = Len(s) + 1 \/ i \in 1 .. Len(s)
  BY <1>1
<1>4. Len(s) + 1 \in 1 .. Len(p) /\ \A i \in 1 .. Len(s) : i \in 1 .. Len(p)
  BY <1>1
<1> HIDE DEF p
<1>5. ASSUME IsInjective(s), j \notin ToSet(s) PROVE IsInjective(p)
  <2>1. \A i, k \in 1 .. Len(s) : s[i] = s[k] => i = k
    BY <1>5, InList
  <2>2. \A i \in 1 .. Len(s) : s[i] # j
    BY <1>5, InList
  <2>3. \A i, k \in 1 .. Len(p) : p[i] = p[k] => i = k
    BY <1>2, <1>3, <2>1, <2>2
  <2>4. QED
    BY <1>1, <2>3, InList
<1>6. \A x : x \in ToSet(p) <=> x \in ToSet(s) \cup {j}
  <2>1. \A x : x \in ToSet(p) <=> \E i \in 1 .. Len(p) : p[i] = x
    BY <1>1, InList
  <2>2. \A x : x \in ToSet(s) <=> \E i \in 1 .. Len(s) : s[i] = x
    BY InList
  <2>3. QED
    BY <1>2, <1>3, <1>4, <2>1, <2>2
<1>7. QED
  BY <1>1, <1>5, <1>6 DEF p

(* The rest of a list.                                                     *)
LEMMA CdrList ==
  ASSUME NEW S, NEW s \in Seq(S), s # <<>>
  PROVE  /\ Tail(s) \in Seq(S) /\ Len(Tail(s)) = Len(s) - 1
         /\ Len(s) \in Nat \ {0}
         /\ Head(s) \in S /\ Head(s) = s[1]
         /\ \A i \in 1 .. Len(s) - 1 : Tail(s)[i] = s[i + 1]
         /\ IsInjective(s) => IsInjective(Tail(s))
                              /\ ToSet(Tail(s)) = ToSet(s) \ {Head(s)}
<1> DEFINE r == Tail(s)
<1>1. /\ r \in Seq(S) /\ Len(r) = Len(s) - 1
      /\ Len(s) \in Nat \ {0}
      /\ Head(s) \in S /\ Head(s) = s[1]
      /\ \A i \in 1 .. Len(s) - 1 : r[i] = s[i + 1]
  OBVIOUS
<1> HIDE DEF r
<1>2. ASSUME IsInjective(s)
      PROVE  IsInjective(r) /\ ToSet(r) = ToSet(s) \ {Head(s)}
  <2>1. \A i, k \in 1 .. Len(s) : s[i] = s[k] => i = k
    BY <1>2, InList
  <2>2. ASSUME NEW i \in 1 .. Len(s) - 1, NEW k \in 1 .. Len(s) - 1,
               r[i] = r[k]
        PROVE  i = k
    <3>1. s[i + 1] = s[k + 1] /\ i + 1 \in 1 .. Len(s) /\ k + 1 \in 1 .. Len(s)
      BY <1>1, <2>2
    <3>2. i + 1 = k + 1
      BY <2>1, <3>1
    <3>3. QED
      BY <3>2
  <2>3. IsInjective(r)
    BY <1>1, <2>2, InList
  <2>4. ASSUME NEW x PROVE x \in ToSet(r) <=> x \in ToSet(s) /\ x # s[1]
    <3>1. x \in ToSet(r) <=> \E i \in 1 .. Len(s) - 1 : s[i + 1] = x
      <4>1. x \in ToSet(r) <=> \E i \in 1 .. Len(r) : r[i] = x
        BY <1>1, InList
      <4>2. QED
        BY <1>1, <4>1
    <3>2. x \in ToSet(s) <=> \E i \in 1 .. Len(s) : s[i] = x
      BY InList
    <3>3. \A i \in 1 .. Len(s) - 1 : i + 1 \in 1 .. Len(s) /\ i + 1 # 1
      BY <1>1
    <3>4. \A i \in 1 .. Len(s) : i = 1 \/ (i - 1 \in 1 .. Len(s) - 1 /\ (i - 1) + 1 = i)
      BY <1>1
    <3>5. 1 \in 1 .. Len(s)
      BY <1>1
    <3>6. QED
      BY <2>1, <3>1, <3>2, <3>3, <3>4, <3>5
  <2>5. QED
    BY <1>1, <2>3, <2>4
<1>3. QED
  BY <1>1, <1>2 DEF r

(* A list is its first element and the rest.                               *)
LEMMA SplitList ==
  ASSUME NEW S, NEW s \in Seq(S), s # <<>>
  PROVE  ToSet(s) = {Head(s)} \cup ToSet(Tail(s))
<1>1. /\ Tail(s) \in Seq(S) /\ Len(Tail(s)) = Len(s) - 1
      /\ Len(s) \in Nat \ {0} /\ Head(s) = s[1]
      /\ \A i \in 1 .. Len(s) - 1 : Tail(s)[i] = s[i + 1]
  BY CdrList
<1>2. \A x : x \in ToSet(s) <=> \E i \in 1 .. Len(s) : s[i] = x
  BY InList
<1>3. \A x : x \in ToSet(Tail(s)) <=> \E i \in 1 .. Len(s) - 1 : s[i + 1] = x
  <2>1. \A x : x \in ToSet(Tail(s)) <=> \E i \in 1 .. Len(Tail(s)) : Tail(s)[i] = x
    BY <1>1, InList
  <2>2. QED
    BY <1>1, <2>1
<1>4. \A i \in 1 .. Len(s) - 1 : i + 1 \in 1 .. Len(s)
  BY <1>1
<1>5. \A i \in 1 .. Len(s) : i = 1 \/ (i - 1 \in 1 .. Len(s) - 1 /\ (i - 1) + 1 = i)
  BY <1>1
<1>6. 1 \in 1 .. Len(s)
  BY <1>1
<1>7. QED
  BY <1>1, <1>2, <1>3, <1>4, <1>5, <1>6

(* Two lists one after the other.                                          *)
LEMMA JoinList ==
  ASSUME NEW S, NEW s \in Seq(S), NEW r \in Seq(S)
  PROVE  s \o r \in Seq(S) /\ ToSet(s \o r) = ToSet(s) \cup ToSet(r)
<1> DEFINE p == s \o r
<1>1. /\ p \in Seq(S) /\ Len(p) = Len(s) + Len(r)
      /\ Len(s) \in Nat /\ Len(r) \in Nat
      /\ \A i \in 1 .. Len(s) : p[i] = s[i]
      /\ \A i \in 1 .. Len(r) : p[Len(s) + i] = r[i]
  OBVIOUS
<1> HIDE DEF p
<1>2. /\ \A x : x \in ToSet(p) <=> \E i \in 1 .. Len(p) : p[i] = x
      /\ \A x : x \in ToSet(s) <=> \E i \in 1 .. Len(s) : s[i] = x
      /\ \A x : x \in ToSet(r) <=> \E i \in 1 .. Len(r) : r[i] = x
  BY <1>1, InList
<1>3. /\ \A i \in 1 .. Len(s) : i \in 1 .. Len(p)
      /\ \A i \in 1 .. Len(r) : Len(s) + i \in 1 .. Len(p)
  BY <1>1
<1>4. ASSUME NEW i \in 1 .. Len(p) PROVE p[i] \in ToSet(s) \cup ToSet(r)
  <2>1. CASE i \in 1 .. Len(s)
    BY <1>1, <1>2, <2>1
  <2>2. CASE i \notin 1 .. Len(s)
    <3>1. i - Len(s) \in 1 .. Len(r) /\ Len(s) + (i - Len(s)) = i
      BY <1>1, <2>2
    <3>2. r[i - Len(s)] = p[i]
      BY <1>1, <3>1
    <3>3. QED
      BY <1>2, <3>1, <3>2
  <2>3. QED
    BY <2>1, <2>2
<1>5. ToSet(s) \subseteq ToSet(p) /\ ToSet(r) \subseteq ToSet(p)
  BY <1>1, <1>2, <1>3
<1>6. ToSet(p) = ToSet(s) \cup ToSet(r)
  BY <1>2, <1>4, <1>5
<1>7. QED
  BY <1>1, <1>6 DEF p

(* The elements of a list with a new one in front.                         *)
LEMMA ConsIndices ==
  ASSUME NEW S, NEW s \in Seq(S), NEW j \in S
  PROVE  /\ <<j>> \o s \in Seq(S)
         /\ Len(<<j>> \o s) = Len(s) + 1 /\ Len(s) \in Nat
         /\ (<<j>> \o s)[1] = j
         /\ \A i \in 2 .. Len(s) + 1 : (<<j>> \o s)[i] = s[i - 1]
OBVIOUS

=============================================================================
