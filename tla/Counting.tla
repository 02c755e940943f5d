----------------------------- MODULE Counting -----------------------------
(***************************************************************************)
(* Lemmas about sequences of consecutive numbers.  The models number the   *)
(* bytes of a stream and the frames of a transfer in the order in which    *)
(* they are produced; what is lost, repeated or reordered then shows as a  *)
(* sequence that does not count on.                                        *)
(***************************************************************************)
EXTENDS Integers, Sequences, SequenceTheorems, TLAPS

\* q counts a+1, a+2, ...
Counts(q, a) == \A i \in 1 .. Len(q) : q[i] = a + i

\* The members of S in q are numbered a, a+1, ..., b-1 by num, in that order;
\* q may have others between them.
Runs(q, S, num, a, b) ==
    /\ a <= b
    /\ \A i \in 1 .. Len(q) : q[i] \in S => a <= num[q[i]] /\ num[q[i]] < b
    /\ \A n \in a .. b - 1 : \E i \in 1 .. Len(q) : q[i] \in S /\ num[q[i]] = n
    /\ \A i, j \in 1 .. Len(q) : q[i] \in S /\ q[j] \in S /\ i < j => num[q[i]] < num[q[j]]

\* A sequence of members of a set is one of members of a larger set.
LEMMA SeqWider ==
    ASSUME NEW S, NEW T, S \subseteq T, NEW q \in Seq(S)
    PROVE  q \in Seq(T)
<1>1. Len(q) \in Nat /\ q \in [1 .. Len(q) -> S]
  OBVIOUS
<1>2. q \in [1 .. Len(q) -> T]
  BY <1>1
<1> QED
  BY <1>1, <1>2

\* The next number at the end.
LEMMA CountsAppend ==
    ASSUME NEW q \in Seq(Nat), NEW a \in Nat, NEW x \in Nat, Counts(q, a), x = a + Len(q) + 1
    PROVE  /\ Append(q, x) \in Seq(Nat) /\ Len(Append(q, x)) = Len(q) + 1
           /\ Counts(Append(q, x), a)
<1> DEFINE r == Append(q, x)
<1>1. r \in Seq(Nat) /\ Len(r) = Len(q) + 1
  OBVIOUS
<1>2. ASSUME NEW i \in 1 .. Len(r) PROVE r[i] = a + i
  <2>1. CASE i \in 1 .. Len(q)
    BY <2>1 DEF Counts
  <2>2. CASE i = Len(q) + 1
    BY <2>2
  <2> QED BY <1>1, <2>1, <2>2
<1> QED BY <1>1, <1>2 DEF Counts

\* The first n numbers of a count.
LEMMA CountsPrefix ==
    ASSUME NEW q \in Seq(Nat), NEW a \in Nat, Counts(q, a), NEW n \in 0 .. Len(q)
    PROVE  /\ SubSeq(q, 1, n) \in Seq(Nat) /\ Len(SubSeq(q, 1, n)) = n
           /\ Counts(SubSeq(q, 1, n), a)
<1>1. \A i \in 1 .. n : q[i] \in Nat
  BY DEF Counts
<1>2. /\ SubSeq(q, 1, n) \in Seq(Nat)
      /\ Len(SubSeq(q, 1, n)) = IF 1 <= n THEN n - 1 + 1 ELSE 0
      /\ \A i \in 1 .. n - 1 + 1 : SubSeq(q, 1, n)[i] = q[1 + i - 1]
  BY <1>1, SubSeqProperties
<1> QED
  BY <1>2 DEF Counts

\* What is left of a count without its first n numbers.
LEMMA CountsSuffix ==
    ASSUME NEW q \in Seq(Nat), NEW a \in Nat, Counts(q, a), NEW n \in 0 .. Len(q)
    PROVE  /\ SubSeq(q, n + 1, Len(q)) \in Seq(Nat) /\ Len(SubSeq(q, n + 1, Len(q))) = Len(q) - n
           /\ Counts(SubSeq(q, n + 1, Len(q)), a + n)
<1> DEFINE l == Len(q)
<1>1. l \in Nat /\ \A i \in n + 1 .. l : q[i] \in Nat
  BY DEF Counts
<1>2. /\ SubSeq(q, n + 1, l) \in Seq(Nat)
      /\ Len(SubSeq(q, n + 1, l)) = IF n + 1 <= l THEN l - (n + 1) + 1 ELSE 0
      /\ \A i \in 1 .. l - (n + 1) + 1 : SubSeq(q, n + 1, l)[i] = q[n + 1 + i - 1]
  BY <1>1, SubSeqProperties, SMTT(40)
<1> QED
  BY <1>2 DEF Counts

\* A count without its first number.
LEMMA CountsTail ==
    ASSUME NEW q \in Seq(Nat), NEW a \in Nat, Counts(q, a), q # <<>>
    PROVE  /\ Head(q) = a + 1 /\ Tail(q) \in Seq(Nat) /\ Len(Tail(q)) = Len(q) - 1 /\ Len(q) \in Nat \ {0}
           /\ Counts(Tail(q), a + 1)
<1>1. /\ Len(q) \in Nat \ {0} /\ Head(q) = q[1]
      /\ Tail(q) \in Seq(Nat) /\ Len(Tail(q)) = Len(q) - 1
      /\ \A i \in 1 .. Len(q) - 1 : Tail(q)[i] = q[i + 1]
  OBVIOUS
<1> QED
  BY <1>1 DEF Counts

\* A single number.
LEMMA CountsSingle ==
    ASSUME NEW a \in Nat
    PROVE  <<a + 1>> \in Seq(Nat) /\ Len(<<a + 1>>) = 1 /\ Counts(<<a + 1>>, a)
BY DEF Counts

\* A count that goes on where another one ends.
LEMMA CountsConcat ==
    ASSUME NEW p \in Seq(Nat), NEW q \in Seq(Nat), NEW a \in Nat,
           Counts(p, a), Counts(q, a + Len(p))
    PROVE  p \o q \in Seq(Nat) /\ Len(p \o q) = Len(p) + Len(q) /\ Counts(p \o q, a)
<1>1. /\ p \o q \in Seq(Nat) /\ Len(p \o q) = Len(p) + Len(q)
      /\ \A i \in 1 .. Len(p) + Len(q) : (p \o q)[i] = IF i <= Len(p) THEN p[i] ELSE q[i - Len(p)]
  BY ConcatProperties
<1> QED
  BY <1>1 DEF Counts

\* Counts of one length from one number are equal.
LEMMA CountsEqual ==
    ASSUME NEW p \in Seq(Nat), NEW q \in Seq(Nat), NEW a \in Nat,
           Counts(p, a), Counts(q, a), Len(p) = Len(q)
    PROVE  p = q
<1>1. \A i \in 1 .. Len(p) : p[i] = q[i]
  BY DEF Counts
<1> QED
  BY <1>1, SeqEqual

\* Nothing counts from anywhere.
LEMMA CountsEmpty ==
    ASSUME NEW a \in Nat
    PROVE  <<>> \in Seq(Nat) /\ Len(<<>>) = 0 /\ Counts(<<>>, a)
BY DEF Counts
-----------------------------------------------------------------------------
(* The same for the members of a set *)

\* Nothing runs from anywhere.
LEMMA RunsEmpty ==
    ASSUME NEW S, NEW num, NEW a \in Nat
    PROVE  Runs(<<>>, S, num, a, a)
BY DEF Runs

\* A member of S with the next number at the end.
LEMMA RunsAppend ==
    ASSUME NEW T, NEW q \in Seq(T), NEW f \in T, NEW S, NEW num \in [T -> Nat], NEW a \in Nat, NEW b \in Nat,
           Runs(q, S, num, a, b), f \in S, num[f] = b
    PROVE  Runs(Append(q, f), S, num, a, b + 1)
<1> DEFINE r == Append(q, f)
<1>1. /\ Len(q) \in Nat /\ Len(r) = Len(q) + 1 /\ r[Len(q) + 1] = f
      /\ \A i \in 1 .. Len(q) : r[i] = q[i]
  OBVIOUS
<1>2. \A i \in 1 .. Len(r) : i \in 1 .. Len(q) \/ i = Len(q) + 1
  BY <1>1
<1> HIDE DEF r
<1>3. a <= b + 1
  BY DEF Runs
<1>4. ASSUME NEW i \in 1 .. Len(r), r[i] \in S PROVE a <= num[r[i]] /\ num[r[i]] < b + 1
  <2>1. CASE i \in 1 .. Len(q)
    <3>1. r[i] = q[i] /\ a <= num[q[i]] /\ num[q[i]] < b
      BY <1>1, <1>4, <2>1 DEF Runs
    <3>2. q[i] \in S
      BY <1>4, <3>1
    <3>3. q[i] \in T /\ num[q[i]] \in Nat
      BY <2>1
    <3> QED BY <3>1, <3>3
  <2>2. CASE i = Len(q) + 1
    BY <1>1, <2>2 DEF Runs
  <2> QED BY <1>2, <2>1, <2>2
<1>5. ASSUME NEW n \in a .. b + 1 - 1 PROVE \E i \in 1 .. Len(r) : r[i] \in S /\ num[r[i]] = n
  <2>1. CASE n = b
    BY <1>1, <2>1
  <2>2. CASE n # b
    <3>1. n \in a .. b - 1
      BY <2>2
    <3>2. PICK i \in 1 .. Len(q) : q[i] \in S /\ num[q[i]] = n
      BY <3>1 DEF Runs
    <3> QED
      BY <1>1, <3>2
  <2> QED BY <2>1, <2>2
<1>6. ASSUME NEW i \in 1 .. Len(r), NEW j \in 1 .. Len(r), r[i] \in S, r[j] \in S, i < j
      PROVE  num[r[i]] < num[r[j]]
  <2>1. i \in 1 .. Len(q) /\ r[i] = q[i]
    BY <1>1, <1>6
  <2>2. CASE j \in 1 .. Len(q)
    BY <1>1, <1>6, <2>1, <2>2 DEF Runs
  <2>3. CASE j = Len(q) + 1
    BY <1>1, <1>6, <2>1, <2>3 DEF Runs
  <2> QED BY <1>2, <2>2, <2>3
<1>7. Runs(r, S, num, a, b + 1)
  BY <1>3, <1>4, <1>5, <1>6 DEF Runs
<1> QED
  BY <1>7 DEF r

\* Another frame at the end.
LEMMA RunsAppendOther ==
    ASSUME NEW T, NEW q \in Seq(T), NEW f \in T, NEW S, NEW num \in [T -> Nat], NEW a \in Nat, NEW b \in Nat,
           Runs(q, S, num, a, b), f \notin S
    PROVE  Runs(Append(q, f), S, num, a, b)
<1> DEFINE r == Append(q, f)
<1>1. /\ Len(q) \in Nat /\ Len(r) = Len(q) + 1 /\ r[Len(q) + 1] = f
      /\ \A i \in 1 .. Len(q) : r[i] = q[i]
  OBVIOUS
<1> HIDE DEF r
<1>2. ASSUME NEW i \in 1 .. Len(r), r[i] \in S PROVE i \in 1 .. Len(q) /\ r[i] = q[i]
  <2>1. i # Len(q) + 1
    BY <1>1, <1>2
  <2> QED
    BY <1>1, <2>1
<1>3. \A i \in 1 .. Len(q) : i \in 1 .. Len(r) /\ r[i] = q[i]
  BY <1>1
<1>4. ASSUME NEW n \in a .. b - 1 PROVE \E i \in 1 .. Len(r) : r[i] \in S /\ num[r[i]] = n
  <2>1. PICK i \in 1 .. Len(q) : q[i] \in S /\ num[q[i]] = n
    BY DEF Runs
  <2> QED BY <1>3, <2>1
<1>5. ASSUME NEW i \in 1 .. Len(r), NEW j \in 1 .. Len(r), r[i] \in S, r[j] \in S, i < j
      PROVE  num[r[i]] < num[r[j]]
  BY <1>2, <1>5 DEF Runs
<1>6. ASSUME NEW i \in 1 .. Len(r), r[i] \in S PROVE a <= num[r[i]] /\ num[r[i]] < b
  BY <1>2, <1>6 DEF Runs
<1>7. a <= b
  BY DEF Runs
<1>8. Runs(r, S, num, a, b)
  BY <1>4, <1>5, <1>6, <1>7 DEF Runs
<1> QED
  BY <1>8 DEF r

\* The first element is the member of S with the first number ...
LEMMA RunsHead ==
    ASSUME NEW T, NEW q \in Seq(T), NEW S, NEW num \in [T -> Nat], NEW a \in Nat, NEW b \in Nat,
           Runs(q, S, num, a, b), q # <<>>, Head(q) \in S
    PROVE  num[Head(q)] = a /\ a < b /\ Runs(Tail(q), S, num, a + 1, b)
<1> DEFINE r == Tail(q)
<1>1. /\ Len(q) \in Nat /\ Len(q) > 0 /\ Len(r) = Len(q) - 1 /\ Head(q) = q[1]
      /\ \A i \in 1 .. Len(q) - 1 : r[i] = q[i + 1]
  OBVIOUS
<1> HIDE DEF r
<1>2. 1 \in 1 .. Len(q) /\ a <= num[q[1]] /\ num[q[1]] < b
  BY <1>1 DEF Runs
<1>3. num[q[1]] = a
  <2> SUFFICES ASSUME num[q[1]] # a PROVE FALSE
    OBVIOUS
  <2>1. a \in a .. b - 1
    BY <1>1, <1>2
  <2>2. PICK i \in 1 .. Len(q) : q[i] \in S /\ num[q[i]] = a
    BY <2>1 DEF Runs
  <2>3. 1 < i
    BY <1>1, <2>2
  <2>4. num[q[1]] < num[q[i]]
    BY <1>1, <1>2, <2>2, <2>3 DEF Runs
  <2> QED
    BY <1>1, <1>2, <2>2, <2>4
<1>4. a < b /\ a + 1 <= b
  BY <1>2, <1>3
<1>5. ASSUME NEW i \in 1 .. Len(r), r[i] \in S PROVE a + 1 <= num[r[i]] /\ num[r[i]] < b
  <2>1. i + 1 \in 1 .. Len(q) /\ 1 < i + 1 /\ r[i] = q[i + 1] /\ q[i + 1] \in T
    BY <1>1
  <2>2. a < num[q[i + 1]] /\ num[q[i + 1]] < b /\ num[q[i + 1]] \in Nat
    BY <1>1, <1>2, <1>3, <1>5, <2>1 DEF Runs
  <2> QED
    BY <2>1, <2>2
<1>6. ASSUME NEW n \in a + 1 .. b - 1 PROVE \E i \in 1 .. Len(r) : r[i] \in S /\ num[r[i]] = n
  <2>1. n \in a .. b - 1 /\ n # a
    BY <1>4
  <2>2. PICK i \in 1 .. Len(q) : q[i] \in S /\ num[q[i]] = n
    BY <2>1 DEF Runs
  <2>3. i - 1 \in 1 .. Len(r) /\ r[i - 1] = q[i]
    BY <1>1, <1>3, <2>1, <2>2
  <2> QED BY <2>2, <2>3
<1>7. ASSUME NEW i \in 1 .. Len(r), NEW j \in 1 .. Len(r), r[i] \in S, r[j] \in S, i < j
      PROVE  num[r[i]] < num[r[j]]
  <2>1. /\ i + 1 \in 1 .. Len(q) /\ j + 1 \in 1 .. Len(q) /\ i + 1 < j + 1
        /\ r[i] = q[i + 1] /\ r[j] = q[j + 1]
    <3>1. i \in 1 .. Len(q) - 1 /\ j \in 1 .. Len(q) - 1
      BY <1>1, <1>7
    <3>2. r[i] = q[i + 1] /\ r[j] = q[j + 1]
      BY <1>1, <3>1
    <3>3. Len(q) \in Nat /\ i < j
      BY <1>1, <1>7
    <3> QED
      BY <3>1, <3>2, <3>3
  <2> QED
    BY <1>7, <2>1 DEF Runs
<1>8. Runs(r, S, num, a + 1, b)
  BY <1>4, <1>5, <1>6, <1>7 DEF Runs
<1> QED
  BY <1>1, <1>3, <1>4, <1>8 DEF r

\* ... or it is not a member, and taking it away changes nothing.
LEMMA RunsTail ==
    ASSUME NEW T, NEW q \in Seq(T), NEW S, NEW num \in [T -> Nat], NEW a \in Nat, NEW b \in Nat,
           Runs(q, S, num, a, b), q # <<>>, Head(q) \notin S
    PROVE  Runs(Tail(q), S, num, a, b)
<1> DEFINE r == Tail(q)
<1>1. /\ Len(q) \in Nat /\ Len(q) > 0 /\ Len(r) = Len(q) - 1 /\ Head(q) = q[1]
      /\ \A i \in 1 .. Len(q) - 1 : r[i] = q[i + 1]
  OBVIOUS
<1> HIDE DEF r
<1>2. ASSUME NEW i \in 1 .. Len(r) PROVE i + 1 \in 1 .. Len(q) /\ r[i] = q[i + 1]
  BY <1>1
<1>3. ASSUME NEW i \in 1 .. Len(q), q[i] \in S PROVE i - 1 \in 1 .. Len(r) /\ r[i - 1] = q[i]
  <2>1. i # 1
    BY <1>1, <1>3
  <2>2. i - 1 \in 1 .. Len(q) - 1 /\ (i - 1) + 1 = i
    BY <1>1, <2>1
  <2> QED
    BY <1>1, <2>2
<1>4. ASSUME NEW n \in a .. b - 1 PROVE \E i \in 1 .. Len(r) : r[i] \in S /\ num[r[i]] = n
  <2>1. PICK i \in 1 .. Len(q) : q[i] \in S /\ num[q[i]] = n
    BY DEF Runs
  <2> QED BY <1>3, <2>1
<1>5. ASSUME NEW i \in 1 .. Len(r), NEW j \in 1 .. Len(r), r[i] \in S, r[j] \in S, i < j
      PROVE  num[r[i]] < num[r[j]]
  <2>1. i + 1 < j + 1
    BY <1>5
  <2> QED
    BY <1>2, <1>5, <2>1 DEF Runs
<1>6. ASSUME NEW i \in 1 .. Len(r), r[i] \in S PROVE a <= num[r[i]] /\ num[r[i]] < b
  BY <1>2, <1>6 DEF Runs
<1>7. a <= b
  BY DEF Runs
<1>8. Runs(r, S, num, a, b)
  BY <1>4, <1>5, <1>6, <1>7 DEF Runs
<1> QED
  BY <1>8 DEF r

\* An empty sequence has come to the end of its run.
LEMMA RunsBounds ==
    ASSUME NEW q, NEW S, NEW num, NEW a \in Nat, NEW b \in Nat, Runs(q, S, num, a, b)
    PROVE  a <= b /\ (q = <<>> => a = b)
<1>1. a <= b
  BY DEF Runs
<1>2. ASSUME q = <<>>, a # b PROVE FALSE
  <2>1. a \in a .. b - 1
    BY <1>1, <1>2
  <2>2. \E i \in 1 .. Len(q) : TRUE
    BY <2>1 DEF Runs
  <2> QED
    BY <2>2, <1>2
<1> QED BY <1>1, <1>2
=============================================================================
