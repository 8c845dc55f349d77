---------------------------- MODULE QueueLemmas -----------------------------
(* Lemmas about the channels between the modules of a node, which are      *)
(* sequences: how many of their items are of a kind, a set M of items, and *)
(* which ids these carry. Items come in at the end (Append, \o) and go out *)
(* at the front (Tail).                                                    *)
EXTENDS Integers, Sequences, FiniteSets, FiniteSetTheorems, SequenceTheorems, TLAPS

(* The places of the items in M, their number, the items and their ids. *)
Marked(q, M) == {i \in 1 .. Len(q) : q[i] \in M}
Count(q, M) == Cardinality(Marked(q, M))
Content(q, M) == {q[i] : i \in Marked(q, M)}
Carried(q, M) == {q[i].id : i \in Marked(q, M)}
Distinct(q, M) == \A i, j \in Marked(q, M) : q[i].id = q[j].id => i = j

-----------------------------------------------------------------------------
(* What the operations on sequences do, position by position.              *)

(* An item sent is the last one. *)
LEMMA AppendPlaces ==
  ASSUME NEW S, NEW q \in Seq(S), NEW e \in S
  PROVE  /\ Append(q, e) \in Seq(S) /\ Len(Append(q, e)) = Len(q) + 1
         /\ Len(q) \in Nat
         /\ \A i \in 1 .. Len(q) : Append(q, e)[i] = q[i]
         /\ Append(q, e)[Len(q) + 1] = e
OBVIOUS

(* An item received was the first one. *)
LEMMA TailPlaces ==
  ASSUME NEW S, NEW q \in Seq(S), q # <<>>
  PROVE  /\ Tail(q) \in Seq(S) /\ Len(Tail(q)) = Len(q) - 1
         /\ Len(q) \in Nat \ {0}
         /\ Head(q) = q[1] /\ Head(q) \in S
         /\ \A i \in 1 .. Len(q) - 1 : Tail(q)[i] = q[i + 1]
OBVIOUS

(* Several items sent at once follow one another. *)
LEMMA ConcatPlaces ==
  ASSUME NEW S, NEW q \in Seq(S), NEW p \in Seq(S)
  PROVE  /\ q \o p \in Seq(S) /\ Len(q \o p) = Len(q) + Len(p)
         /\ Len(q) \in Nat /\ Len(p) \in Nat
         /\ \A i \in 1 .. Len(q) : (q \o p)[i] = q[i]
         /\ \A i \in 1 .. Len(p) : (q \o p)[Len(q) + i] = p[i]
OBVIOUS

(* The first items of several. *)
LEMMA FrontPlaces ==
  ASSUME NEW S, NEW q \in Seq(S), NEW n \in 0 .. Len(q)
  PROVE  /\ SubSeq(q, 1, n) \in Seq(S) /\ Len(SubSeq(q, 1, n)) = n
         /\ \A i \in 1 .. n : SubSeq(q, 1, n)[i] = q[i]
<1>1. n \in Nat /\ Len(q) \in Nat /\ n <= Len(q)
  OBVIOUS
<1>2. \A i \in 1 .. n : q[i] \in S
  BY <1>1
<1>3. /\ SubSeq(q, 1, n) \in Seq(S)
      /\ Len(SubSeq(q, 1, n)) = IF 1 <= n THEN n - 1 + 1 ELSE 0
      /\ \A i \in 1 .. n - 1 + 1 : SubSeq(q, 1, n)[i] = q[1 + i - 1]
  BY <1>1, <1>2, SubSeqProperties
<1>4. /\ n - 1 + 1 = n /\ (IF 1 <= n THEN n - 1 + 1 ELSE 0) = n
      /\ \A i \in 1 .. n : 1 + i - 1 = i
  BY <1>1
<1> QED
  BY <1>3, <1>4

-----------------------------------------------------------------------------
(* Counting.                                                               *)

(* An interval has as many elements as it is long. *)
LEMMA IntervalSize ==
  ASSUME NEW n \in Nat
  PROVE  IsFiniteSet(1 .. n) /\ Cardinality(1 .. n) = n
BY FS_Interval

(* A count is a number, at most the length. *)
LEMMA CountType ==
  ASSUME NEW S, NEW q \in Seq(S), NEW M
  PROVE  /\ IsFiniteSet(Marked(q, M))
         /\ Count(q, M) \in Nat /\ Count(q, M) <= Len(q)
<1>1. Len(q) \in Nat
  OBVIOUS
<1>2. IsFiniteSet(1 .. Len(q)) /\ Cardinality(1 .. Len(q)) = Len(q)
  BY <1>1, IntervalSize
<1>3. Marked(q, M) \in SUBSET (1 .. Len(q))
  BY DEF Marked
<1>4. IsFiniteSet(Marked(q, M)) /\ Cardinality(Marked(q, M)) <= Cardinality(1 .. Len(q))
  BY <1>2, <1>3, FS_Subset
<1> QED
  BY <1>2, <1>4, FS_CardinalityType DEF Count

(* Nothing is in an empty channel. *)
LEMMA CountEmpty ==
  ASSUME NEW M
  PROVE  Count(<<>>, M) = 0 /\ Carried(<<>>, M) = {} /\ Distinct(<<>>, M)
<1>1. Marked(<<>>, M) = {}
  BY DEF Marked
<1> QED
  BY <1>1, FS_EmptySet DEF Count, Carried, Distinct

(* Sending adds one. *)
LEMMA CountAppend ==
  ASSUME NEW S, NEW q \in Seq(S), NEW e \in S, NEW M
  PROVE  Count(Append(q, e), M) = Count(q, M) + (IF e \in M THEN 1 ELSE 0)
<1>1. IsFiniteSet(Marked(q, M)) /\ Count(q, M) \in Nat
  BY CountType
<1>2. Marked(Append(q, e), M) = IF e \in M THEN Marked(q, M) \cup {Len(q) + 1} ELSE Marked(q, M)
  BY AppendPlaces DEF Marked
<1>3. Len(q) + 1 \notin Marked(q, M)
  BY AppendPlaces DEF Marked
<1>4. Cardinality(Marked(q, M) \cup {Len(q) + 1}) = Cardinality(Marked(q, M)) + 1
  BY <1>1, <1>3, FS_AddElement
<1> QED
  BY <1>1, <1>2, <1>4 DEF Count

(* Receiving takes one away. *)
LEMMA CountTail ==
  ASSUME NEW S, NEW q \in Seq(S), q # <<>>, NEW M
  PROVE  /\ Count(q, M) = Count(Tail(q), M) + (IF Head(q) \in M THEN 1 ELSE 0)
         /\ Count(Tail(q), M) \in Nat
<1>1. Tail(q) \in Seq(S)
  BY TailPlaces
<1>2. IsFiniteSet(Marked(Tail(q), M)) /\ Count(Tail(q), M) \in Nat
  BY <1>1, CountType
<1> DEFINE f == [i \in Marked(Tail(q), M) |-> i + 1]
           R == Marked(q, M) \ {1}
<1>3. f \in Bijection(Marked(Tail(q), M), R)
  <2>1. \A i \in Marked(Tail(q), M) : i \in Nat /\ i + 1 \in R
    BY TailPlaces DEF Marked
  <2>2. \A j \in R : j \in Nat /\ j - 1 \in Marked(Tail(q), M) /\ (j - 1) + 1 = j
    BY TailPlaces DEF Marked
  <2>3. \A i, j \in Marked(Tail(q), M) : f[i] = f[j] => i = j
    BY <2>1
  <2>4. \A j \in R : \E i \in Marked(Tail(q), M) : f[i] = j
    BY <2>2
  <2>5. f \in [Marked(Tail(q), M) -> R]
    BY <2>1
  <2> QED
    BY <2>3, <2>4, <2>5 DEF Bijection, Injection, Surjection, IsInjective
<1>4. IsFiniteSet(R) /\ Cardinality(R) = Cardinality(Marked(Tail(q), M))
  <2> HIDE DEF f, R
  <2> QED
    BY <1>2, <1>3, FS_Bijection DEF ExistsBijection
<1>5. 1 \notin R /\ (Marked(q, M) = IF Head(q) \in M THEN R \cup {1} ELSE R)
  BY TailPlaces DEF Marked
<1>6. Cardinality(R \cup {1}) = Cardinality(R) + 1
  <2> HIDE DEF R
  <2> QED
    BY <1>4, <1>5, FS_AddElement
<1> HIDE DEF R
<1> QED
  BY <1>2, <1>4, <1>5, <1>6 DEF Count

(* Sending items of another kind changes nothing. *)
LEMMA CountConcat ==
  ASSUME NEW S, NEW q \in Seq(S), NEW p \in Seq(S), NEW M,
         \A i \in 1 .. Len(p) : p[i] \notin M
  PROVE  Count(q \o p, M) = Count(q, M)
<1>1. \A i \in 1 .. Len(q \o p) : i \notin 1 .. Len(q) => (q \o p)[i] \notin M
  <2> SUFFICES ASSUME NEW i \in 1 .. Len(q \o p), i \notin 1 .. Len(q)
               PROVE  (q \o p)[i] \notin M
    OBVIOUS
  <2>1. i - Len(q) \in 1 .. Len(p) /\ i = Len(q) + (i - Len(q))
    BY ConcatPlaces
  <2> QED
    BY <2>1, ConcatPlaces
<1>2. \A i \in 1 .. Len(q) : i \in 1 .. Len(q \o p) /\ (q \o p)[i] = q[i]
  BY ConcatPlaces
<1>3. Marked(q \o p, M) = Marked(q, M)
  BY <1>1, <1>2 DEF Marked
<1> QED
  BY <1>3 DEF Count

(* In general they are counted together. *)
LEMMA CountJoin ==
  ASSUME NEW S, NEW q \in Seq(S), NEW p \in Seq(S), NEW M
  PROVE  Count(q \o p, M) = Count(q, M) + Count(p, M)
<1>1. PICK t : t = q \o p
  OBVIOUS
<1>2. PICK n : n = Len(q)
  OBVIOUS
<1>3. PICK m : m = Len(p)
  OBVIOUS
<1>4. /\ n \in Nat /\ m \in Nat /\ Len(t) = n + m
      /\ \A i \in 1 .. n : t[i] = q[i]
      /\ \A i \in 1 .. m : t[n + i] = p[i]
  BY <1>1, <1>2, <1>3, ConcatPlaces
<1>5. PICK A : A = Marked(q, M)
  OBVIOUS
<1>6. PICK B : B = Marked(p, M)
  OBVIOUS
<1>7. A \subseteq 1 .. n /\ B \subseteq 1 .. m
  BY <1>2, <1>3, <1>5, <1>6 DEF Marked
<1>8. PICK C : C = {n + i : i \in B}
  OBVIOUS
<1>9. Marked(t, M) = A \cup C
  <2>1. ASSUME NEW i \in 1 .. Len(t), t[i] \in M PROVE i \in A \cup C
    <3>1. CASE i <= n
      BY <1>2, <1>4, <1>5, <2>1, <3>1 DEF Marked
    <3>2. CASE i > n
      <4>1. i - n \in 1 .. m /\ n + (i - n) = i
        BY <1>4, <2>1, <3>2
      <4>2. i - n \in B
        BY <1>3, <1>4, <1>6, <2>1, <4>1 DEF Marked
      <4> QED
        BY <1>8, <4>1, <4>2
    <3> QED
      BY <1>4, <3>1, <3>2
  <2>2. ASSUME NEW i \in A PROVE i \in 1 .. Len(t) /\ t[i] \in M
    BY <1>2, <1>4, <1>5, <1>7, <2>2 DEF Marked
  <2>3. ASSUME NEW i \in B PROVE n + i \in 1 .. Len(t) /\ t[n + i] \in M
    BY <1>3, <1>4, <1>6, <1>7, <2>3 DEF Marked
  <2> QED
    BY <1>8, <2>1, <2>2, <2>3 DEF Marked
<1>10. A \cap C = {}
  BY <1>4, <1>7, <1>8
<1>11. IsFiniteSet(A) /\ Cardinality(A) \in Nat /\ IsFiniteSet(B) /\ Cardinality(B) \in Nat
  BY <1>5, <1>6, CountType DEF Count
<1>12. IsFiniteSet(C) /\ Cardinality(C) = Cardinality(B)
  <2>1. PICK f : f = [i \in B |-> n + i]
    OBVIOUS
  <2>2. f \in [B -> C] /\ \A i \in B : f[i] = n + i
    BY <1>8, <2>1
  <2>3. \A i, j \in B : f[i] = f[j] => i = j
    BY <1>4, <1>7, <2>2
  <2>4. \A k \in C : \E i \in B : f[i] = k
    BY <1>8, <2>2
  <2>5. f \in Bijection(B, C)
    BY <2>2, <2>3, <2>4 DEF Bijection, Injection, Surjection, IsInjective
  <2> QED
    BY <1>11, <2>5, FS_Bijection DEF ExistsBijection
<1>13. Cardinality(A \cup C) = Cardinality(A) + Cardinality(C) - Cardinality(A \cap C)
  BY <1>11, <1>12, FS_Union
<1>14. Cardinality(A \cap C) = 0
  BY <1>10, FS_EmptySet
<1>15. Cardinality(A \cup C) = Cardinality(A) + Cardinality(B)
  BY <1>11, <1>12, <1>13, <1>14
<1> QED
  BY <1>1, <1>5, <1>6, <1>9, <1>15 DEF Count

(* Two kinds that do not overlap, and are all there is, make up the channel. *)
LEMMA CountAll ==
  ASSUME NEW S, NEW q \in Seq(S), NEW M, NEW L,
         S \subseteq M \cup L, M \cap L = {}
  PROVE  Len(q) = Count(q, M) + Count(q, L)
<1>1. IsFiniteSet(Marked(q, M)) /\ IsFiniteSet(Marked(q, L))
  BY CountType
<1>2. Marked(q, M) \cap Marked(q, L) = {}
  BY DEF Marked
<1>3. Marked(q, M) \cup Marked(q, L) = 1 .. Len(q)
  <2>1. \A i \in 1 .. Len(q) : q[i] \in S
    OBVIOUS
  <2> QED
    BY <2>1 DEF Marked
<1>4. Cardinality(1 .. Len(q)) = Len(q) /\ Len(q) \in Nat
  <2>1. Len(q) \in Nat
    OBVIOUS
  <2> QED
    BY <2>1, IntervalSize
<1>5. Cardinality(Marked(q, M) \cup Marked(q, L))
        = Cardinality(Marked(q, M)) + Cardinality(Marked(q, L)) - Cardinality({})
  BY <1>1, <1>2, FS_Union
<1>6. Cardinality({}) = 0
  BY FS_EmptySet
<1>7. Count(q, M) \in Nat /\ Count(q, L) \in Nat
  BY CountType
<1>8. Len(q) = Count(q, M) + Count(q, L) - 0
  BY <1>3, <1>4, <1>5, <1>6 DEF Count
<1> QED
  BY <1>7, <1>8

(* And if there are three. *)
LEMMA CountThree ==
  ASSUME NEW S, NEW q \in Seq(S), NEW M, NEW L, NEW K,
         S \subseteq M \cup L \cup K, M \cap L = {}, M \cap K = {}, L \cap K = {}
  PROVE  Len(q) = Count(q, M) + Count(q, L) + Count(q, K)
<1>1. /\ IsFiniteSet(Marked(q, L)) /\ IsFiniteSet(Marked(q, K))
      /\ Count(q, L) \in Nat /\ Count(q, K) \in Nat /\ Count(q, M) \in Nat
  BY CountType
<1>2. PICK R : R = L \cup K
  OBVIOUS
<1>3. Len(q) = Count(q, M) + Count(q, R)
  <2>1. S \subseteq M \cup R /\ M \cap R = {}
    BY <1>2
  <2> QED
    BY <2>1, CountAll
<1>4. Marked(q, R) = Marked(q, L) \cup Marked(q, K) /\ Marked(q, L) \cap Marked(q, K) = {}
  BY <1>2 DEF Marked
<1>5. Cardinality(Marked(q, L) \cup Marked(q, K))
        = Cardinality(Marked(q, L)) + Cardinality(Marked(q, K)) - Cardinality({})
  BY <1>1, <1>4, FS_Union
<1>6. Cardinality({}) = 0
  BY FS_EmptySet
<1>7. Count(q, R) = Count(q, L) + Count(q, K)
  BY <1>1, <1>4, <1>5, <1>6 DEF Count
<1> QED
  BY <1>1, <1>3, <1>7

-----------------------------------------------------------------------------
(* Items.                                                                  *)

(* An item sent joins the others. *)
LEMMA ContentAppend ==
  ASSUME NEW S, NEW q \in Seq(S), NEW e \in S, NEW M
  PROVE  Content(Append(q, e), M) = Content(q, M) \cup (IF e \in M THEN {e} ELSE {})
<1>1. PICK t : t = Append(q, e)
  OBVIOUS
<1>2. PICK n : n = Len(q) + 1
  OBVIOUS
<1>3. Marked(t, M) = IF e \in M THEN Marked(q, M) \cup {n} ELSE Marked(q, M)
  BY <1>1, <1>2, AppendPlaces DEF Marked
<1>4. \A i \in Marked(q, M) : t[i] = q[i]
  BY <1>1, AppendPlaces DEF Marked
<1>5. t[n] = e
  BY <1>1, <1>2, AppendPlaces
<1>6. Content(t, M) = Content(q, M) \cup (IF e \in M THEN {e} ELSE {})
  BY <1>3, <1>4, <1>5 DEF Content
<1> QED
  BY <1>1, <1>6

(* The first item is received and the others stay. *)
LEMMA ContentTail ==
  ASSUME NEW S, NEW q \in Seq(S), q # <<>>, NEW M
  PROVE  /\ Content(Tail(q), M) \subseteq Content(q, M)
         /\ Head(q) \in M => Head(q) \in Content(q, M)
<1>1. PICK t : t = Tail(q)
  OBVIOUS
<1>2. PICK h : h = Head(q)
  OBVIOUS
<1>3. \A i \in Marked(t, M) : i + 1 \in Marked(q, M) /\ t[i] = q[i + 1]
  BY <1>1, TailPlaces DEF Marked
<1>4. (1 \in Marked(q, M) <=> h \in M) /\ h = q[1]
  BY <1>2, TailPlaces DEF Marked
<1>5. Content(t, M) \subseteq Content(q, M)
  BY <1>3 DEF Content
<1>6. h \in M => h \in Content(q, M)
  BY <1>4 DEF Content
<1> QED
  BY <1>1, <1>2, <1>5, <1>6

(* Nothing else is lost. *)
LEMMA ContentLeft ==
  ASSUME NEW S, NEW q \in Seq(S), q # <<>>, NEW M
  PROVE  \A e \in Content(q, M) : e = Head(q) \/ e \in Content(Tail(q), M)
<1>1. PICK t : t = Tail(q)
  OBVIOUS
<1>2. PICK h : h = Head(q)
  OBVIOUS
<1>3. SUFFICES ASSUME NEW i \in Marked(q, M) PROVE q[i] = h \/ q[i] \in Content(t, M)
  BY <1>1, <1>2 DEF Content
<1>4. i \in 1 .. Len(q) /\ q[i] \in M
  BY DEF Marked
<1>5. CASE i = 1
  BY <1>2, <1>5, TailPlaces
<1>6. CASE i # 1
  <2>1. /\ Len(t) = Len(q) - 1 /\ Len(q) \in Nat
        /\ \A j \in 1 .. Len(q) - 1 : t[j] = q[j + 1]
    BY <1>1, TailPlaces
  <2>2. PICK j \in 1 .. Len(q) - 1 : j + 1 = i
    <3>1. i - 1 \in 1 .. Len(q) - 1 /\ (i - 1) + 1 = i
      BY <1>4, <1>6, <2>1
    <3> QED
      BY <3>1
  <2>3. t[j] = q[i] /\ j \in 1 .. Len(t)
    BY <2>1, <2>2
  <2>4. j \in Marked(t, M)
    BY <1>4, <2>3 DEF Marked
  <2> QED
    BY <2>3, <2>4 DEF Content
<1> QED
  BY <1>5, <1>6

(* Several items sent join the others. *)
LEMMA ContentConcat ==
  ASSUME NEW S, NEW q \in Seq(S), NEW p \in Seq(S), NEW M
  PROVE  Content(q \o p, M) \subseteq Content(q, M) \cup Content(p, M)
<1>1. PICK t : t = q \o p
  OBVIOUS
<1> SUFFICES ASSUME NEW i \in Marked(t, M)
             PROVE  t[i] \in Content(q, M) \/ t[i] \in Content(p, M)
  BY <1>1 DEF Content
<1>2. i \in 1 .. Len(q) + Len(p) /\ t[i] \in M
  BY <1>1, ConcatPlaces DEF Marked
<1>3. CASE i <= Len(q)
  <2>1. i \in Marked(q, M) /\ t[i] = q[i]
    BY <1>1, <1>2, <1>3, ConcatPlaces DEF Marked
  <2> QED
    BY <2>1 DEF Content
<1>4. CASE i > Len(q)
  <2>1. i - Len(q) \in 1 .. Len(p) /\ i = Len(q) + (i - Len(q))
    BY <1>2, <1>4, ConcatPlaces
  <2>2. t[Len(q) + (i - Len(q))] = p[i - Len(q)]
    BY <1>1, <2>1, ConcatPlaces
  <2>3. PICK k : k = i - Len(q)
    OBVIOUS
  <2>4. k \in Marked(p, M) /\ t[i] = p[k]
    BY <1>2, <2>1, <2>2, <2>3 DEF Marked
  <2> QED
    BY <2>4 DEF Content
<1> QED
  BY <1>2, <1>3, <1>4, ConcatPlaces

(* What is in the channel is of the kind, and is what carries the ids. *)
LEMMA ContentKind ==
  ASSUME NEW q, NEW M
  PROVE  /\ Content(q, M) \subseteq M
         /\ \A x : x \in Carried(q, M) <=> \E e \in Content(q, M) : x = e.id
BY DEF Content, Carried, Marked

-----------------------------------------------------------------------------
(* Ids.                                                                    *)

(* An id sent joins the others. *)
LEMMA CarriedAppend ==
  ASSUME NEW S, NEW q \in Seq(S), NEW e \in S, NEW M
  PROVE  /\ Carried(Append(q, e), M) = Carried(q, M) \cup (IF e \in M THEN {e.id} ELSE {})
         /\ Distinct(q, M) /\ (e \in M => e.id \notin Carried(q, M))
              => Distinct(Append(q, e), M)
<1>1. PICK t : t = Append(q, e)
  OBVIOUS
<1>2. PICK n : n = Len(q) + 1
  OBVIOUS
<1>3. Marked(t, M) = IF e \in M THEN Marked(q, M) \cup {n} ELSE Marked(q, M)
  BY <1>1, <1>2, AppendPlaces DEF Marked
<1>4. \A i \in Marked(q, M) : t[i] = q[i]
  BY <1>1, AppendPlaces DEF Marked
<1>5. t[n] = e
  BY <1>1, <1>2, AppendPlaces
<1>6. Carried(t, M) = Carried(q, M) \cup (IF e \in M THEN {e.id} ELSE {})
  BY <1>3, <1>4, <1>5 DEF Carried
<1>7. ASSUME Distinct(q, M), e \in M => e.id \notin Carried(q, M),
             NEW i \in Marked(t, M), NEW j \in Marked(t, M), t[i].id = t[j].id
      PROVE  i = j
  BY <1>3, <1>4, <1>5, <1>7 DEF Distinct, Carried
<1> QED
  BY <1>1, <1>6, <1>7 DEF Distinct

(* An id received is gone. *)
LEMMA CarriedTail ==
  ASSUME NEW S, NEW q \in Seq(S), q # <<>>, NEW M
  PROVE  /\ Carried(q, M) = Carried(Tail(q), M) \cup (IF Head(q) \in M THEN {Head(q).id} ELSE {})
         /\ Distinct(q, M) => /\ Distinct(Tail(q), M)
                              /\ Head(q) \in M => Head(q).id \notin Carried(Tail(q), M)
<1>1. PICK t : t = Tail(q)
  OBVIOUS
<1>2. PICK h : h = Head(q)
  OBVIOUS
<1>3. \A i \in Marked(t, M) : i \in Nat \ {0} /\ i + 1 \in Marked(q, M) /\ t[i] = q[i + 1]
  BY <1>1, TailPlaces DEF Marked
<1>4. \A i \in Marked(q, M) : i # 1 => i - 1 \in Marked(t, M) /\ t[i - 1] = q[i]
  <2> SUFFICES ASSUME NEW i \in Marked(q, M), i # 1
               PROVE  i - 1 \in Marked(t, M) /\ t[i - 1] = q[i]
    OBVIOUS
  <2>1. i - 1 \in 1 .. Len(q) - 1 /\ (i - 1) + 1 = i /\ q[i] \in M
    BY TailPlaces DEF Marked
  <2> QED
    BY <1>1, <2>1, TailPlaces DEF Marked
<1>5. (1 \in Marked(q, M) <=> h \in M) /\ h = q[1]
  BY <1>2, TailPlaces DEF Marked
<1>6. \A x : x \in Carried(q, M) => x \in Carried(t, M) \/ (h \in M /\ x = h.id)
  <2> SUFFICES ASSUME NEW i \in Marked(q, M)
               PROVE  q[i].id \in Carried(t, M) \/ (h \in M /\ q[i].id = h.id)
    BY DEF Carried
  <2>1. CASE i = 1
    BY <1>5, <2>1
  <2>2. CASE i # 1
    BY <1>4, <2>2 DEF Carried
  <2> QED
    BY <2>1, <2>2
<1>7. \A x : x \in Carried(t, M) \/ (h \in M /\ x = h.id) => x \in Carried(q, M)
  <2>1. ASSUME NEW i \in Marked(t, M) PROVE t[i].id \in Carried(q, M)
    BY <1>3 DEF Carried
  <2>2. h \in M => h.id \in Carried(q, M)
    BY <1>5 DEF Carried
  <2>3. \A x \in Carried(t, M) : x \in Carried(q, M)
    BY <2>1 DEF Carried
  <2> QED
    BY <2>2, <2>3
<1>8. ASSUME Distinct(q, M), NEW i \in Marked(t, M), NEW j \in Marked(t, M), t[i].id = t[j].id
      PROVE  i = j
  <2>1. q[i + 1].id = q[j + 1].id
    BY <1>3, <1>8
  <2>2. i + 1 = j + 1 /\ i \in Nat /\ j \in Nat
    BY <1>3, <1>8, <2>1 DEF Distinct
  <2> QED
    BY <2>2
<1>9. ASSUME Distinct(q, M), h \in M, NEW i \in Marked(t, M), t[i].id = h.id
      PROVE  FALSE
  <2>1. q[i + 1].id = q[1].id
    BY <1>3, <1>5, <1>9
  <2>2. i + 1 = 1 /\ i \in Nat \ {0}
    BY <1>3, <1>5, <1>9, <2>1 DEF Distinct
  <2> QED
    BY <2>2
<1>10. Distinct(q, M) => Distinct(t, M) /\ (h \in M => h.id \notin Carried(t, M))
  BY <1>8, <1>9 DEF Distinct, Carried
<1>11. Carried(q, M) = Carried(t, M) \cup (IF h \in M THEN {h.id} ELSE {})
  BY <1>6, <1>7
<1> QED
  BY <1>1, <1>2, <1>10, <1>11

(* Ids sent at once. *)
LEMMA CarriedConcat ==
  ASSUME NEW S, NEW q \in Seq(S), NEW p \in Seq(S), NEW M
  PROVE  /\ Carried(q \o p, M) = Carried(q, M) \cup Carried(p, M)
         /\ Distinct(q, M) /\ Distinct(p, M) /\ Carried(q, M) \cap Carried(p, M) = {}
              => Distinct(q \o p, M)
<1>1. PICK t : t = q \o p
  OBVIOUS
<1>2. PICK n : n = Len(q) /\ n \in Nat
  OBVIOUS
<1>3. \A i \in Marked(q, M) : i \in Marked(t, M) /\ t[i] = q[i]
  BY <1>1, ConcatPlaces DEF Marked
<1>4. \A i \in Marked(p, M) : n + i \in Marked(t, M) /\ t[n + i] = p[i]
  BY <1>1, <1>2, ConcatPlaces DEF Marked
<1>5. \A i \in Marked(t, M) : \/ i \in Marked(q, M)
                              \/ \E k \in Marked(p, M) : i = n + k
  <2> SUFFICES ASSUME NEW i \in Marked(t, M), i \notin Marked(q, M)
               PROVE  \E k \in Marked(p, M) : i = n + k
    OBVIOUS
  <2>1. i \in 1 .. n + Len(p) /\ t[i] \in M /\ Len(p) \in Nat
    BY <1>1, <1>2, ConcatPlaces DEF Marked
  <2>2. i > n
    BY <1>1, <1>2, <2>1, ConcatPlaces DEF Marked
  <2>3. i - n \in 1 .. Len(p) /\ i = n + (i - n)
    BY <1>2, <2>1, <2>2
  <2>4. t[n + (i - n)] = p[i - n]
    BY <1>1, <1>2, <2>3, ConcatPlaces
  <2> QED
    BY <2>1, <2>3, <2>4 DEF Marked
<1>6. \A x : x \in Carried(t, M) <=> x \in Carried(q, M) \/ x \in Carried(p, M)
  <2>1. ASSUME NEW i \in Marked(t, M)
        PROVE  t[i].id \in Carried(q, M) \/ t[i].id \in Carried(p, M)
    BY <1>3, <1>4, <1>5 DEF Carried
  <2>2. ASSUME NEW i \in Marked(q, M) PROVE q[i].id \in Carried(t, M)
    BY <1>3 DEF Carried
  <2>3. ASSUME NEW i \in Marked(p, M) PROVE p[i].id \in Carried(t, M)
    BY <1>4 DEF Carried
  <2> QED
    BY <2>1, <2>2, <2>3 DEF Carried
<1>7. ASSUME Distinct(q, M), Distinct(p, M), Carried(q, M) \cap Carried(p, M) = {},
             NEW i \in Marked(t, M), NEW j \in Marked(t, M), t[i].id = t[j].id
      PROVE  i = j
  <2>1. \A x \in Marked(q, M), y \in Marked(p, M) : q[x].id # p[y].id
    BY <1>7 DEF Carried
  <2>2. CASE i \in Marked(q, M) /\ j \in Marked(q, M)
    BY <1>3, <1>7, <2>2 DEF Distinct
  <2>3. CASE i \in Marked(q, M) /\ j \notin Marked(q, M)
    BY <1>3, <1>4, <1>5, <1>7, <2>1, <2>3
  <2>4. CASE i \notin Marked(q, M) /\ j \in Marked(q, M)
    BY <1>3, <1>4, <1>5, <1>7, <2>1, <2>4
  <2>5. CASE i \notin Marked(q, M) /\ j \notin Marked(q, M)
    <3>1. PICK k \in Marked(p, M) : i = n + k
      BY <1>5, <2>5
    <3>2. PICK l \in Marked(p, M) : j = n + l
      BY <1>5, <2>5
    <3>3. p[k].id = p[l].id
      BY <1>4, <1>7, <3>1, <3>2
    <3> QED
      BY <1>7, <3>1, <3>2, <3>3 DEF Distinct
  <2> QED
    BY <2>2, <2>3, <2>4, <2>5
<1>8. Distinct(q, M) /\ Distinct(p, M) /\ Carried(q, M) \cap Carried(p, M) = {} => Distinct(t, M)
  BY <1>7 DEF Distinct
<1> QED
  BY <1>1, <1>6, <1>8

(* As many items as ids, if no id is there twice. *)
LEMMA CountDistinct ==
  ASSUME NEW S, NEW q \in Seq(S), NEW M, Distinct(q, M)
  PROVE  /\ IsFiniteSet(Carried(q, M))
         /\ Cardinality(Carried(q, M)) = Count(q, M)
<1>1. IsFiniteSet(Marked(q, M))
  BY CountType
<1> DEFINE f == [i \in Marked(q, M) |-> q[i].id]
<1>2. f \in Bijection(Marked(q, M), Carried(q, M))
  <2>1. f \in [Marked(q, M) -> Carried(q, M)]
    BY DEF Carried
  <2>2. \A i, j \in Marked(q, M) : f[i] = f[j] => i = j
    BY DEF Distinct
  <2>3. \A x \in Carried(q, M) : \E i \in Marked(q, M) : f[i] = x
    BY DEF Carried
  <2> QED
    BY <2>1, <2>2, <2>3 DEF Bijection, Injection, Surjection, IsInjective
<1> HIDE DEF f
<1> QED
  BY <1>1, <1>2, FS_Bijection DEF ExistsBijection, Count

-----------------------------------------------------------------------------
(* How many items of a kind are ahead of a place.                          *)

Ahead(q, M, i) == Cardinality({j \in Marked(q, M) : j < i})

(* Nothing is ahead of the first item. *)
LEMMA AheadFirst ==
  ASSUME NEW q, NEW M
  PROVE  Ahead(q, M, 1) = 0
<1>1. {j \in Marked(q, M) : j < 1} = {}
  BY DEF Marked
<1> QED
  BY <1>1, FS_EmptySet DEF Ahead

(* Items sent come behind the others. *)
LEMMA AheadConcat ==
  ASSUME NEW S, NEW q \in Seq(S), NEW p \in Seq(S), NEW M
  PROVE  \A i \in 1 .. Len(q) : Ahead(q \o p, M, i) = Ahead(q, M, i)
<1> SUFFICES ASSUME NEW i \in 1 .. Len(q)
             PROVE  Ahead(q \o p, M, i) = Ahead(q, M, i)
  OBVIOUS
<1>1. {j \in Marked(q \o p, M) : j < i} = {j \in Marked(q, M) : j < i}
  BY ConcatPlaces DEF Marked
<1> QED
  BY <1>1 DEF Ahead

(* All the others are ahead of an item sent. *)
LEMMA AheadAppend ==
  ASSUME NEW S, NEW q \in Seq(S), NEW e \in S, NEW M
  PROVE  /\ \A i \in 1 .. Len(q) : Ahead(Append(q, e), M, i) = Ahead(q, M, i)
         /\ Ahead(Append(q, e), M, Len(q) + 1) = Count(q, M)
<1>1. ASSUME NEW i \in 1 .. Len(q)
      PROVE  {j \in Marked(Append(q, e), M) : j < i} = {j \in Marked(q, M) : j < i}
  BY AppendPlaces DEF Marked
<1>2. {j \in Marked(Append(q, e), M) : j < Len(q) + 1} = Marked(q, M)
  BY AppendPlaces DEF Marked
<1> QED
  BY <1>1, <1>2 DEF Ahead, Count

(* The item received was ahead of the others. *)
LEMMA AheadTail ==
  ASSUME NEW S, NEW q \in Seq(S), q # <<>>, NEW M, NEW i \in 1 .. Len(Tail(q))
  PROVE  /\ Ahead(q, M, i + 1) = Ahead(Tail(q), M, i) + (IF Head(q) \in M THEN 1 ELSE 0)
         /\ Ahead(Tail(q), M, i) \in Nat
<1>1. Tail(q) \in Seq(S)
  BY TailPlaces
<1> DEFINE T == {j \in Marked(Tail(q), M) : j < i}
           R == {j \in Marked(q, M) : j < i + 1 /\ j # 1}
           A == {j \in Marked(q, M) : j < i + 1}
           f == [j \in T |-> j + 1]
<1>2. IsFiniteSet(T) /\ Cardinality(T) \in Nat
  <2>1. IsFiniteSet(Marked(Tail(q), M))
    BY <1>1, CountType
  <2>2. T \in SUBSET Marked(Tail(q), M)
    OBVIOUS
  <2> HIDE DEF T
  <2> QED
    BY <2>1, <2>2, FS_Subset, FS_CardinalityType
<1>3. f \in Bijection(T, R)
  <2>1. \A j \in T : j \in Nat /\ j + 1 \in R
    BY TailPlaces DEF Marked
  <2>2. \A j \in R : j \in Nat /\ j - 1 \in T /\ (j - 1) + 1 = j
    BY TailPlaces DEF Marked
  <2> HIDE DEF T, R
  <2>3. \A j, k \in T : f[j] = f[k] => j = k
    BY <2>1
  <2>4. \A k \in R : \E j \in T : f[j] = k
    BY <2>2
  <2>5. f \in [T -> R]
    BY <2>1
  <2> QED
    BY <2>3, <2>4, <2>5 DEF Bijection, Injection, Surjection, IsInjective
<1>4. IsFiniteSet(R) /\ Cardinality(R) = Cardinality(T)
  <2> HIDE DEF f, R, T
  <2> QED
    BY <1>2, <1>3, FS_Bijection DEF ExistsBijection
<1>5. 1 \notin R
  OBVIOUS
<1>6. A = IF Head(q) \in M THEN R \cup {1} ELSE R
  BY TailPlaces DEF Marked
<1>7. Cardinality(R \cup {1}) = Cardinality(R) + 1
  <2> HIDE DEF R
  <2> QED
    BY <1>4, <1>5, FS_AddElement
<1>8. Ahead(Tail(q), M, i) = Cardinality(T) /\ Ahead(q, M, i + 1) = Cardinality(A)
  BY DEF Ahead
<1> HIDE DEF R, T, A
<1> QED
  BY <1>2, <1>4, <1>6, <1>7, <1>8

=============================================================================
