----------------------------- MODULE FeedProofs ------------------------------
(****************************************************************************)
(* Theorems about the feed, for every set of connections and latencies and  *)
(* every limit. What is shown as sent was sent there, and each message once *)
(* (OnePlace, CarriedOut); what is received is shown in order (InOrder);    *)
(* answered statistics are those of the samples (Sound); and charts count   *)
(* the marks of their window (ChartsTold). Lists come first: inductions,    *)
(* filters and sorts.                                                       *)
(****************************************************************************)
EXTENDS Feed, SequenceTheorems, FiniteSetTheorems, WellFoundedInduction, TLAPS

------------------------------------------------------------------------------
(* Induction: over the natural numbers and over sequences, for a set of     *)
(* those that have a property.                                              *)

Less == OpToRel(<, Nat)

\* A set that has 0, and with a number the next one, has them all.
LEMMA NatInSet ==
    ASSUME NEW S, 0 \in S, \A n \in Nat : n \in S => n + 1 \in S
    PROVE  Nat \subseteq S
    <1> SUFFICES ASSUME Nat \ S # {} PROVE FALSE
        OBVIOUS
    <1>1. IsWellFoundedOn(Less, Nat)
        BY NatLessThanWellFounded DEF Less
    <1>2. PICK m \in Nat \ S : \A n \in Nat \ S : ~ (<<n, m>> \in Less)
        BY <1>1, WFMin
    <1>3. m - 1 \in Nat
        BY <1>2
    <1>4. <<m - 1, m>> \in Less
        BY <1>3 DEF Less, OpToRel
    <1>5. m - 1 \in S
        BY <1>2, <1>3, <1>4
    <1> QED
        BY <1>3, <1>5

\* A set that has the empty sequence, and with a sequence every one that is one
\* element longer, has them all.
LEMMA SeqInSet ==
    ASSUME NEW T, NEW S, <<>> \in S,
           \A q \in Seq(T), e \in T : q \in S => Append(q, e) \in S
    PROVE  Seq(T) \subseteq S
    <1> DEFINE N == {n \in Nat : \A q \in Seq(T) : Len(q) = n => q \in S}
    <1>1. 0 \in N
        BY EmptySeq
    <1>2. ASSUME NEW n \in Nat, n \in N PROVE n + 1 \in N
        <2> SUFFICES ASSUME NEW q \in Seq(T), Len(q) = n + 1 PROVE q \in S
            OBVIOUS
        <2>1. q # <<>>
            BY EmptySeq
        <2>2. PICK r \in Seq(T), e \in T : q = Append(r, e)
            BY <2>1, SequenceEmptyOrAppend
        <2>3. Len(r) = n
            BY <2>2, AppendProperties
        <2> QED
            BY <1>2, <2>2, <2>3
    <1> HIDE DEF N
    <1>3. Nat \subseteq N
        BY <1>1, <1>2, NatInSet
    <1> QED
        BY <1>3, LenProperties DEF N

------------------------------------------------------------------------------
(* What list.filter returns.                                                *)

\* The recursion of Selected, up to the n-th element.
Selects(f, list, places, n) ==
    f = [k \in 0..n |-> IF k = 0 THEN <<>>
                        ELSE IF k \in places THEN Append(f[k - 1], list[k]) ELSE f[k - 1]]

\* A function that selects up to the n-th element is the only one.
LEMMA SelectsOnce ==
    ASSUME NEW list, NEW places, NEW n \in Nat, NEW f, NEW g,
           Selects(f, list, places, n), Selects(g, list, places, n)
    PROVE  f = g
    <1> DEFINE N == {k \in Nat : k <= n => f[k] = g[k]}
    <1>1. 0 \in N
        BY DEF Selects
    <1>2. ASSUME NEW k \in Nat, k \in N PROVE k + 1 \in N
        <2> SUFFICES ASSUME k + 1 <= n PROVE f[k + 1] = g[k + 1]
            OBVIOUS
        <2>1. k + 1 \in 0..n /\ k + 1 # 0 /\ (k + 1) - 1 = k
            OBVIOUS
        <2>2. /\ f[k + 1] = IF k + 1 \in places THEN Append(f[k], list[k + 1]) ELSE f[k]
              /\ g[k + 1] = IF k + 1 \in places THEN Append(g[k], list[k + 1]) ELSE g[k]
            BY <2>1 DEF Selects
        <2>3. f[k] = g[k]
            BY <1>2
        <2> QED
            BY <2>2, <2>3
    <1>3. Nat \subseteq N
        BY <1>1, <1>2, NatInSet
    <1>4. \A k \in 0..n : f[k] = g[k]
        BY <1>3
    <1> QED
        BY <1>4 DEF Selects

\* There is one.
LEMMA SelectsSome ==
    ASSUME NEW list, NEW places, NEW n \in Nat
    PROVE  \E f : Selects(f, list, places, n)
    <1> DEFINE N == {k \in Nat : \E f : Selects(f, list, places, k)}
    <1>1. 0 \in N
        <2>1. Selects([k \in 0..0 |-> <<>>], list, places, 0)
            BY DEF Selects
        <2> QED
            BY <2>1
    <1>2. ASSUME NEW k \in Nat, k \in N PROVE k + 1 \in N
        <2>1. PICK f : Selects(f, list, places, k)
            BY <1>2
        <2> DEFINE more == IF k + 1 \in places THEN Append(f[k], list[k + 1]) ELSE f[k]
                   g == [i \in 0..k + 1 |-> IF i = k + 1 THEN more ELSE f[i]]
        <2>2. ASSUME NEW i \in 0..k + 1
              PROVE  g[i] = IF i = 0 THEN <<>>
                            ELSE IF i \in places THEN Append(g[i - 1], list[i])
                                 ELSE g[i - 1]
            <3>1. CASE i = k + 1
                <4>1. i # 0 /\ i - 1 = k /\ k \in 0..k + 1 /\ k # k + 1
                    BY <3>1
                <4>2. g[k] = f[k] /\ g[i] = more
                    BY <3>1, <4>1
                <4> QED
                    BY <3>1, <4>1, <4>2
            <3>2. CASE i \in 0..k
                <4>1. i # k + 1 /\ g[i] = f[i]
                    BY <3>2
                <4>2. i # 0 => i - 1 \in 0..k + 1 /\ i - 1 # k + 1 /\ g[i - 1] = f[i - 1]
                    BY <3>2
                <4>3. f[i] = IF i = 0 THEN <<>>
                             ELSE IF i \in places THEN Append(f[i - 1], list[i])
                                  ELSE f[i - 1]
                    BY <2>1, <3>2 DEF Selects
                <4> HIDE DEF g
                <4> QED
                    BY <4>1, <4>2, <4>3
            <3> QED
                BY <3>1, <3>2
        <2>3. g = [i \in 0..k + 1 |->
                      IF i = 0 THEN <<>>
                      ELSE IF i \in places THEN Append(g[i - 1], list[i]) ELSE g[i - 1]]
            BY <2>2
        <2>4. Selects(g, list, places, k + 1)
            BY <2>3 DEF Selects
        <2> QED
            BY <2>4
    <1> HIDE DEF N
    <1>3. Nat \subseteq N
        BY <1>1, <1>2, NatInSet
    <1> QED
        BY <1>3 DEF N

\* A function that goes through the list the way Selected does ends with
\* what Selected is.
LEMMA SelectedIs ==
    ASSUME NEW list, NEW places, Len(list) \in Nat,
           NEW f, Selects(f, list, places, Len(list))
    PROVE  Selected(list, places) = f[Len(list)]
    <1> DEFINE g == CHOOSE h : Selects(h, list, places, Len(list))
    <1>1. Selects(g, list, places, Len(list))
        OBVIOUS
    <1>2. g = f
        BY <1>1, SelectsOnce
    <1>3. Selected(list, places) = g[Len(list)]
        BY DEF Selected, Selects
    <1> QED
        BY <1>2, <1>3

\* Of nothing, nothing is selected.
LEMMA SelectedEmpty == \A places : Selected(<<>>, places) = <<>>
    <1> TAKE places
    <1>1. PICK f : Selects(f, <<>>, places, Len(<<>>))
        BY EmptySeq, SelectsSome
    <1>2. Selected(<<>>, places) = f[Len(<<>>)]
        BY <1>1, EmptySeq, SelectedIs
    <1> QED
        BY <1>1, <1>2, EmptySeq DEF Selects

\* An element more at the end is selected if its place is.
LEMMA SelectedAppend ==
    ASSUME NEW T, NEW list \in Seq(T), NEW e \in T, NEW places
    PROVE  Selected(Append(list, e), places) =
               IF Len(list) + 1 \in places THEN Append(Selected(list, places), e)
               ELSE Selected(list, places)
    <1> DEFINE n == Len(list)
               longer == Append(list, e)
    <1>1. /\ n \in Nat /\ Len(longer) = n + 1
          /\ longer[n + 1] = e
          /\ \A i \in 1..n : longer[i] = list[i]
        BY AppendProperties, LenProperties
    <1> HIDE DEF n, longer
    <1>0. n + 1 \in Nat
        BY <1>1
    <1>2. PICK f : Selects(f, longer, places, n + 1)
        BY <1>0, SelectsSome
    <1> DEFINE g == [k \in 0..n |-> f[k]]
    <1>3. ASSUME NEW k \in 0..n
          PROVE  g[k] = IF k = 0 THEN <<>>
                        ELSE IF k \in places THEN Append(g[k - 1], list[k]) ELSE g[k - 1]
        <2>1. k \in 0..n + 1 /\ g[k] = f[k]
            BY <1>1
        <2>2. k # 0 => k - 1 \in 0..n /\ g[k - 1] = f[k - 1] /\ longer[k] = list[k]
            BY <1>1
        <2>3. f[k] = IF k = 0 THEN <<>>
                     ELSE IF k \in places THEN Append(f[k - 1], longer[k]) ELSE f[k - 1]
            BY <1>2, <2>1 DEF Selects
        <2> HIDE DEF g
        <2> QED
            BY <2>1, <2>2, <2>3
    <1>4. g = [k \in 0..n |-> IF k = 0 THEN <<>>
                              ELSE IF k \in places THEN Append(g[k - 1], list[k])
                                   ELSE g[k - 1]]
        BY <1>3
    <1>5. g[n] = f[n]
        BY <1>1
    <1> HIDE DEF g
    <1>6. Selected(list, places) = f[n]
        <2>1. Selects(g, list, places, n)
            BY <1>4 DEF Selects
        <2> QED
            BY <1>1, <1>5, <2>1, SelectedIs DEF n
    <1>7. Selected(longer, places) = f[n + 1]
        BY <1>1, <1>2, SelectedIs
    <1>8. n + 1 \in 0..n + 1 /\ n + 1 # 0 /\ (n + 1) - 1 = n
        BY <1>1
    <1>9. f[n + 1] = IF n + 1 \in places THEN Append(f[n], longer[n + 1]) ELSE f[n]
        BY <1>2, <1>8 DEF Selects
    <1> QED
        BY <1>1, <1>6, <1>7, <1>9 DEF n, longer

\* Only the places that the list has matter.
LEMMA SelectedSame ==
    ASSUME NEW list, Len(list) \in Nat, NEW places, NEW others,
           \A i \in 1..Len(list) : i \in places <=> i \in others
    PROVE  Selected(list, places) = Selected(list, others)
    <1>1. PICK f : Selects(f, list, places, Len(list))
        BY SelectsSome
    <1>2. ASSUME NEW k \in 0..Len(list)
          PROVE  f[k] = IF k = 0 THEN <<>>
                        ELSE IF k \in others THEN Append(f[k - 1], list[k]) ELSE f[k - 1]
        <2>1. k # 0 => (k \in places <=> k \in others)
            OBVIOUS
        <2> QED
            BY <1>1, <2>1 DEF Selects
    <1>3. DOMAIN f = 0..Len(list) /\ f = [k \in DOMAIN f |-> f[k]]
        BY <1>1 DEF Selects
    <1>4. Selects(f, list, others, Len(list))
        BY <1>2, <1>3 DEF Selects
    <1> QED
        BY <1>1, <1>4, SelectedIs

------------------------------------------------------------------------------
(* Filters that look at the elements: those of a set are picked.            *)

Picked(list, A) == Selected(list, {i \in DOMAIN list : list[i] \in A})

\* Of nothing, nothing is picked.
LEMMA PickedEmpty == \A A : Picked(<<>>, A) = <<>>
    BY SelectedEmpty DEF Picked

\* An element more at the end is picked if it is one of A.
LEMMA PickedAppend ==
    ASSUME NEW T, NEW list \in Seq(T), NEW e \in T, NEW A
    PROVE  Picked(Append(list, e), A) =
               IF e \in A THEN Append(Picked(list, A), e) ELSE Picked(list, A)
    <1> DEFINE longer == Append(list, e)
               I == {i \in DOMAIN list : list[i] \in A}
               J == {i \in DOMAIN longer : longer[i] \in A}
    <1>1. /\ Len(list) \in Nat
          /\ DOMAIN list = 1..Len(list) /\ DOMAIN longer = 1..Len(list) + 1
          /\ longer[Len(list) + 1] = e
          /\ \A i \in 1..Len(list) : longer[i] = list[i]
        BY AppendProperties, LenProperties
    <1> HIDE DEF longer
    <1>2. \A i \in 1..Len(list) : i \in I <=> i \in J
        BY <1>1
    <1>3. Len(list) + 1 \in J <=> e \in A
        BY <1>1
    <1> HIDE DEF I, J
    <1>4. Selected(list, I) = Selected(list, J)
        BY <1>1, <1>2, SelectedSame
    <1>5. Selected(longer, J) = IF Len(list) + 1 \in J THEN Append(Selected(list, J), e)
                                ELSE Selected(list, J)
        BY SelectedAppend DEF longer
    <1> QED
        BY <1>3, <1>4, <1>5 DEF Picked, I, J, longer

\* What is picked is of the list's type and of A.
LEMMA PickedType ==
    ASSUME NEW T, NEW list \in Seq(T), NEW A
    PROVE  Picked(list, A) \in Seq(T \cap A)
    <1> DEFINE S == {q \in Seq(T) : Picked(q, A) \in Seq(T \cap A)}
    <1>1. <<>> \in S
        BY PickedEmpty, EmptySeq
    <1>2. ASSUME NEW q \in Seq(T), NEW e \in T, q \in S PROVE Append(q, e) \in S
        <2>1. Append(q, e) \in Seq(T)
            BY AppendProperties
        <2>2. Picked(q, A) \in Seq(T \cap A)
            BY <1>2
        <2>3. Picked(Append(q, e), A) = IF e \in A THEN Append(Picked(q, A), e)
                                        ELSE Picked(q, A)
            BY PickedAppend
        <2>4. CASE e \in A
            <3>1. e \in T \cap A
                BY <2>4
            <3>2. Append(Picked(q, A), e) \in Seq(T \cap A)
                BY <2>2, <3>1, AppendProperties
            <3> QED
                BY <2>1, <2>3, <2>4, <3>2
        <2> QED
            BY <2>1, <2>2, <2>3, <2>4
    <1> HIDE DEF S
    <1>3. Seq(T) \subseteq S
        BY <1>1, <1>2, SeqInSet
    <1> QED
        BY <1>3 DEF S

\* What is picked is of the list's type.
LEMMA PickedSeq ==
    ASSUME NEW T, NEW list \in Seq(T), NEW A
    PROVE  Picked(list, A) \in Seq(T)
    <1>1. Picked(list, A) \in Seq(T \cap A) /\ T \cap A \subseteq T
        BY PickedType
    <1> QED
        BY <1>1, SeqMonotonic

\* A filter of a filter keeps what both would keep.
LEMMA PickedTwice ==
    ASSUME NEW T, NEW list \in Seq(T), NEW A, NEW B
    PROVE  Picked(Picked(list, A), B) = Picked(list, A \cap B)
    <1> DEFINE S == {q \in Seq(T) : Picked(Picked(q, A), B) = Picked(q, A \cap B)}
    <1>1. <<>> \in S
        BY PickedEmpty, EmptySeq
    <1>2. ASSUME NEW q \in Seq(T), NEW e \in T, q \in S PROVE Append(q, e) \in S
        <2>1. /\ Picked(Append(q, e), A) = IF e \in A THEN Append(Picked(q, A), e)
                                           ELSE Picked(q, A)
              /\ Picked(Append(q, e), A \cap B) =
                     IF e \in A \cap B THEN Append(Picked(q, A \cap B), e)
                     ELSE Picked(q, A \cap B)
            BY PickedAppend
        <2>2. Picked(q, A) \in Seq(T)
            BY PickedSeq
        <2> DEFINE p == Picked(q, A)
        <2>3. Picked(Append(p, e), B) = IF e \in B THEN Append(Picked(p, B), e)
                                        ELSE Picked(p, B)
            BY <2>2, PickedAppend
        <2>4. Picked(p, B) = Picked(q, A \cap B) /\ Append(q, e) \in Seq(T)
            BY <1>2, AppendProperties
        <2> HIDE DEF p
        <2>5. Picked(Picked(Append(q, e), A), B) = Picked(Append(q, e), A \cap B)
            <3>1. CASE e \in A
                <4>1. Picked(Append(q, e), A) = Append(p, e)
                    BY <2>1, <3>1 DEF p
                <4>2. e \in A \cap B <=> e \in B
                    BY <3>1
                <4> QED
                    BY <2>1, <2>3, <2>4, <4>1, <4>2
            <3>2. CASE e \notin A
                <4>1. Picked(Append(q, e), A) = p /\ e \notin A \cap B
                    BY <2>1, <3>2 DEF p
                <4> QED
                    BY <2>1, <2>4, <4>1
            <3> QED
                BY <3>1, <3>2
        <2> QED
            BY <2>4, <2>5
    <1> HIDE DEF S
    <1>3. Seq(T) \subseteq S
        BY <1>1, <1>2, SeqInSet
    <1> QED
        BY <1>3 DEF S

\* What is picked of a list is what is picked of its head and of its tail.
LEMMA PickedTail ==
    ASSUME NEW T, NEW list \in Seq(T), list # <<>>, NEW A
    PROVE  Picked(list, A) = IF list[1] \in A THEN <<list[1]>> \o Picked(Tail(list), A)
                             ELSE Picked(Tail(list), A)
    <1> DEFINE Good(q) ==
                   Picked(q, A) = IF q[1] \in A THEN <<q[1]>> \o Picked(Tail(q), A)
                                  ELSE Picked(Tail(q), A)
               S == {q \in Seq(T) : q # <<>> => Good(q)}
    <1>1. <<>> \in S
        BY EmptySeq
    <1>2. ASSUME NEW q \in Seq(T), NEW e \in T, q \in S PROVE Append(q, e) \in S
        <2>1. Append(q, e) \in Seq(T)
            BY AppendProperties
        <2>2. CASE q = <<>>
            <3>0. Len(q) = 0
                BY <2>2, EmptySeq
            <3>1. Append(q, e)[1] = e /\ Tail(Append(q, e)) = <<>>
                <4>1. Append(q, e)[Len(q) + 1] = e
                    BY AppendProperties
                <4>2. Tail(Append(q, e)) = <<>>
                    BY <2>2, HeadTailAppend
                <4> QED
                    BY <3>0, <4>1, <4>2
            <3>2. Picked(Append(q, e), A) = IF e \in A THEN Append(<<>>, e) ELSE <<>>
                <4>1. Picked(q, A) = <<>>
                    BY <2>2, PickedEmpty
                <4>2. Picked(Append(q, e), A) = IF e \in A THEN Append(Picked(q, A), e)
                                                ELSE Picked(q, A)
                    BY PickedAppend
                <4> QED
                    BY <4>1, <4>2
            <3>3. <<e>> \o <<>> = Append(<<>>, e)
                BY EmptySeq
            <3> QED
                BY <2>1, <3>1, <3>2, <3>3, PickedEmpty
        <2>3. CASE q # <<>>
            <3> DEFINE t == Tail(q)
            <3>1. /\ Append(q, e)[1] = q[1] /\ q[1] \in T
                  /\ Tail(Append(q, e)) = Append(t, e)
                  /\ t \in Seq(T)
                BY <2>3, EmptySeq, AppendProperties, HeadTailAppend, HeadTailProperties,
                   LenProperties, ElementOfSeq
            <3> HIDE DEF t
            <3>2. /\ Picked(Append(q, e), A) = IF e \in A THEN Append(Picked(q, A), e)
                                               ELSE Picked(q, A)
                  /\ Picked(Append(t, e), A) = IF e \in A THEN Append(Picked(t, A), e)
                                               ELSE Picked(t, A)
                BY <3>1, PickedAppend
            <3>3. Good(q)
                BY <1>2, <2>3
            <3>4. Picked(t, A) \in Seq(T)
                BY <3>1, PickedSeq
            <3> DEFINE p == Picked(t, A)
                       h == <<q[1]>>
            <3>5. h \in Seq(T)
                BY <3>1
            <3>6. Append(h \o p, e) = h \o Append(p, e)
                <4> HIDE DEF h, p
                <4>1. p \in Seq(T) /\ <<e>> \in Seq(T)
                    BY <3>4 DEF p
                <4>2. Append(p, e) = p \o <<e>> /\ Append(h \o p, e) = (h \o p) \o <<e>>
                    BY <3>5, <4>1, AppendIsConcat, ConcatProperties
                <4> QED
                    BY <3>5, <4>1, <4>2, ConcatAssociative, SMTT(30)
            <3>7. Picked(q, A) = IF q[1] \in A THEN h \o p ELSE p
                BY <3>3 DEF t
            <3> HIDE DEF h, p
            <3>8. Picked(Append(q, e), A) = IF q[1] \in A THEN h \o Picked(Append(t, e), A)
                                            ELSE Picked(Append(t, e), A)
                BY <3>2, <3>6, <3>7 DEF p
            <3> QED
                BY <2>1, <3>1, <3>8 DEF h
        <2> QED
            BY <2>2, <2>3
    <1> HIDE DEF S
    <1>3. Seq(T) \subseteq S
        BY <1>1, <1>2, SeqInSet
    <1>4. list \in S
        BY <1>3
    <1> QED
        BY <1>4 DEF S

\* What is picked is of the list, and of the set.
LEMMA PickedFrom ==
    ASSUME NEW T, NEW list \in Seq(T), NEW A, NEW i \in 1..Len(Picked(list, A))
    PROVE  /\ Picked(list, A)[i] \in T \cap A
           /\ \E k \in 1..Len(list) : Picked(list, A)[i] = list[k]
    <1> DEFINE S == {q \in Seq(T) : \A n \in 1..Len(Picked(q, A)) :
                                       \E k \in 1..Len(q) : Picked(q, A)[n] = q[k]}
    <1>1. <<>> \in S
        BY PickedEmpty, EmptySeq
    <1>2. ASSUME NEW q \in Seq(T), NEW e \in T, q \in S PROVE Append(q, e) \in S
        <2> DEFINE p == Picked(q, A)
                   r == Append(q, e)
        <2>1. /\ r \in Seq(T) /\ Len(r) = Len(q) + 1 /\ Len(q) \in Nat
              /\ r[Len(q) + 1] = e
              /\ \A k \in 1..Len(q) : r[k] = q[k]
            BY AppendProperties, LenProperties
        <2>2. p \in Seq(T) /\ Len(p) \in Nat
            BY PickedSeq, LenProperties
        <2>3. Picked(r, A) = IF e \in A THEN Append(p, e) ELSE p
            BY PickedAppend
        <2>4. \A n \in 1..Len(p) : \E k \in 1..Len(q) : p[n] = q[k]
            BY <1>2
        <2> HIDE DEF p, r
        <2>5. ASSUME NEW n \in 1..Len(Picked(r, A))
              PROVE  \E k \in 1..Len(r) : Picked(r, A)[n] = r[k]
            <3>1. CASE n \in 1..Len(p)
                <4>1. Picked(r, A)[n] = p[n]
                    BY <2>2, <2>3, <3>1, AppendProperties
                <4>2. PICK k \in 1..Len(q) : p[n] = q[k]
                    BY <2>4, <3>1
                <4> QED
                    BY <2>1, <4>1, <4>2
            <3>2. CASE n \notin 1..Len(p)
                <4>1. e \in A
                    BY <2>3, <3>2
                <4>2. n = Len(p) + 1 /\ Append(p, e)[Len(p) + 1] = e
                    BY <2>2, <2>3, <3>2, <4>1, AppendProperties
                <4>3. Picked(r, A)[n] = r[Len(q) + 1] /\ Len(q) + 1 \in 1..Len(r)
                    BY <2>1, <2>3, <4>1, <4>2
                <4> QED
                    BY <4>3
            <3> QED
                BY <3>1, <3>2
        <2> QED
            BY <2>1, <2>5 DEF r
    <1> HIDE DEF S
    <1>3. list \in S
        BY <1>1, <1>2, SeqInSet
    <1>4. Picked(list, A)[i] \in T \cap A
        BY PickedType, ElementOfSeq
    <1> QED
        BY <1>3, <1>4 DEF S

\* What is picked is in the order of the list.
LEMMA PickedOrder ==
    ASSUME NEW T, NEW list \in Seq(T), NEW A,
           NEW i \in 1..Len(Picked(list, A)), NEW j \in 1..Len(Picked(list, A)), i < j
    PROVE  \E k, l \in 1..Len(list) :
               k < l /\ Picked(list, A)[i] = list[k] /\ Picked(list, A)[j] = list[l]
    <1> DEFINE S == {q \in Seq(T) : \A m, n \in 1..Len(Picked(q, A)) : m < n =>
                        \E k, l \in 1..Len(q) :
                           k < l /\ Picked(q, A)[m] = q[k] /\ Picked(q, A)[n] = q[l]}
    <1>1. <<>> \in S
        BY PickedEmpty, EmptySeq
    <1>2. ASSUME NEW q \in Seq(T), NEW e \in T, q \in S PROVE Append(q, e) \in S
        <2> DEFINE p == Picked(q, A)
                   r == Append(q, e)
        <2>1. /\ r \in Seq(T) /\ Len(r) = Len(q) + 1 /\ Len(q) \in Nat
              /\ r[Len(q) + 1] = e
              /\ \A k \in 1..Len(q) : r[k] = q[k]
            BY AppendProperties, LenProperties
        <2>2. p \in Seq(T) /\ Len(p) \in Nat
            BY PickedSeq, LenProperties
        <2>3. Picked(r, A) = IF e \in A THEN Append(p, e) ELSE p
            BY PickedAppend
        <2>4. \A m, n \in 1..Len(p) : m < n =>
                 \E k, l \in 1..Len(q) : k < l /\ p[m] = q[k] /\ p[n] = q[l]
            BY <1>2
        <2>5. \A m \in 1..Len(p) : \E k \in 1..Len(q) : p[m] = q[k]
            BY PickedFrom
        <2> HIDE DEF p, r
        <2>6. ASSUME NEW m \in 1..Len(Picked(r, A)), NEW n \in 1..Len(Picked(r, A)), m < n
              PROVE  \E k, l \in 1..Len(r) :
                        k < l /\ Picked(r, A)[m] = r[k] /\ Picked(r, A)[n] = r[l]
            <3>0. Len(Picked(r, A)) \in {Len(p), Len(p) + 1}
                BY <2>2, <2>3, AppendProperties
            <3>1. m \in 1..Len(p) /\ Picked(r, A)[m] = p[m]
                <4>1. m \in 1..Len(p)
                    BY <2>2, <2>6, <3>0
                <4> QED
                    BY <2>2, <2>3, <4>1, AppendProperties
            <3>2. CASE n \in 1..Len(p)
                <4>1. Picked(r, A)[n] = p[n]
                    BY <2>2, <2>3, <3>2, AppendProperties
                <4>2. PICK k, l \in 1..Len(q) : k < l /\ p[m] = q[k] /\ p[n] = q[l]
                    BY <2>4, <2>6, <3>1, <3>2
                <4>3. k \in 1..Len(r) /\ l \in 1..Len(r) /\ r[k] = q[k] /\ r[l] = q[l]
                    BY <2>1
                <4> QED
                    BY <3>1, <4>1, <4>2, <4>3
            <3>3. CASE n \notin 1..Len(p)
                <4>1. e \in A
                    BY <2>3, <3>3
                <4>2. n = Len(p) + 1 /\ Append(p, e)[Len(p) + 1] = e
                    BY <2>2, <2>3, <3>3, <4>1, AppendProperties
                <4>3. Picked(r, A)[n] = r[Len(q) + 1] /\ Len(q) + 1 \in 1..Len(r)
                    BY <2>1, <2>3, <4>1, <4>2
                <4>4. PICK k \in 1..Len(q) : p[m] = q[k]
                    BY <2>5, <3>1
                <4>5. k \in 1..Len(r) /\ r[k] = q[k] /\ k < Len(q) + 1
                    BY <2>1
                <4> QED
                    BY <3>1, <4>3, <4>4, <4>5
            <3> QED
                BY <3>2, <3>3
        <2> QED
            BY <2>1, <2>6 DEF r
    <1> HIDE DEF S
    <1>3. list \in S
        BY <1>1, <1>2, SeqInSet
    <1> QED
        BY <1>3 DEF S

\* Nothing of the set is left out.
LEMMA PickedAll ==
    ASSUME NEW T, NEW list \in Seq(T), NEW A, NEW k \in 1..Len(list), list[k] \in A
    PROVE  \E i \in 1..Len(Picked(list, A)) : Picked(list, A)[i] = list[k]
    <1> DEFINE S == {q \in Seq(T) : \A n \in 1..Len(q) : q[n] \in A =>
                        \E i \in 1..Len(Picked(q, A)) : Picked(q, A)[i] = q[n]}
    <1>1. <<>> \in S
        BY EmptySeq
    <1>2. ASSUME NEW q \in Seq(T), NEW e \in T, q \in S PROVE Append(q, e) \in S
        <2> DEFINE p == Picked(q, A)
                   r == Append(q, e)
        <2>1. /\ r \in Seq(T) /\ Len(r) = Len(q) + 1 /\ Len(q) \in Nat
              /\ r[Len(q) + 1] = e
              /\ \A n \in 1..Len(q) : r[n] = q[n]
            BY AppendProperties, LenProperties
        <2>2. p \in Seq(T) /\ Len(p) \in Nat
            BY PickedSeq, LenProperties
        <2>3. Picked(r, A) = IF e \in A THEN Append(p, e) ELSE p
            BY PickedAppend
        <2>4. \A n \in 1..Len(q) : q[n] \in A => \E i \in 1..Len(p) : p[i] = q[n]
            BY <1>2
        <2> HIDE DEF p, r
        <2>5. ASSUME NEW n \in 1..Len(r), r[n] \in A
              PROVE  \E i \in 1..Len(Picked(r, A)) : Picked(r, A)[i] = r[n]
            <3>1. CASE n \in 1..Len(q)
                <4>1. PICK i \in 1..Len(p) : p[i] = q[n]
                    BY <2>1, <2>4, <2>5, <3>1
                <4>2. i \in 1..Len(Picked(r, A)) /\ Picked(r, A)[i] = p[i]
                    BY <2>2, <2>3, AppendProperties
                <4> QED
                    BY <2>1, <3>1, <4>1, <4>2
            <3>2. CASE n = Len(q) + 1
                <4>1. Picked(r, A) = Append(p, e)
                    BY <2>1, <2>3, <2>5, <3>2
                <4>2. Len(p) + 1 \in 1..Len(Picked(r, A)) /\ Picked(r, A)[Len(p) + 1] = e
                    BY <2>2, <4>1, AppendProperties
                <4> QED
                    BY <2>1, <3>2, <4>2
            <3> QED
                BY <2>1, <3>1, <3>2
        <2> QED
            BY <2>1, <2>5 DEF r
    <1> HIDE DEF S
    <1>3. list \in S
        BY <1>1, <1>2, SeqInSet
    <1> QED
        BY <1>3 DEF S

------------------------------------------------------------------------------
(* The inductive invariants.                                                *)

Direction == {"received", "sent", "system"}
Message == [conn : Conns, direction : Direction, id : Nat]
Due == [conn : Conns, id : Nat]
Event == [conn : Conns, type : {"received", "sent", "pong", "error", "status"},
          id : Nat, latency : Nat]
Call == [conn : Conns, id : Nat, state : {"asked", "sent", "refused"}]

FeedType ==
    /\ wire \in Seq(Event)
    /\ calls \in SUBSET Call
    /\ shownConn \in Conns \cup {NoConn}
    /\ messages \in Seq(Message)
    /\ delayed \in Seq(Due)
    /\ now \in 0..MaxTime
    /\ traffic \in Nat
    /\ came \in [Conns -> Seq(Nat)]
    /\ lost \in [Conns -> Nat]

Distinct(list) == \A i, j \in DOMAIN list : list[i].id = list[j].id => i = j
IdSet(list) == {list[i].id : i \in DOMAIN list}
CallIds == {call.id : call \in calls}

\* The events that will be shown under their own number.
Told == Picked(wire, {ev \in Event : ev.type # "sent"})

\* A number is in one place only: with a message that is shown, with one whose
\* timer runs, with an event in flight, or with a call that is not answered.
OnePlace ==
    /\ Distinct(messages) /\ Distinct(delayed) /\ Distinct(Told)
    /\ \A call, other \in calls : call.id = other.id => call = other
    /\ IdSet(messages) \cap IdSet(delayed) = {}
    /\ IdSet(messages) \cap IdSet(Told) = {}
    /\ IdSet(messages) \cap CallIds = {}
    /\ IdSet(delayed) \cap IdSet(Told) = {}
    /\ IdSet(delayed) \cap CallIds = {}
    /\ IdSet(Told) \cap CallIds = {}
    /\ IdSet(messages) \cup IdSet(delayed) \cup IdSet(Told) \cup CallIds \subseteq 0..traffic

\* What is shown as sent, and what is about to be, was carried out.
CarriedOut ==
    /\ \A i \in DOMAIN messages : messages[i].direction = "sent" =>
          <<messages[i].conn, messages[i].id>> \in sentOk
    /\ \A call \in calls : call.state = "sent" => <<call.conn, call.id>> \in sentOk

------------------------------------------------------------------------------
(* Types.                                                                   *)

\* addMessage keeps a list of messages, of those it had and the one it adds.
LEMMA AddedMessageType ==
    ASSUME messages \in Seq(Message), NEW m \in Message
    PROVE  /\ AddedMessage(m) \in Seq(Message)
           /\ Len(messages) >= MaxMessages => messages # <<>>
    <1>1. Len(messages) >= MaxMessages => messages # <<>>
        BY FeedAssumption, EmptySeq, LenProperties
    <1>2. messages # <<>> => Tail(messages) \in Seq(Message)
        BY HeadTailProperties
    <1> QED
        BY <1>1, <1>2, AppendProperties DEF AddedMessage

\* What AddMessage does to the feed and to the count of the evicted.
LEMMA AddMessageType ==
    ASSUME FeedType, NEW c \in Conns, NEW d \in Direction, NEW id \in Nat,
           AddMessage(c, d, id)
    PROVE  messages' \in Seq(Message) /\ lost' \in [Conns -> Nat]
    <1> DEFINE m == [conn |-> c, direction |-> d, id |-> id]
    <1>1. m \in Message
        BY DEF Message
    <1>2. messages \in Seq(Message) /\ lost \in [Conns -> Nat]
        BY DEF FeedType
    <1>3. messages' \in Seq(Message)
        BY <1>1, <1>2, AddedMessageType DEF AddMessage
    <1>4. CASE Len(messages) >= MaxMessages /\ messages[1].direction = "received"
        <2>1. 1 \in 1..Len(messages)
            BY <1>2, <1>4, FeedAssumption, LenProperties
        <2>2. messages[1].conn \in Conns
            <3>1. messages[1] \in Message
                BY <1>2, <2>1, ElementOfSeq
            <3> QED
                BY <3>1 DEF Message
        <2>3. lost' = [lost EXCEPT ![messages[1].conn] = @ + 1]
            BY <1>4 DEF AddMessage
        <2> QED
            BY <1>2, <1>3, <2>2, <2>3
    <1>5. CASE ~ (Len(messages) >= MaxMessages /\ messages[1].direction = "received")
        BY <1>2, <1>3, <1>5 DEF AddMessage
    <1> QED
        BY <1>4, <1>5

\* The event that is handled, and those left after it.
LEMMA FirstEvent ==
    ASSUME FeedType, wire # <<>>
    PROVE  wire[1] \in Event /\ Tail(wire) \in Seq(Event)
    BY HeadTailProperties, EmptySeq, LenProperties, ElementOfSeq DEF FeedType

\* The message whose timer fires, and those left after it.
LEMMA FirstDue ==
    ASSUME FeedType, delayed # <<>>
    PROVE  delayed[1] \in Due /\ Tail(delayed) \in Seq(Due)
    BY HeadTailProperties, EmptySeq, LenProperties, ElementOfSeq DEF FeedType

\* What clearMessages leaves is of the list, and what it drops is counted.
LEMMA NotOfConnIs ==
    ASSUME messages \in Seq(Message), NEW c
    PROVE  NotOfConn(messages, c) = Picked(messages, {m \in Message : m.conn # c})
    <1> DEFINE I == {i \in DOMAIN messages : messages[i].conn # c}
               J == {i \in DOMAIN messages : messages[i] \in {m \in Message : m.conn # c}}
    <1>1. I = J
        BY LenProperties, ElementOfSeq
    <1> QED
        BY <1>1 DEF NotOfConn, Picked

ReceivedOf(c) == {m \in Message : m.conn = c /\ m.direction = "received"}

\* What getFiltered shows as received is a filter of the feed.
LEMMA ReceivedIs ==
    ASSUME messages \in Seq(Message), NEW c
    PROVE  /\ Received(messages, c) = Picked(messages, ReceivedOf(c))
           /\ GetFiltered(c, "received") = Picked(messages, ReceivedOf(c))
    <1> DEFINE I == {i \in DOMAIN messages :
                        messages[i].conn = c /\ messages[i].direction = "received"}
               J == {i \in DOMAIN messages : messages[i] \in ReceivedOf(c)}
               K == {i \in DOMAIN messages :
                        /\ messages[i].conn = c
                        /\ "received" \in {messages[i].direction, "all"}}
    <1>1. I = J
        BY LenProperties, ElementOfSeq DEF ReceivedOf
    <1>2. K = I
        OBVIOUS
    <1> QED
        BY <1>1, <1>2 DEF Received, GetFiltered, Picked

\* What is due of a connection is a filter of what is due.
LEMMA OfConnIs ==
    ASSUME delayed \in Seq(Due), NEW c
    PROVE  OfConn(delayed, c) = Picked(delayed, {d \in Due : d.conn = c})
    <1> DEFINE I == {i \in DOMAIN delayed : delayed[i].conn = c}
               J == {i \in DOMAIN delayed : delayed[i] \in {d \in Due : d.conn = c}}
    <1>1. I = J
        BY LenProperties, ElementOfSeq
    <1> QED
        BY <1>1 DEF OfConn, Picked

\* What a step of the server or of the browser leaves in its lists.
LEMMA FeedTypeStep == FeedType /\ [FeedNext]_allFeedVars => FeedType'
    <1> SUFFICES ASSUME FeedType, [FeedNext]_allFeedVars PROVE FeedType'
        OBVIOUS
    <1> USE FeedAssumption
    <1>w. ASSUME NEW ev \in Event, wire' = Append(wire, ev) PROVE wire' \in Seq(Event)
        BY <1>w, AppendProperties DEF FeedType
    <1>t. Spend => traffic' \in Nat /\ now' = now
        BY DEF Spend, FeedType
    <1>u. Act => traffic' = traffic /\ now' = now
        BY DEF Act
    <1>1. ASSUME NEW c \in Conns, NEW l \in Latencies \cup {0}, OnMessage(c, l)
          PROVE  FeedType'
        <2>1. Spend /\ Emit(c, "received", traffic', l)
            BY <1>1 DEF OnMessage
        <2> DEFINE ev == [conn |-> c, type |-> "received", id |-> traffic', latency |-> l]
        <2>2. ev \in Event /\ wire' = Append(wire, ev)
            <3>1. traffic' \in Nat /\ l \in Nat
                <4>1. traffic' \in Nat
                    BY <1>t, <2>1
                <4>2. l \in Nat
                    OBVIOUS
                <4> QED
                    BY <4>1, <4>2
            <3> QED
                BY <2>1, <3>1 DEF Event, Emit
        <2> HIDE DEF ev
        <2>3. wire' \in Seq(Event)
            BY <1>w, <2>2
        <2> QED
            BY <1>1, <1>t, <2>1, <2>3 DEF OnMessage, FeedType, feedVars
    <1>2. ASSUME NEW c \in Conns, NEW l \in Latencies \cup {0},
                 NEW t \in {"pong", "error", "status"}, OnOther(c, t, l)
          PROVE  FeedType'
        <2>1. Spend /\ Emit(c, t, traffic', l)
            BY <1>2 DEF OnOther
        <2> DEFINE ev == [conn |-> c, type |-> t, id |-> traffic', latency |-> l]
        <2>2. ev \in Event /\ wire' = Append(wire, ev)
            <3>1. traffic' \in Nat /\ l \in Nat
                <4>1. traffic' \in Nat
                    BY <1>t, <2>1
                <4>2. l \in Nat
                    OBVIOUS
                <4> QED
                    BY <4>1, <4>2
            <3>2. t \in {"received", "sent", "pong", "error", "status"}
                OBVIOUS
            <3>3. ev \in Event
                BY <3>1, <3>2 DEF Event
            <3> QED
                BY <2>1, <3>3 DEF Emit
        <2> HIDE DEF ev
        <2>3. wire' \in Seq(Event)
            BY <1>w, <2>2
        <2> QED
            BY <1>2, <1>t, <2>1, <2>3 DEF OnOther, FeedType, feedVars
    <1>3. ASSUME NEW call \in calls, SendMessage(call) PROVE FeedType'
        <2>1. call \in Call
            BY DEF FeedType
        <2>2. wire' \in Seq(Event)
            BY <1>3, <1>w, <2>1 DEF SendMessage, Emit, Event, Call
        <2>3. [call EXCEPT !.state = "sent"] \in Call
            BY <2>1 DEF Call
        <2> QED
            BY <1>3, <2>2, <2>3 DEF SendMessage, FeedType, feedVars, boundVars
    <1>4. ASSUME NEW call \in calls, RefuseMessage(call) PROVE FeedType'
        <2>1. call \in Call
            BY DEF FeedType
        <2>2. [call EXCEPT !.state = "refused"] \in Call
            BY <2>1 DEF Call
        <2> QED
            BY <1>4, <2>2 DEF RefuseMessage, FeedType, feedVars, boundVars
    <1>5. ASSUME NEW c \in Conns, ClearByConnection(c) PROVE FeedType'
        BY <1>5, <1>u DEF ClearByConnection, FeedType, feedVars
    <1>6. CASE Receive
        <2>1. wire[1] \in Event /\ Tail(wire) \in Seq(Event)
            BY <1>6, FirstEvent DEF Receive
        <2> DEFINE ev == wire[1]
        <2>2. ev.conn \in Conns /\ ev.id \in Nat
            BY <2>1 DEF Event
        <2>3. CASE HandleMessage(ev)
            <3>1. UNCHANGED <<messages, lost>>
                BY <2>3 DEF HandleMessage
            <3>2. delayed' \in Seq(Due) /\ came' \in [Conns -> Seq(Nat)]
                <4>1. CASE ev.type = "received"
                    <5> DEFINE due == [conn |-> ev.conn, id |-> ev.id]
                    <5>1. due \in Due /\ delayed \in Seq(Due) /\ came \in [Conns -> Seq(Nat)]
                        BY <2>2 DEF Due, FeedType
                    <5>2. /\ delayed' = Append(delayed, due)
                          /\ came' = [came EXCEPT ![ev.conn] = Append(@, ev.id)]
                        BY <2>3, <4>1 DEF HandleMessage
                    <5>3. delayed' \in Seq(Due)
                        BY <5>1, <5>2, AppendProperties
                    <5>4. Append(came[ev.conn], ev.id) \in Seq(Nat)
                        BY <2>2, <5>1, AppendProperties
                    <5> QED
                        BY <2>2, <5>1, <5>2, <5>3, <5>4
                <4>2. CASE ev.type # "received"
                    BY <2>3, <4>2 DEF HandleMessage, FeedType
                <4> QED
                    BY <4>1, <4>2
            <3> QED
                BY <1>6, <2>1, <3>1, <3>2 DEF Receive, FeedType, boundVars
        <2>4. CASE HandlePong(ev) \/ HandleError(ev) \/ HandleStatus(ev)
            <3>1. AddMessage(ev.conn, "system", ev.id) /\ UNCHANGED <<delayed, came>>
                BY <2>4 DEF HandlePong, HandleError, HandleStatus
            <3>2. messages' \in Seq(Message) /\ lost' \in [Conns -> Nat]
                BY <2>2, <3>1, AddMessageType DEF Direction
            <3> QED
                BY <1>6, <2>1, <3>1, <3>2 DEF Receive, FeedType, boundVars
        <2> QED
            BY <1>6, <2>3, <2>4 DEF Receive
    <1>7. CASE ShowReceived
        <2>1. delayed[1] \in Due /\ Tail(delayed) \in Seq(Due)
            BY <1>7, FirstDue DEF ShowReceived
        <2>2. messages' \in Seq(Message) /\ lost' \in [Conns -> Nat]
            BY <1>7, <2>1, AddMessageType DEF ShowReceived, Due, Direction
        <2> QED
            BY <1>7, <2>1, <2>2 DEF ShowReceived, FeedType, boundVars
    <1>8. CASE Send
        <2>1. [conn |-> shownConn, id |-> traffic', state |-> "asked"] \in Call
            BY <1>8, <1>t DEF Send, FeedType, Call
        <2> QED
            BY <1>8, <1>t, <2>1 DEF Send, FeedType, feedVars
    <1>9. CASE Poll
        BY <1>9, <1>u DEF Poll, FeedType, feedVars
    <1>10. CASE ClearFeed \/ ClearHistory
        <2>1. PICK c \in Conns \cup {NoConn} : ClearMessages(c) /\ Act
            BY <1>10 DEF ClearFeed, ClearHistory, FeedType
        <2>2. messages' \in Seq(Message)
            <3>1. messages \in Seq(Message)
                BY DEF FeedType
            <3>2. NotOfConn(messages, c) = Picked(messages, {m \in Message : m.conn # c})
                BY <3>1, NotOfConnIs
            <3>3. NotOfConn(messages, c) \in Seq(Message)
                BY <3>1, <3>2, PickedSeq
            <3> QED
                BY <2>1, <3>3, EmptySeq DEF ClearMessages
        <2>3. lost' \in [Conns -> Nat]
            <3>1. ASSUME NEW x \in Conns PROVE Len(Received(messages, x)) \in Nat
                BY ReceivedIs, PickedSeq, LenProperties DEF FeedType
            <3>2. lost \in [Conns -> Nat]
                BY DEF FeedType
            <3> QED
                BY <2>1, <3>1, <3>2 DEF ClearMessages
        <2> QED
            BY <1>u, <2>1, <2>2, <2>3 DEF ClearMessages, FeedType
    <1>11. CASE ClearLog
        BY <1>11, <1>u DEF ClearLog, FeedType, feedVars
    <1>12. ASSUME NEW call \in calls, SendAnswered(call) PROVE FeedType'
        <2>1. call \in Call
            BY DEF FeedType
        <2>2. PICK d \in {"sent", "system"} : AddMessage(call.conn, d, call.id)
            BY <1>12 DEF SendAnswered
        <2>3. messages' \in Seq(Message) /\ lost' \in [Conns -> Nat]
            BY <2>1, <2>2, AddMessageType DEF Call, Direction
        <2> QED
            BY <1>12, <2>3 DEF SendAnswered, FeedType, boundVars
    <1>13. ASSUME NEW poll \in polls,
                  PollAnswered(poll) \/ TotalsAnswered(poll) \/ PollFails(poll)
           PROVE  FeedType'
        BY <1>13 DEF PollAnswered, TotalsAnswered, PollFails, FeedType, feedVars, boundVars
    <1>14. ASSUME NEW c \in Conns \cup {NoConn}, SwitchTab(c) PROVE FeedType'
        BY <1>14, <1>u DEF SwitchTab, FeedType, feedVars
    <1>15. CASE Tick
        BY <1>15 DEF Tick, FeedType, feedVars
    <1>16. CASE UNCHANGED allFeedVars
        BY <1>16 DEF allFeedVars, FeedType, feedVars, boundVars
    <1>17. CASE ServerStep
        BY <1>17, <1>1, <1>2, <1>3, <1>4, <1>5 DEF ServerStep
    <1>18. CASE BrowserStep
        BY <1>18, <1>6, <1>7, <1>8, <1>9, <1>10, <1>11, <1>12, <1>13, <1>14 DEF BrowserStep
    <1> QED
        BY <1>15, <1>16, <1>17, <1>18 DEF FeedNext

------------------------------------------------------------------------------
(* Numbers: each is in one place.                                           *)

\* A list stays one of different ids when a new id comes in at its end.
LEMMA DistinctAppend ==
    ASSUME NEW T, NEW q \in Seq(T), NEW e \in T, Distinct(q), e.id \notin IdSet(q)
    PROVE  Distinct(Append(q, e)) /\ IdSet(Append(q, e)) = IdSet(q) \cup {e.id}
    <1> DEFINE r == Append(q, e)
    <1>1. /\ DOMAIN r = 1..Len(q) + 1 /\ DOMAIN q = 1..Len(q) /\ Len(q) \in Nat
          /\ r[Len(q) + 1] = e /\ \A i \in 1..Len(q) : r[i] = q[i]
        BY AppendProperties, LenProperties
    <1> HIDE DEF r
    <1>2. Distinct(r)
        BY <1>1 DEF Distinct, IdSet
    <1>3. IdSet(r) \subseteq IdSet(q) \cup {e.id}
        BY <1>1 DEF IdSet
    <1>4. IdSet(q) \cup {e.id} \subseteq IdSet(r)
        <2>1. e.id \in IdSet(r)
            BY <1>1 DEF IdSet
        <2>2. ASSUME NEW i \in DOMAIN q PROVE q[i].id \in IdSet(r)
            BY <1>1 DEF IdSet
        <2> QED
            BY <2>1, <2>2 DEF IdSet
    <1> QED
        BY <1>2, <1>3, <1>4 DEF r

\* It stays one, without its first id, when its first element goes.
LEMMA DistinctTail ==
    ASSUME NEW T, NEW q \in Seq(T), q # <<>>, Distinct(q)
    PROVE  /\ Distinct(Tail(q)) /\ IdSet(Tail(q)) = IdSet(q) \ {q[1].id}
           /\ q[1].id \in IdSet(q) /\ q[1] \in T
    <1> DEFINE r == Tail(q)
    <1>1. /\ DOMAIN r = 1..Len(q) - 1 /\ DOMAIN q = 1..Len(q) /\ Len(q) \in Nat \ {0}
          /\ \A i \in 1..Len(q) - 1 : r[i] = q[i + 1]
        BY HeadTailProperties, EmptySeq, LenProperties
    <1> HIDE DEF r
    <1>2. Distinct(r)
        <2> SUFFICES ASSUME NEW i \in DOMAIN r, NEW j \in DOMAIN r, r[i].id = r[j].id
                     PROVE  i = j
            BY DEF Distinct
        <2>1. i + 1 \in DOMAIN q /\ j + 1 \in DOMAIN q /\ q[i + 1].id = q[j + 1].id
            BY <1>1
        <2>2. i + 1 = j + 1
            BY <2>1 DEF Distinct
        <2> QED
            BY <1>1, <2>2
    <1>3. IdSet(r) \subseteq IdSet(q) \ {q[1].id}
        <2> SUFFICES ASSUME NEW i \in DOMAIN r
                     PROVE  r[i].id \in IdSet(q) /\ r[i].id # q[1].id
            BY DEF IdSet
        <2>1. i + 1 \in DOMAIN q /\ 1 \in DOMAIN q /\ i + 1 # 1 /\ r[i] = q[i + 1]
            BY <1>1
        <2> QED
            BY <2>1 DEF IdSet, Distinct
    <1>4. IdSet(q) \ {q[1].id} \subseteq IdSet(r)
        <2> SUFFICES ASSUME NEW i \in DOMAIN q, q[i].id # q[1].id
                     PROVE  q[i].id \in IdSet(r)
            BY DEF IdSet
        <2>1. i # 1
            OBVIOUS
        <2>2. i - 1 \in DOMAIN r /\ r[i - 1] = q[i]
            BY <1>1, <2>1
        <2> QED
            BY <2>2 DEF IdSet
    <1>5. q[1].id \in IdSet(q) /\ q[1] \in T
        BY <1>1, ElementOfSeq DEF IdSet
    <1> QED
        BY <1>2, <1>3, <1>4, <1>5 DEF r

\* And when it is filtered.
LEMMA DistinctPicked ==
    ASSUME NEW T, NEW q \in Seq(T), NEW A, Distinct(q)
    PROVE  Distinct(Picked(q, A)) /\ IdSet(Picked(q, A)) \subseteq IdSet(q)
    <1> DEFINE p == Picked(q, A)
    <1>1. DOMAIN p = 1..Len(p) /\ DOMAIN q = 1..Len(q) /\ Len(p) \in Nat
        BY PickedSeq, LenProperties
    <1>2. ASSUME NEW i \in 1..Len(p), NEW j \in 1..Len(p), i < j PROVE p[i].id # p[j].id
        <2>1. PICK k, l \in 1..Len(q) : k < l /\ p[i] = q[k] /\ p[j] = q[l]
            BY <1>2, PickedOrder
        <2>2. k # l
            BY <2>1
        <2> QED
            BY <1>1, <2>1, <2>2 DEF Distinct
    <1>3. \A i \in 1..Len(p) : \E k \in 1..Len(q) : p[i] = q[k]
        BY PickedFrom
    <1> HIDE DEF p
    <1>4. Distinct(p)
        <2> SUFFICES ASSUME NEW i \in 1..Len(p), NEW j \in 1..Len(p), p[i].id = p[j].id
                     PROVE  i = j
            BY <1>1 DEF Distinct
        <2>1. ~ (i < j) /\ ~ (j < i)
            BY <1>2
        <2> QED
            BY <1>1, <2>1
    <1>5. IdSet(p) \subseteq IdSet(q)
        BY <1>1, <1>3 DEF IdSet
    <1> QED
        BY <1>4, <1>5 DEF p

\* addMessage keeps numbers distinct when the one it adds is new; what it shows
\* was shown before or is the message it adds.
LEMMA AddedDistinct ==
    ASSUME messages \in Seq(Message), Distinct(messages),
           NEW m \in Message, m.id \notin IdSet(messages)
    PROVE  /\ Distinct(AddedMessage(m))
           /\ IdSet(AddedMessage(m)) \subseteq IdSet(messages) \cup {m.id}
           /\ \A i \in DOMAIN AddedMessage(m) :
                 \/ AddedMessage(m)[i] = m
                 \/ \E j \in DOMAIN messages : AddedMessage(m)[i] = messages[j]
    <1> DEFINE rest == IF Len(messages) >= MaxMessages THEN Tail(messages) ELSE messages
    <1>1. Len(messages) >= MaxMessages => messages # <<>>
        BY AddedMessageType
    <1>2. /\ rest \in Seq(Message) /\ Distinct(rest)
          /\ IdSet(rest) \subseteq IdSet(messages)
          /\ \A i \in 1..Len(rest) : \E j \in 1..Len(messages) : rest[i] = messages[j]
        <2>1. CASE Len(messages) >= MaxMessages
            <3>1. messages # <<>> /\ rest = Tail(messages)
                BY <1>1, <2>1
            <3>2. Distinct(rest) /\ IdSet(rest) \subseteq IdSet(messages)
                BY <3>1, DistinctTail
            <3>3. /\ rest \in Seq(Message) /\ Len(rest) = Len(messages) - 1
                  /\ \A i \in 1..Len(rest) : rest[i] = messages[i + 1]
                BY <3>1, HeadTailProperties
            <3>4. Len(messages) \in Nat
                BY LenProperties
            <3> HIDE DEF rest
            <3>5. \A i \in 1..Len(rest) : i + 1 \in 1..Len(messages)
                BY <3>3, <3>4
            <3> QED
                BY <3>2, <3>3, <3>5
        <2>2. CASE ~ Len(messages) >= MaxMessages
            BY <2>2
        <2> QED
            BY <2>1, <2>2
    <1>3. AddedMessage(m) = Append(rest, m)
        BY DEF AddedMessage
    <1> HIDE DEF rest
    <1>4. m.id \notin IdSet(rest)
        BY <1>2
    <1>5. Distinct(Append(rest, m)) /\ IdSet(Append(rest, m)) = IdSet(rest) \cup {m.id}
        BY <1>2, <1>4, DistinctAppend
    <1>6. ASSUME NEW i \in DOMAIN Append(rest, m)
          PROVE  \/ Append(rest, m)[i] = m
                 \/ \E j \in DOMAIN messages : Append(rest, m)[i] = messages[j]
        <2>1. /\ DOMAIN Append(rest, m) = 1..Len(rest) + 1 /\ Len(rest) \in Nat
              /\ DOMAIN messages = 1..Len(messages)
              /\ Append(rest, m)[Len(rest) + 1] = m
              /\ \A k \in 1..Len(rest) : Append(rest, m)[k] = rest[k]
            BY <1>2, AppendProperties, LenProperties
        <2>2. CASE i = Len(rest) + 1
            BY <2>1, <2>2
        <2>3. CASE i \in 1..Len(rest)
            BY <1>2, <2>1, <2>3
        <2> QED
            BY <2>1, <2>2, <2>3
    <1> QED
        BY <1>2, <1>3, <1>5, <1>6

\* An event joins those that will be shown, but for that of a sent message.
LEMMA ToldMore ==
    ASSUME wire \in Seq(Event), NEW ev \in Event, wire' = Append(wire, ev)
    PROVE  Told \in Seq(Event) /\ Told' = IF ev.type = "sent" THEN Told ELSE Append(Told, ev)
    <1> DEFINE A == {x \in Event : x.type # "sent"}
    <1>1. Told = Picked(wire, A) /\ Told' = Picked(wire', A)
        BY DEF Told
    <1>2. ev \in A <=> ev.type # "sent"
        OBVIOUS
    <1> HIDE DEF A
    <1>3. Picked(Append(wire, ev), A) = IF ev \in A THEN Append(Picked(wire, A), ev)
                                        ELSE Picked(wire, A)
        BY PickedAppend
    <1>4. Picked(wire, A) \in Seq(Event)
        BY PickedSeq
    <1> QED
        BY <1>1, <1>2, <1>3, <1>4

\* The first element of a list put before another.
LEMMA ConcatHead ==
    ASSUME NEW T, NEW e \in T, NEW p \in Seq(T)
    PROVE  <<e>> \o p # <<>> /\ (<<e>> \o p)[1] = e /\ Tail(<<e>> \o p) = p
    <1> DEFINE h == <<e>>
               q == h \o p
    <1>1. h \in Seq(T) /\ Len(h) = 1 /\ h[1] = e
        OBVIOUS
    <1> HIDE DEF h
    <1>2. /\ q \in Seq(T) /\ Len(q) = Len(h) + Len(p)
          /\ \A i \in 1..Len(h) + Len(p) : q[i] = IF i <= Len(h) THEN h[i] ELSE p[i - Len(h)]
        BY <1>1, ConcatProperties
    <1>3. Len(p) \in Nat
        BY LenProperties
    <1> HIDE DEF q
    <1>4. q # <<>> /\ q[1] = e
        BY <1>1, <1>2, <1>3, EmptySeq
    <1>5. /\ Tail(q) \in Seq(T) /\ Len(Tail(q)) = Len(q) - 1
          /\ \A i \in 1..Len(Tail(q)) : Tail(q)[i] = q[i + 1]
        BY <1>2, <1>4, HeadTailProperties
    <1>6. ASSUME NEW i \in 1..Len(p) PROVE Tail(q)[i] = p[i]
        <2>1. i + 1 \in 1..Len(h) + Len(p) /\ ~ (i + 1 <= Len(h)) /\ (i + 1) - Len(h) = i
            BY <1>1, <1>3
        <2>2. q[i + 1] = p[i]
            BY <1>2, <2>1
        <2> QED
            BY <1>1, <1>2, <1>3, <1>5, <2>2
    <1>7. Tail(q) = p
        BY <1>1, <1>2, <1>3, <1>5, <1>6, SeqEqual
    <1> QED
        BY <1>4, <1>7 DEF q, h

\* Handling an event takes it off what the connection is still to be told.
LEMMA ToldNext ==
    ASSUME wire \in Seq(Event), wire # <<>>, wire' = Tail(wire)
    PROVE  /\ Told \in Seq(Event)
           /\ wire[1].type = "sent" => Told' = Told
           /\ wire[1].type # "sent" => Told # <<>> /\ Told[1] = wire[1] /\ Told' = Tail(Told)
    <1> DEFINE A == {x \in Event : x.type # "sent"}
               p == Picked(Tail(wire), A)
    <1>1. Told = Picked(wire, A) /\ Told' = p
        BY DEF Told
    <1>2. wire[1] \in Event /\ Tail(wire) \in Seq(Event)
        BY HeadTailProperties, EmptySeq, LenProperties, ElementOfSeq
    <1>3. wire[1] \in A <=> wire[1].type # "sent"
        BY <1>2
    <1> HIDE DEF A
    <1>4. p \in Seq(Event) /\ Picked(wire, A) \in Seq(Event)
        BY <1>2, PickedSeq
    <1>5. Picked(wire, A) = IF wire[1] \in A THEN <<wire[1]>> \o p ELSE p
        BY PickedTail
    <1> HIDE DEF p
    <1>6. LET q == <<wire[1]>> \o p IN q # <<>> /\ q[1] = wire[1] /\ Tail(q) = p
        BY <1>2, <1>4, ConcatHead
    <1> QED
        BY <1>1, <1>3, <1>4, <1>5, <1>6

\* What is shown as sent was carried out.
SentShown == \A i \in DOMAIN messages : messages[i].direction = "sent" =>
                <<messages[i].conn, messages[i].id>> \in sentOk

\* A new id that is added to the feed stands there once, and where it was
\* sent.
LEMMA AddMessagePlace ==
    ASSUME FeedType, Distinct(messages), SentShown,
           NEW c \in Conns, NEW d \in Direction, NEW id \in Nat \ IdSet(messages),
           AddMessage(c, d, id), d = "sent" => <<c, id>> \in sentOk, UNCHANGED sentOk
    PROVE  /\ Distinct(messages') /\ IdSet(messages') \subseteq IdSet(messages) \cup {id}
           /\ SentShown'
    <1> DEFINE m == [conn |-> c, direction |-> d, id |-> id]
    <1>1. /\ m \in Message /\ m.id = id /\ m.conn = c /\ m.direction = d
          /\ messages \in Seq(Message)
        BY DEF Message, FeedType
    <1>2. messages' = AddedMessage(m)
        BY DEF AddMessage
    <1> HIDE DEF m
    <1>3. m.id \notin IdSet(messages)
        BY <1>1
    <1>4. /\ Distinct(messages') /\ IdSet(messages') \subseteq IdSet(messages) \cup {m.id}
          /\ \A i \in DOMAIN messages' :
                messages'[i] = m \/ \E j \in DOMAIN messages : messages'[i] = messages[j]
        BY <1>1, <1>2, <1>3, AddedDistinct
    <1>5. SentShown'
        BY <1>1, <1>4 DEF SentShown
    <1> QED
        BY <1>1, <1>4, <1>5

\* A number that is given out is nobody's yet.
LEMMA NewNumber ==
    ASSUME FeedType, OnePlace, Spend
    PROVE  /\ traffic' \in Nat /\ 0..traffic \subseteq 0..traffic'
           /\ traffic' \in 0..traffic' /\ traffic' \notin 0..traffic
           /\ traffic' \notin IdSet(messages) \cup IdSet(delayed) \cup IdSet(Told) \cup CallIds
    BY DEF FeedType, OnePlace, Spend

\* The step of the invariant of ids, one action after the other.
LEMMA NumbersStep ==
    FeedType /\ FeedType' /\ OnePlace /\ CarriedOut /\ [FeedNext]_allFeedVars
        => OnePlace' /\ CarriedOut'
    <1> SUFFICES ASSUME FeedType, FeedType', OnePlace, CarriedOut, [FeedNext]_allFeedVars
                 PROVE  OnePlace' /\ CarriedOut'
        OBVIOUS
    <1>t. /\ wire \in Seq(Event) /\ calls \in SUBSET Call /\ messages \in Seq(Message)
          /\ delayed \in Seq(Due) /\ traffic \in Nat
        BY DEF FeedType
    <1>s. SentShown
        BY DEF CarriedOut, SentShown
    \* A step that leaves the four places, or takes numbers away.
    <1>k. ASSUME UNCHANGED <<delayed, calls, sentOk>>, Told' = Told, traffic' = traffic,
                 Distinct(messages'), IdSet(messages') \subseteq IdSet(messages), SentShown'
          PROVE  OnePlace' /\ CarriedOut'
        <2>1. CallIds' = CallIds /\ IdSet(delayed)' = IdSet(delayed) /\ IdSet(Told)' = IdSet(Told)
            BY <1>k DEF CallIds
        <2>2. OnePlace'
            BY <1>k, <2>1 DEF OnePlace
        <2> QED
            BY <1>k, <2>2 DEF CarriedOut, SentShown
    \* An event with a new number.
    <1>e. ASSUME UNCHANGED <<messages, delayed, calls, sentOk>>, Spend,
                 NEW ev \in Event, wire' = Append(wire, ev), ev.id = traffic', ev.type # "sent"
          PROVE  OnePlace' /\ CarriedOut'
        <2>1. Told \in Seq(Event) /\ Told' = Append(Told, ev)
            BY <1>e, <1>t, ToldMore
        <2>2. /\ traffic' \in Nat /\ 0..traffic \subseteq 0..traffic'
              /\ traffic' \in 0..traffic' /\ traffic' \notin 0..traffic
              /\ traffic' \notin IdSet(messages) \cup IdSet(delayed) \cup IdSet(Told) \cup CallIds
            BY <1>e, NewNumber
        <2>3. Distinct(Told) /\ ev.id \notin IdSet(Told)
            BY <1>e, <2>2 DEF OnePlace
        <2> DEFINE r == Append(Told, ev)
        <2>4. Distinct(r) /\ IdSet(r) = IdSet(Told) \cup {traffic'}
            BY <1>e, <2>1, <2>3, DistinctAppend
        <2> HIDE DEF r
        <2>5. /\ CallIds' = CallIds /\ IdSet(delayed)' = IdSet(delayed)
              /\ IdSet(messages)' = IdSet(messages) /\ IdSet(Told)' = IdSet(r)
              /\ Distinct(Told)'
            BY <1>e, <2>1, <2>4 DEF CallIds, r
        <2>6. OnePlace'
            BY <1>e, <2>2, <2>4, <2>5 DEF OnePlace
        <2> QED
            BY <1>e, <2>6 DEF CarriedOut
    <1>1. ASSUME NEW c \in Conns, NEW l \in Latencies \cup {0}, OnMessage(c, l)
          PROVE  OnePlace' /\ CarriedOut'
        <2> DEFINE ev == [conn |-> c, type |-> "received", id |-> traffic', latency |-> l]
        <2>1. /\ Spend /\ wire' = Append(wire, ev)
              /\ UNCHANGED <<messages, delayed, calls, sentOk>>
            BY <1>1 DEF OnMessage, Emit, feedVars
        <2>2. ev \in Event
            <3>1. traffic' \in Nat /\ l \in Nat
                BY FeedAssumption DEF FeedType
            <3> QED
                BY <3>1 DEF Event
        <2>3. ev.id = traffic' /\ ev.type # "sent"
            OBVIOUS
        <2> HIDE DEF ev
        <2> QED
            BY <1>e, <2>1, <2>2, <2>3
    <1>2. ASSUME NEW c \in Conns, NEW l \in Latencies \cup {0},
                 NEW t \in {"pong", "error", "status"}, OnOther(c, t, l)
          PROVE  OnePlace' /\ CarriedOut'
        <2> DEFINE ev == [conn |-> c, type |-> t, id |-> traffic', latency |-> l]
        <2>1. /\ Spend /\ wire' = Append(wire, ev)
              /\ UNCHANGED <<messages, delayed, calls, sentOk>>
            BY <1>2 DEF OnOther, Emit, feedVars
        <2>2. ev \in Event
            <3>1. traffic' \in Nat
                BY DEF FeedType
            <3>2. l \in Nat
                BY FeedAssumption
            <3>3. t \in {"received", "sent", "pong", "error", "status"}
                OBVIOUS
            <3> QED
                BY <3>1, <3>2, <3>3 DEF Event
        <2>3. ev.id = traffic' /\ ev.type # "sent"
            OBVIOUS
        <2> HIDE DEF ev
        <2> QED
            BY <1>e, <2>1, <2>2, <2>3
    \* A call that is carried out or refused keeps its number.
    <1>c. ASSUME NEW call \in calls, NEW state \in {"sent", "refused"},
                 calls' = (calls \ {call}) \cup {[call EXCEPT !.state = state]}
          PROVE  /\ CallIds' = CallIds
                 /\ \A a, b \in calls' : a.id = b.id => a = b
        <2> DEFINE done == [call EXCEPT !.state = state]
        <2>1. done.id = call.id
            BY <1>t DEF Call
        <2> HIDE DEF done
        <2>2. calls' = (calls \ {call}) \cup {done}
            BY <1>c DEF done
        <2>3. CallIds' = CallIds
            BY <2>1, <2>2 DEF CallIds
        <2>4. \A a, b \in calls' : a.id = b.id => a = b
            BY <2>1, <2>2 DEF OnePlace
        <2> QED
            BY <2>3, <2>4
    <1>3. ASSUME NEW call \in calls, SendMessage(call) PROVE OnePlace' /\ CarriedOut'
        <2> DEFINE ev == [conn |-> call.conn, type |-> "sent", id |-> call.id, latency |-> 0]
        <2>1. call \in Call
            BY <1>t
        <2>2. ev \in Event /\ ev.type = "sent" /\ wire' = Append(wire, ev)
            BY <1>3, <2>1 DEF Event, Call, SendMessage, Emit
        <2> HIDE DEF ev
        <2>3. Told' = Told
            BY <1>t, <2>2, ToldMore
        <2>4. /\ calls' = (calls \ {call}) \cup {[call EXCEPT !.state = "sent"]}
              /\ sentOk' = sentOk \cup {<<call.conn, call.id>>}
              /\ UNCHANGED <<messages, delayed, traffic>>
            BY <1>3 DEF SendMessage, feedVars, boundVars
        <2>5. CallIds' = CallIds /\ \A a, b \in calls' : a.id = b.id => a = b
            BY <1>c, <2>4
        <2>6. OnePlace'
            BY <2>3, <2>4, <2>5 DEF OnePlace
        <2>7. [call EXCEPT !.state = "sent"].conn = call.conn
              /\ [call EXCEPT !.state = "sent"].id = call.id
            BY <2>1 DEF Call
        <2>8. CarriedOut'
            BY <2>4, <2>7 DEF CarriedOut
        <2> QED
            BY <2>6, <2>8
    <1>4. ASSUME NEW call \in calls, RefuseMessage(call) PROVE OnePlace' /\ CarriedOut'
        <2>1. /\ calls' = (calls \ {call}) \cup {[call EXCEPT !.state = "refused"]}
              /\ UNCHANGED <<messages, delayed, wire, traffic, sentOk>>
            BY <1>4 DEF RefuseMessage, feedVars, boundVars
        <2>2. Told' = Told
            BY <2>1 DEF Told
        <2>3. CallIds' = CallIds /\ \A a, b \in calls' : a.id = b.id => a = b
            BY <1>c, <2>1
        <2>4. OnePlace'
            BY <2>1, <2>2, <2>3 DEF OnePlace
        <2>5. [call EXCEPT !.state = "refused"].state # "sent"
            BY <1>t DEF Call
        <2>6. CarriedOut'
            BY <2>1, <2>5 DEF CarriedOut
        <2> QED
            BY <2>4, <2>6
    <1>5. ASSUME NEW c \in Conns, ClearByConnection(c) PROVE OnePlace' /\ CarriedOut'
        <2>1. UNCHANGED <<messages, delayed, calls, wire, traffic, sentOk>>
            BY <1>5 DEF ClearByConnection, Act, feedVars
        <2> QED
            BY <1>k, <1>s, <2>1 DEF Told, SentShown, OnePlace
    \* An event is handled that is the next one.
    <1>6. CASE Receive
        <2> DEFINE ev == wire[1]
        <2>1. /\ wire # <<>> /\ wire' = Tail(wire) /\ UNCHANGED <<calls, traffic, sentOk>>
              /\ HandleMessage(ev) \/ HandlePong(ev) \/ HandleError(ev) \/ HandleStatus(ev)
            BY <1>6 DEF Receive, boundVars
        <2>2. ev \in Event
            BY <2>1, FirstEvent
        <2>3. /\ Told \in Seq(Event)
              /\ ev.type = "sent" => Told' = Told
              /\ ev.type # "sent" => Told # <<>> /\ Told[1] = ev /\ Told' = Tail(Told)
            BY <1>t, <2>1, ToldNext
        <2>4. ev.conn \in Conns /\ ev.id \in Nat
            BY <2>2 DEF Event
        <2> HIDE DEF ev
        <2>5. CallIds' = CallIds
            BY <2>1 DEF CallIds
        <2>6. CASE ev.type = "sent" /\ HandleMessage(ev)
            <3>1. UNCHANGED <<messages, delayed>>
                BY <2>6 DEF HandleMessage
            <3> QED
                BY <1>k, <1>s, <2>1, <2>3, <2>6, <3>1 DEF SentShown, OnePlace
        <2>7. ASSUME ev.type # "sent"
              PROVE  /\ Distinct(Told') /\ IdSet(Told)' = IdSet(Told) \ {ev.id}
                     /\ ev.id \in IdSet(Told)
                     /\ ev.id \notin IdSet(messages) \cup IdSet(delayed) \cup CallIds
                     /\ ev.id \in 0..traffic
            <3>1. Told # <<>> /\ Told[1] = ev /\ Told' = Tail(Told)
                BY <2>3, <2>7
            <3>2. Distinct(Told)
                BY DEF OnePlace
            <3>3. /\ Distinct(Tail(Told)) /\ IdSet(Tail(Told)) = IdSet(Told) \ {Told[1].id}
                  /\ Told[1].id \in IdSet(Told)
                BY <2>3, <3>1, <3>2, DistinctTail
            <3>4. IdSet(Told)' = IdSet(Tail(Told)) /\ Distinct(Told')
                BY <3>1, <3>3 DEF IdSet, Distinct
            <3> QED
                BY <3>1, <3>3, <3>4 DEF OnePlace
        <2>8. CASE ev.type = "received" /\ HandleMessage(ev)
            <3> DEFINE due == [conn |-> ev.conn, id |-> ev.id]
            <3>1. UNCHANGED messages /\ delayed' = Append(delayed, due)
                BY <2>8 DEF HandleMessage
            <3>2. due \in Due /\ due.id = ev.id
                BY <2>4 DEF Due
            <3> HIDE DEF due
            <3>3. due.id \notin IdSet(delayed) /\ Distinct(delayed)
                BY <2>7, <2>8, <3>2 DEF OnePlace
            <3>4. /\ Distinct(Append(delayed, due))
                  /\ IdSet(Append(delayed, due)) = IdSet(delayed) \cup {ev.id}
                BY <1>t, <3>2, <3>3, DistinctAppend
            <3>5. Distinct(delayed') /\ IdSet(delayed)' = IdSet(delayed) \cup {ev.id}
                BY <3>1, <3>4 DEF IdSet, Distinct
            <3>6. IdSet(messages)' = IdSet(messages) /\ Distinct(messages')
                BY <3>1 DEF OnePlace
            <3>7. OnePlace'
                BY <2>1, <2>5, <2>7, <2>8, <3>5, <3>6 DEF OnePlace
            <3> QED
                BY <2>1, <3>1, <3>7 DEF CarriedOut
        <2>9. CASE HandlePong(ev) \/ HandleError(ev) \/ HandleStatus(ev)
            <3>1. AddMessage(ev.conn, "system", ev.id) /\ UNCHANGED delayed /\ ev.type # "sent"
                BY <2>9 DEF HandlePong, HandleError, HandleStatus
            <3>2. ev.id \in Nat \ IdSet(messages) /\ Distinct(messages)
                BY <2>4, <2>7, <3>1 DEF OnePlace
            <3>3. /\ Distinct(messages') /\ IdSet(messages') \subseteq IdSet(messages) \cup {ev.id}
                  /\ SentShown'
                BY <1>s, <2>1, <2>4, <3>1, <3>2, AddMessagePlace DEF Direction
            <3>4. IdSet(delayed)' = IdSet(delayed) /\ Distinct(delayed')
                BY <3>1 DEF OnePlace
            <3>5. OnePlace'
                BY <2>1, <2>5, <2>7, <3>1, <3>3, <3>4 DEF OnePlace
            <3> QED
                BY <2>1, <3>3, <3>5 DEF CarriedOut, SentShown
        <2> QED
            BY <2>1, <2>6, <2>8, <2>9 DEF HandleMessage
    <1>7. CASE ShowReceived
        <2> DEFINE due == delayed[1]
        <2>1. /\ delayed # <<>> /\ delayed' = Tail(delayed)
              /\ AddMessage(due.conn, "received", due.id)
              /\ UNCHANGED <<wire, calls, traffic, sentOk>>
            BY <1>7 DEF ShowReceived, boundVars
        <2>2. due \in Due /\ Distinct(delayed) /\ Distinct(messages)
            BY <2>1, FirstDue DEF OnePlace
        <2>3. /\ Distinct(Tail(delayed)) /\ IdSet(Tail(delayed)) = IdSet(delayed) \ {due.id}
              /\ due.id \in IdSet(delayed)
            BY <1>t, <2>1, <2>2, DistinctTail
        <2> HIDE DEF due
        <2>4. due.conn \in Conns /\ due.id \in Nat \ IdSet(messages)
            BY <2>2, <2>3 DEF Due, OnePlace
        <2>5. /\ Distinct(messages') /\ IdSet(messages') \subseteq IdSet(messages) \cup {due.id}
              /\ SentShown'
            BY <1>s, <2>1, <2>2, <2>4, AddMessagePlace DEF Direction
        <2>6. /\ CallIds' = CallIds /\ Told' = Told
              /\ Distinct(delayed') /\ IdSet(delayed)' = IdSet(delayed) \ {due.id}
            BY <2>1, <2>3 DEF CallIds, Told
        <2>7. OnePlace'
            BY <2>1, <2>3, <2>5, <2>6 DEF OnePlace
        <2> QED
            BY <2>1, <2>5, <2>7 DEF CarriedOut, SentShown
    <1>8. CASE Send
        <2> DEFINE call == [conn |-> shownConn, id |-> traffic', state |-> "asked"]
        <2>1. /\ Spend /\ calls' = calls \cup {call}
              /\ UNCHANGED <<messages, delayed, wire, sentOk>>
            BY <1>8 DEF Send, feedVars
        <2>2. call.id = traffic' /\ call.state # "sent"
            OBVIOUS
        <2> HIDE DEF call
        <2>3. /\ traffic' \in Nat /\ 0..traffic \subseteq 0..traffic'
              /\ traffic' \in 0..traffic' /\ traffic' \notin 0..traffic
              /\ traffic' \notin IdSet(messages) \cup IdSet(delayed) \cup IdSet(Told) \cup CallIds
            BY <2>1, NewNumber
        <2>4. CallIds' = CallIds \cup {traffic'}
            BY <2>1, <2>2 DEF CallIds
        <2>5. \A a, b \in calls' : a.id = b.id => a = b
            BY <2>1, <2>2, <2>3 DEF OnePlace, CallIds
        <2>6. Told' = Told
            BY <2>1 DEF Told
        <2>7. OnePlace'
            BY <2>1, <2>3, <2>4, <2>5, <2>6 DEF OnePlace
        <2> QED
            BY <2>1, <2>2, <2>7 DEF CarriedOut
    <1>9. CASE Poll
        <2>1. UNCHANGED <<messages, delayed, calls, wire, traffic, sentOk>>
            BY <1>9 DEF Poll, Act, feedVars
        <2> QED
            BY <1>k, <1>s, <2>1 DEF Told, SentShown, OnePlace
    <1>10. CASE ClearFeed \/ ClearHistory
        <2>1. PICK c \in Conns \cup {NoConn} : ClearMessages(c) /\ Act
            BY <1>10 DEF ClearFeed, ClearHistory, FeedType
        <2>2. UNCHANGED <<delayed, calls, wire, traffic, sentOk>>
            BY <2>1 DEF ClearMessages, Act
        <2> DEFINE A == {m \in Message : m.conn # c}
        <2>3. NotOfConn(messages, c) = Picked(messages, A)
            BY <1>t, NotOfConnIs
        <2> HIDE DEF A
        <2>4. CASE c = NoConn
            <3>1. messages' = <<>>
                BY <2>1, <2>4 DEF ClearMessages
            <3>2. DOMAIN messages' = {}
                BY <3>1
            <3>3. Distinct(messages') /\ IdSet(messages') \subseteq IdSet(messages) /\ SentShown'
                BY <3>2 DEF Distinct, IdSet, SentShown
            <3> QED
                BY <1>k, <2>2, <3>3 DEF Told
        <2>5. CASE c # NoConn
            <3> DEFINE p == Picked(messages, A)
            <3>1. messages' = p
                BY <2>1, <2>3, <2>5 DEF ClearMessages
            <3>2. Distinct(p) /\ IdSet(p) \subseteq IdSet(messages)
                BY <1>t, DistinctPicked DEF OnePlace
            <3>3. \A i \in 1..Len(p) : \E k \in 1..Len(messages) : p[i] = messages[k]
                BY <1>t, PickedFrom
            <3>4. DOMAIN p = 1..Len(p) /\ DOMAIN messages = 1..Len(messages)
                BY <1>t, PickedSeq, LenProperties
            <3> HIDE DEF p
            <3>5. SentShown'
                BY <1>s, <2>2, <3>1, <3>3, <3>4 DEF SentShown
            <3> QED
                BY <1>k, <2>2, <3>1, <3>2, <3>5 DEF Told
        <2> QED
            BY <2>4, <2>5
    <1>11. CASE ClearLog
        <2>1. UNCHANGED <<messages, delayed, calls, wire, traffic, sentOk>>
            BY <1>11 DEF ClearLog, Act, feedVars
        <2> QED
            BY <1>k, <1>s, <2>1 DEF Told, SentShown, OnePlace
    <1>12. ASSUME NEW call \in calls, SendAnswered(call) PROVE OnePlace' /\ CarriedOut'
        <2>1. /\ calls' = calls \ {call} /\ UNCHANGED <<delayed, wire, traffic, sentOk>>
              /\ \E d \in {"sent", "system"} :
                    (d = "sent" => call.state = "sent") /\ AddMessage(call.conn, d, call.id)
            BY <1>12 DEF SendAnswered, boundVars
        <2>2. PICK d \in {"sent", "system"} :
                    (d = "sent" => call.state = "sent") /\ AddMessage(call.conn, d, call.id)
            BY <2>1
        <2>3. /\ call.conn \in Conns /\ call.id \in Nat \ IdSet(messages) /\ d \in Direction
              /\ Distinct(messages)
            BY <1>t DEF Call, OnePlace, CallIds, Direction
        <2>4. d = "sent" => <<call.conn, call.id>> \in sentOk
            BY <2>2 DEF CarriedOut
        <2>5. /\ Distinct(messages') /\ IdSet(messages') \subseteq IdSet(messages) \cup {call.id}
              /\ SentShown'
            BY <1>s, <2>1, <2>2, <2>3, <2>4, AddMessagePlace
        <2>6. CallIds' = CallIds \ {call.id} /\ call.id \in CallIds
            BY <2>1 DEF OnePlace, CallIds
        <2>7. Told' = Told
            BY <2>1 DEF Told
        <2>8. OnePlace'
            BY <2>1, <2>5, <2>6, <2>7 DEF OnePlace
        <2> QED
            BY <2>1, <2>5, <2>8 DEF CarriedOut, SentShown
    <1>13. ASSUME NEW poll \in polls,
                  PollAnswered(poll) \/ TotalsAnswered(poll) \/ PollFails(poll)
           PROVE  OnePlace' /\ CarriedOut'
        <2>1. UNCHANGED <<messages, delayed, calls, wire, traffic, sentOk>>
            BY <1>13 DEF PollAnswered, TotalsAnswered, PollFails, feedVars, boundVars
        <2> QED
            BY <1>k, <1>s, <2>1 DEF Told, SentShown, OnePlace
    <1>14. ASSUME NEW c \in Conns \cup {NoConn}, SwitchTab(c) PROVE OnePlace' /\ CarriedOut'
        <2>1. UNCHANGED <<messages, delayed, calls, wire, traffic, sentOk>>
            BY <1>14 DEF SwitchTab, Act, feedVars
        <2> QED
            BY <1>k, <1>s, <2>1 DEF Told, SentShown, OnePlace
    <1>15. CASE Tick
        <2>1. UNCHANGED <<messages, delayed, calls, wire, traffic, sentOk>>
            BY <1>15 DEF Tick, feedVars
        <2> QED
            BY <1>k, <1>s, <2>1 DEF Told, SentShown, OnePlace
    <1>16. CASE UNCHANGED allFeedVars
        <2>1. UNCHANGED <<messages, delayed, calls, wire, traffic, sentOk>>
            BY <1>16 DEF allFeedVars, feedVars, boundVars
        <2> QED
            BY <1>k, <1>s, <2>1 DEF Told, SentShown, OnePlace
    <1>17. CASE ServerStep
        BY <1>17, <1>1, <1>2, <1>3, <1>4, <1>5 DEF ServerStep
    <1>18. CASE BrowserStep
        BY <1>18, <1>6, <1>7, <1>8, <1>9, <1>10, <1>11, <1>12, <1>13, <1>14 DEF BrowserStep
    <1> QED
        BY <1>15, <1>16, <1>17, <1>18 DEF FeedNext

\* Initially nothing is shown, told or called.
LEMMA FeedTypeInit == FeedInit => FeedType /\ OnePlace /\ CarriedOut
    <1> SUFFICES ASSUME FeedInit PROVE FeedType /\ OnePlace /\ CarriedOut
        OBVIOUS
    <1>1. /\ wire = <<>> /\ calls = {} /\ messages = <<>> /\ delayed = <<>>
          /\ traffic = 0 /\ now = 0 /\ shownConn \in Conns
          /\ came = [c \in Conns |-> <<>>] /\ lost = [c \in Conns |-> 0]
        BY DEF FeedInit
    <1>2. FeedType
        BY <1>1, FeedAssumption, EmptySeq DEF FeedType
    <1>3. Told = <<>>
        BY <1>1, PickedEmpty DEF Told
    <1>4. DOMAIN <<>> = {}
        OBVIOUS
    <1>5. OnePlace
        BY <1>1, <1>3, <1>4 DEF OnePlace, Distinct, IdSet, CallIds
    <1>6. CarriedOut
        BY <1>1, <1>4 DEF CarriedOut
    <1> QED
        BY <1>2, <1>5, <1>6

\* The types hold in every state.
LEMMA FeedTypeAlways == FeedSpec => []FeedType
    BY FeedTypeInit, FeedTypeStep, PTL DEF FeedSpec

\* So does the invariant of ids.
LEMMA NumbersAlways == FeedSpec => [](OnePlace /\ CarriedOut)
    <1>1. FeedType /\ FeedType' /\ OnePlace /\ CarriedOut /\ [FeedNext]_allFeedVars
              => (OnePlace /\ CarriedOut)'
        BY NumbersStep
    <1>2. FeedInit => OnePlace /\ CarriedOut
        BY FeedTypeInit
    <1> QED
        BY <1>1, <1>2, FeedTypeAlways, PTL DEF FeedSpec

\* A message is shown as sent only under the connection it was sent on and only
\* when the server carried it out, and no number is shown twice or while its call
\* is under way, whatever arrives, is cleared and is switched in between
\* (MessageComposer.tsx:66-104, useControlSocket.ts:136-154).
THEOREM SentIsShownWhereItWasSent == FeedSpec => []SentWhereItWasSent
    <1>1. OnePlace /\ CarriedOut => SentWhereItWasSent
        <2> SUFFICES ASSUME OnePlace, CarriedOut PROVE SentWhereItWasSent
            OBVIOUS
        <2>1. \A i, j \in DOMAIN messages : i # j => messages[i].id # messages[j].id
            BY DEF OnePlace, Distinct
        <2>2. \A call \in calls : \A i \in DOMAIN messages : messages[i].id # call.id
            BY DEF OnePlace, IdSet, CallIds
        <2> QED
            BY <2>1, <2>2 DEF CarriedOut, SentWhereItWasSent
    <1> QED
        BY <1>1, NumbersAlways, PTL

------------------------------------------------------------------------------
(* Order: what came of a connection is what was lost of it, then what the   *)
(* feed shows, then what it is about to show.                               *)

DueOf(c) == {d \in Due : d.conn = c}

Shown(c) == IdsOf(Picked(messages, ReceivedOf(c)))
Soon(c) == IdsOf(Picked(delayed, DueOf(c)))

Ordered(c) ==
    \E gone \in Seq(Nat) :
        Len(gone) = lost[c] /\ came[c] = gone \o (Shown(c) \o Soon(c))

InOrder == \A c \in Conns : Ordered(c)

\* The ids of a list stand where the elements do.
LEMMA IdsOfType ==
    ASSUME NEW T, \A x \in T : x.id \in Nat, NEW q \in Seq(T)
    PROVE  /\ IdsOf(q) \in Seq(Nat) /\ Len(IdsOf(q)) = Len(q)
           /\ \A i \in 1..Len(q) : IdsOf(q)[i] = q[i].id
    <1>1. DOMAIN q = 1..Len(q) /\ Len(q) \in Nat /\ \A i \in 1..Len(q) : q[i] \in T
        BY LenProperties, ElementOfSeq
    <1>2. IdsOf(q) = [i \in 1..Len(q) |-> q[i].id]
        BY <1>1 DEF IdsOf
    <1>3. \A i \in 1..Len(q) : q[i].id \in Nat
        BY <1>1
    <1> QED
        BY <1>1, <1>2, <1>3

\* Ids go with an append,
LEMMA IdsOfAppend ==
    ASSUME NEW T, \A x \in T : x.id \in Nat, NEW q \in Seq(T), NEW e \in T
    PROVE  IdsOf(Append(q, e)) = Append(IdsOf(q), e.id)
    <1> DEFINE r == Append(q, e)
               s == IdsOf(r)
               t == Append(IdsOf(q), e.id)
    <1>1. /\ r \in Seq(T) /\ Len(r) = Len(q) + 1 /\ Len(q) \in Nat
          /\ r[Len(q) + 1] = e /\ \A i \in 1..Len(q) : r[i] = q[i]
        BY AppendProperties, LenProperties
    <1> HIDE DEF r
    <1>2. s \in Seq(Nat) /\ Len(s) = Len(r) /\ \A i \in 1..Len(r) : s[i] = r[i].id
        BY <1>1, IdsOfType
    <1>3. /\ IdsOf(q) \in Seq(Nat) /\ Len(IdsOf(q)) = Len(q)
          /\ \A i \in 1..Len(q) : IdsOf(q)[i] = q[i].id
        BY IdsOfType
    <1>4. e.id \in Nat
        OBVIOUS
    <1>5. /\ t \in Seq(Nat) /\ Len(t) = Len(q) + 1 /\ t[Len(q) + 1] = e.id
          /\ \A i \in 1..Len(q) : t[i] = q[i].id
        <2>1. /\ t \in Seq(Nat) /\ Len(t) = Len(IdsOf(q)) + 1
              /\ t[Len(IdsOf(q)) + 1] = e.id
              /\ \A i \in 1..Len(IdsOf(q)) : t[i] = IdsOf(q)[i]
            BY <1>3, <1>4, AppendProperties
        <2> QED
            BY <1>3, <2>1
    <1> HIDE DEF s, t
    <1>6. ASSUME NEW i \in 1..Len(s) PROVE s[i] = t[i]
        <2>1. i \in 1..Len(q) + 1 /\ s[i] = r[i].id
            BY <1>1, <1>2
        <2>2. CASE i \in 1..Len(q)
            BY <1>1, <1>5, <2>1, <2>2
        <2>3. CASE i = Len(q) + 1
            BY <1>1, <1>5, <2>1, <2>3
        <2> QED
            BY <1>1, <2>1, <2>2, <2>3
    <1>7. s = t
        BY <1>1, <1>2, <1>5, <1>6, SeqEqual
    <1> QED
        BY <1>7 DEF s, t, r

\* and with an element put in front.
LEMMA IdsOfTail ==
    ASSUME NEW T, \A x \in T : x.id \in Nat, NEW q \in Seq(T), NEW e \in T
    PROVE  IdsOf(<<e>> \o q) = <<e.id>> \o IdsOf(q)
    <1> DEFINE h == <<e>>
               r == h \o q
               s == IdsOf(r)
               g == <<e.id>>
               u == IdsOf(q)
               t == g \o u
    <1>1. h \in Seq(T) /\ Len(h) = 1 /\ h[1] = e
        OBVIOUS
    <1>2. g \in Seq(Nat) /\ Len(g) = 1 /\ g[1] = e.id
        OBVIOUS
    <1>3. u \in Seq(Nat) /\ Len(u) = Len(q) /\ \A i \in 1..Len(q) : u[i] = q[i].id
        BY IdsOfType
    <1>4. Len(q) \in Nat
        BY LenProperties
    <1> HIDE DEF h, g, u
    <1>5. /\ r \in Seq(T) /\ Len(r) = Len(h) + Len(q)
          /\ \A i \in 1..Len(h) + Len(q) : r[i] = IF i <= Len(h) THEN h[i] ELSE q[i - Len(h)]
        BY <1>1, ConcatProperties
    <1>6. /\ t \in Seq(Nat) /\ Len(t) = Len(g) + Len(u)
          /\ \A i \in 1..Len(g) + Len(u) : t[i] = IF i <= Len(g) THEN g[i] ELSE u[i - Len(g)]
        <2>1. g \in Seq(Nat) /\ u \in Seq(Nat)
            BY <1>2, <1>3
        <2> QED
            BY <2>1, ConcatProperties
    <1> HIDE DEF r, t
    <1>7. s \in Seq(Nat) /\ Len(s) = Len(r) /\ \A i \in 1..Len(r) : s[i] = r[i].id
        BY <1>5, IdsOfType
    <1> HIDE DEF s
    <1>8. ASSUME NEW i \in 1..Len(s) PROVE s[i] = t[i]
        <2>1. CASE i = 1
            BY <1>1, <1>2, <1>3, <1>4, <1>5, <1>6, <1>7, <2>1
        <2>2. CASE i # 1
            <3>1. i - 1 \in 1..Len(q)
                BY <1>1, <1>4, <1>5, <1>7, <2>2
            <3>2. r[i] = q[i - 1] /\ t[i] = u[i - 1]
                BY <1>1, <1>2, <1>3, <1>4, <1>5, <1>6, <1>7, <2>2
            <3> QED
                BY <1>3, <1>7, <3>1, <3>2
        <2> QED
            BY <2>1, <2>2
    <1>9. s = t
        BY <1>1, <1>2, <1>3, <1>5, <1>6, <1>7, <1>8, SeqEqual
    <1> QED
        BY <1>9 DEF s, t, r, g, h, u

\* Everything the lists hold has a number for its id.
LEMMA IdsAreNat ==
    /\ \A c : \A x \in Message \cap ReceivedOf(c) : x.id \in Nat
    /\ \A x \in Message : x.id \in Nat
    /\ \A x \in Due : x.id \in Nat
    BY DEF Message, Due

\* What is shown, and what will be soon, are lists of ids.
LEMMA ShownType ==
    ASSUME FeedType, NEW c
    PROVE  Shown(c) \in Seq(Nat) /\ Soon(c) \in Seq(Nat)
    <1>1. Picked(messages, ReceivedOf(c)) \in Seq(Message)
        BY PickedSeq DEF FeedType
    <1>2. Picked(delayed, DueOf(c)) \in Seq(Due)
        BY PickedSeq DEF FeedType
    <1>3. Shown(c) \in Seq(Nat)
        BY <1>1, IdsAreNat, IdsOfType DEF Shown
    <1>4. Soon(c) \in Seq(Nat)
        BY <1>2, IdsAreNat, IdsOfType DEF Soon
    <1> QED
        BY <1>3, <1>4

\* What a new message does to what is shown of a connection: the first is lost
\* when it goes at the limit, and the new one is last.
LEMMA ShownAdded ==
    ASSUME FeedType, NEW b \in Conns, NEW d \in Direction, NEW id \in Nat,
           AddMessage(b, d, id), NEW c \in Conns
    PROVE  \E rest \in Seq(Nat) :
              /\ \/ Shown(c) = rest /\ lost'[c] = lost[c]
                 \/ \E x \in Nat : Shown(c) = <<x>> \o rest /\ lost'[c] = lost[c] + 1
              /\ Shown(c)' = IF d = "received" /\ b = c THEN Append(rest, id) ELSE rest
    <1> DEFINE m == [conn |-> b, direction |-> d, id |-> id]
               A == ReceivedOf(c)
               kept == IF Len(messages) >= MaxMessages THEN Tail(messages) ELSE messages
               p == Picked(kept, A)
               rest == IdsOf(p)
    <1>1. /\ m \in Message /\ m.id = id /\ m.conn = b /\ m.direction = d
          /\ messages \in Seq(Message) /\ lost \in [Conns -> Nat]
        BY DEF Message, FeedType
    <1>2. m \in A <=> d = "received" /\ b = c
        BY <1>1 DEF ReceivedOf
    <1>3. messages' = Append(kept, m)
        BY DEF AddMessage, AddedMessage
    <1>4. Len(messages) >= MaxMessages => messages # <<>>
        BY <1>1, AddedMessageType
    <1>5. kept \in Seq(Message)
        BY <1>1, <1>4, HeadTailProperties
    <1>6. Picked(messages', A) = IF m \in A THEN Append(p, m) ELSE p
        <2> HIDE DEF m, kept, A
        <2>1. Picked(Append(kept, m), A) =
                  IF m \in A THEN Append(Picked(kept, A), m) ELSE Picked(kept, A)
            BY <1>1, <1>5, PickedAppend
        <2> QED
            BY <1>3, <2>1
    <1> HIDE DEF m
    <1>7. p \in Seq(Message)
        BY <1>5, PickedSeq
    <1>8. Shown(c)' = IF m \in A THEN Append(rest, id) ELSE rest
        <2>1. Shown(c)' = IdsOf(Picked(messages', A))
            BY DEF Shown
        <2> HIDE DEF p, A
        <2>2. IdsOf(Append(p, m)) = Append(IdsOf(p), m.id)
            BY <1>1, <1>7, IdsAreNat, IdsOfAppend
        <2> QED
            BY <1>1, <1>6, <2>1, <2>2
    <1>9. rest \in Seq(Nat)
        BY <1>7, IdsAreNat, IdsOfType
    <1>10. Shown(c) = IdsOf(Picked(messages, A))
        BY DEF Shown
    <1>11. CASE Len(messages) >= MaxMessages
        <2>1. messages # <<>> /\ kept = Tail(messages)
            BY <1>4, <1>11
        <2>2. Picked(messages, A) = IF messages[1] \in A THEN <<messages[1]>> \o p ELSE p
            BY <1>1, <2>1, PickedTail
        <2>3. messages[1] \in Message
            BY <1>1, <2>1, EmptySeq, LenProperties, ElementOfSeq
        <2>4. CASE messages[1] \in A
            <3>1. lost'[c] = lost[c] + 1
                <4>1. messages[1].direction = "received" /\ messages[1].conn = c
                    BY <2>4 DEF ReceivedOf
                <4>2. lost' = [lost EXCEPT ![messages[1].conn] = @ + 1]
                    BY <1>11, <4>1 DEF AddMessage
                <4> QED
                    BY <1>1, <4>1, <4>2
            <3>2. IdsOf(<<messages[1]>> \o p) = <<messages[1].id>> \o IdsOf(p)
                BY <1>7, <2>3, IdsAreNat, IdsOfTail
            <3>3. Shown(c) = <<messages[1].id>> \o rest /\ messages[1].id \in Nat
                BY <1>10, <2>2, <2>3, <2>4, <3>2, IdsAreNat
            <3> HIDE DEF rest, A
            <3> QED
                BY <1>2, <1>8, <1>9, <3>1, <3>3
        <2>5. CASE messages[1] \notin A
            <3>1. lost'[c] = lost[c]
                <4>1. CASE messages[1].direction = "received"
                    <5>1. messages[1].conn # c
                        BY <2>3, <2>5, <4>1 DEF ReceivedOf
                    <5>2. lost' = [lost EXCEPT ![messages[1].conn] = @ + 1]
                        BY <1>11, <4>1 DEF AddMessage
                    <5> QED
                        BY <1>1, <5>1, <5>2
                <4>2. CASE messages[1].direction # "received"
                    BY <4>2 DEF AddMessage
                <4> QED
                    BY <4>1, <4>2
            <3>2. Shown(c) = rest
                BY <1>10, <2>2, <2>5
            <3> HIDE DEF rest, A
            <3> QED
                BY <1>2, <1>8, <1>9, <3>1, <3>2
        <2> QED
            BY <2>4, <2>5
    <1>12. CASE ~ Len(messages) >= MaxMessages
        <2>1. lost' = lost
            BY <1>12 DEF AddMessage
        <2>2. Shown(c) = rest
            BY <1>10, <1>12
        <2> HIDE DEF rest, A
        <2> QED
            BY <1>2, <1>8, <1>9, <2>1, <2>2
    <1> QED
        BY <1>11, <1>12

\* Moving the ends of three sequences that follow each other.
LEMMA Associative ==
    \A s, t, u \in Seq(Nat) : (s \o t) \o u = s \o (t \o u)
    <1> SUFFICES ASSUME NEW s \in Seq(Nat), NEW t \in Seq(Nat), NEW u \in Seq(Nat)
                 PROVE  (s \o t) \o u = s \o (t \o u)
        OBVIOUS
    <1> QED
        BY ConcatAssociative, SMTT(30)

\* A timer that fires moves the first id that is due to the end of those
\* shown.
LEMMA MoveOne ==
    ASSUME NEW rest \in Seq(Nat), NEW id \in Nat, NEW soon \in Seq(Nat)
    PROVE  rest \o (<<id>> \o soon) = Append(rest, id) \o soon
    <1>1. <<id>> \in Seq(Nat)
        OBVIOUS
    <1>2. Append(rest, id) = rest \o <<id>>
        BY AppendIsConcat
    <1>3. (rest \o <<id>>) \o soon = rest \o (<<id>> \o soon)
        BY <1>1, Associative, Zenon
    <1> QED
        BY <1>2, <1>3, Zenon

\* The limit moves the first id shown to the end of those lost.
LEMMA LoseOne ==
    ASSUME NEW gone \in Seq(Nat), NEW x \in Nat, NEW rest \in Seq(Nat), NEW soon \in Seq(Nat)
    PROVE  gone \o ((<<x>> \o rest) \o soon) = Append(gone, x) \o (rest \o soon)
    <1>1. <<x>> \in Seq(Nat)
        OBVIOUS
    <1>2. Append(gone, x) = gone \o <<x>>
        BY AppendIsConcat
    <1>3. rest \o soon \in Seq(Nat)
        BY ConcatProperties
    <1>4. (<<x>> \o rest) \o soon = <<x>> \o (rest \o soon)
        BY Associative, <1>1, Zenon
    <1>5. (gone \o <<x>>) \o (rest \o soon) = gone \o (<<x>> \o (rest \o soon))
        BY Associative, <1>1, <1>3, ZenonT(30)
    <1> QED
        BY <1>2, <1>4, <1>5, Zenon

\* An event adds its id at the end of those due.
LEMMA AddOne ==
    ASSUME NEW gone \in Seq(Nat), NEW shown \in Seq(Nat), NEW soon \in Seq(Nat), NEW id \in Nat
    PROVE  Append(gone \o (shown \o soon), id) = gone \o (shown \o Append(soon, id))
    <1>1. <<id>> \in Seq(Nat)
        OBVIOUS
    <1>2. Append(soon, id) = soon \o <<id>>
        BY AppendIsConcat
    <1>3. shown \o soon \in Seq(Nat)
        BY ConcatProperties
    <1>4. gone \o (shown \o soon) \in Seq(Nat)
        BY <1>3, ConcatProperties
    <1>5. Append(gone \o (shown \o soon), id) = (gone \o (shown \o soon)) \o <<id>>
        BY <1>4, AppendIsConcat
    <1>6. (gone \o (shown \o soon)) \o <<id>> = gone \o ((shown \o soon) \o <<id>>)
        BY Associative, <1>1, <1>3, ZenonT(30)
    <1>7. (shown \o soon) \o <<id>> = shown \o (soon \o <<id>>)
        BY Associative, <1>1, Zenon
    <1> QED
        BY <1>2, <1>5, <1>6, <1>7, Zenon

\* A message is added; when it is one that was about to be shown, it was the
\* first of those.
LEMMA OrderAdded ==
    ASSUME FeedType, NEW b \in Conns, NEW d \in Direction, NEW id \in Nat,
           AddMessage(b, d, id), UNCHANGED came,
           NEW c \in Conns, Ordered(c), Soon(c)' \in Seq(Nat),
           Soon(c) = IF d = "received" /\ b = c THEN <<id>> \o Soon(c)' ELSE Soon(c)'
    PROVE  Ordered(c)'
    <1> DEFINE soon == Soon(c)
               later == Soon(c)'
               shown == Shown(c)
               then == Shown(c)'
    <1>1. PICK gone \in Seq(Nat) : Len(gone) = lost[c] /\ came[c] = gone \o (shown \o soon)
        BY DEF Ordered
    <1>2. PICK rest \in Seq(Nat) :
              /\ \/ shown = rest /\ lost'[c] = lost[c]
                 \/ \E x \in Nat : shown = <<x>> \o rest /\ lost'[c] = lost[c] + 1
              /\ then = IF d = "received" /\ b = c THEN Append(rest, id) ELSE rest
        BY ShownAdded
    <1>3. /\ soon \in Seq(Nat) /\ later \in Seq(Nat)
          /\ soon = IF d = "received" /\ b = c THEN <<id>> \o later ELSE later
        BY ShownType
    <1> HIDE DEF soon, later, shown, then
    <1>4. rest \o soon = then \o later
        BY <1>2, <1>3, MoveOne, Zenon
    <1>5. \E more \in Seq(Nat) : Len(more) = lost'[c] /\ came[c] = more \o (rest \o soon)
        <2>1. CASE shown = rest /\ lost'[c] = lost[c]
            BY <1>1, <2>1
        <2>2. ASSUME NEW x \in Nat, shown = <<x>> \o rest, lost'[c] = lost[c] + 1
              PROVE  \E more \in Seq(Nat) : Len(more) = lost'[c]
                                            /\ came[c] = more \o (rest \o soon)
            <3>1. Append(gone, x) \in Seq(Nat) /\ Len(Append(gone, x)) = Len(gone) + 1
                BY AppendProperties
            <3>2. gone \o ((<<x>> \o rest) \o soon) = Append(gone, x) \o (rest \o soon)
                <4>1. soon \in Seq(Nat)
                    BY <1>3
                <4> QED
                    BY <4>1, LoseOne, ZenonT(30)
            <3>3. came[c] = Append(gone, x) \o (rest \o soon)
                BY <1>1, <2>2, <3>2, Zenon
            <3> QED
                BY <1>1, <2>2, <3>1, <3>3
        <2> QED
            BY <1>2, <2>1, <2>2
    <1> QED
        BY <1>4, <1>5 DEF Ordered, later, then

\* A step that shows, expects and loses nothing.
LEMMA OrderKept ==
    ASSUME InOrder, UNCHANGED <<feedVars, came>>
    PROVE  InOrder'
    BY DEF feedVars, InOrder, Ordered, Shown, Soon

\* The events that are shown at once or after a delay keep the order.
LEMMA OrderReceived ==
    ASSUME FeedType, InOrder, wire # <<>>,
           HandleMessage(wire[1]) \/ HandlePong(wire[1])
               \/ HandleError(wire[1]) \/ HandleStatus(wire[1])
    PROVE  InOrder'
    <1> DEFINE ev == wire[1]
    <1>1. ev \in Event
        BY FirstEvent
    <1>2. ev.conn \in Conns /\ ev.id \in Nat
        BY <1>1 DEF Event
    <1>3. /\ HandleMessage(ev) \/ HandlePong(ev) \/ HandleError(ev) \/ HandleStatus(ev)
          /\ delayed \in Seq(Due) /\ came \in [Conns -> Seq(Nat)]
        BY DEF FeedType
    <1> HIDE DEF ev
    <1>4. CASE HandleMessage(ev) /\ ev.type # "received"
        <2>1. UNCHANGED <<feedVars, came>>
            BY <1>4 DEF HandleMessage, feedVars
        <2> QED
            BY <2>1, OrderKept
    <1>5. CASE HandleMessage(ev) /\ ev.type = "received"
        <2> DEFINE due == [conn |-> ev.conn, id |-> ev.id]
        <2>1. /\ UNCHANGED <<messages, lost>>
              /\ delayed' = Append(delayed, due)
              /\ came' = [came EXCEPT ![ev.conn] = Append(@, ev.id)]
            BY <1>5 DEF HandleMessage
        <2>2. due \in Due /\ due.conn = ev.conn /\ due.id = ev.id
            BY <1>2 DEF Due
        <2> HIDE DEF due
        <2> SUFFICES ASSUME NEW c \in Conns PROVE Ordered(c)'
            BY DEF InOrder
        <2> DEFINE A == DueOf(c)
                   p == Picked(delayed, A)
                   soon == Soon(c)
                   shown == Shown(c)
        <2>3. due \in A <=> ev.conn = c
            BY <2>2 DEF DueOf
        <2> HIDE DEF A
        <2>4. Picked(delayed', A) = IF due \in A THEN Append(p, due) ELSE p
            BY <1>3, <2>1, <2>2, PickedAppend
        <2>5. p \in Seq(Due)
            BY <1>3, PickedSeq
        <2>6. IdsOf(Append(p, due)) = Append(IdsOf(p), due.id)
            BY <2>2, <2>5, IdsAreNat, IdsOfAppend
        <2>7. Soon(c) = IdsOf(p) /\ Soon(c)' = IdsOf(Picked(delayed', A)) /\ Shown(c)' = Shown(c)
            BY <2>1 DEF Soon, Shown, A
        <2> HIDE DEF p
        <2>8. Soon(c)' = IF ev.conn = c THEN Append(soon, ev.id) ELSE soon
            BY <2>2, <2>3, <2>4, <2>6, <2>7
        <2>9. soon \in Seq(Nat) /\ shown \in Seq(Nat)
            BY ShownType
        <2>10. PICK gone \in Seq(Nat) : Len(gone) = lost[c] /\ came[c] = gone \o (shown \o soon)
            BY DEF InOrder, Ordered
        <2> HIDE DEF soon, shown
        <2>11. Append(gone \o (shown \o soon), ev.id) = gone \o (shown \o Append(soon, ev.id))
            <3> DEFINE id == ev.id
            <3>1. gone \in Seq(Nat) /\ shown \in Seq(Nat) /\ soon \in Seq(Nat) /\ id \in Nat
                BY <1>2, <2>9
            <3> HIDE DEF id
            <3>2. Append(gone \o (shown \o soon), id) = gone \o (shown \o Append(soon, id))
                BY <3>1, AddOne, Zenon
            <3> QED
                BY <3>2 DEF id
        <2>12. came'[c] = IF ev.conn = c THEN Append(came[c], ev.id) ELSE came[c]
            BY <1>2, <1>3, <2>1
        <2>13. came'[c] = gone \o (shown \o Soon(c)')
            BY <2>8, <2>10, <2>11, <2>12
        <2> QED
            BY <2>1, <2>7, <2>10, <2>13 DEF Ordered, shown
    <1>6. CASE HandlePong(ev) \/ HandleError(ev) \/ HandleStatus(ev)
        <2>1. AddMessage(ev.conn, "system", ev.id) /\ UNCHANGED <<delayed, came>>
            BY <1>6 DEF HandlePong, HandleError, HandleStatus
        <2> SUFFICES ASSUME NEW c \in Conns PROVE Ordered(c)'
            BY DEF InOrder
        <2>2. Soon(c)' = Soon(c) /\ Soon(c) \in Seq(Nat)
            BY <2>1, ShownType DEF Soon
        <2>3. "system" \in Direction /\ Ordered(c)
            BY DEF Direction, InOrder
        <2> QED
            BY <1>2, <2>1, <2>2, <2>3, OrderAdded
    <1> QED
        BY <1>3, <1>4, <1>5, <1>6

\* Picking none of a list leaves nothing.
LEMMA PickedNone ==
    ASSUME NEW T, NEW list \in Seq(T)
    PROVE  Picked(list, {}) = <<>>
    <1> DEFINE p == Picked(list, {})
    <1>1. p \in Seq(T \cap {})
        BY PickedType
    <1> HIDE DEF p
    <1>2. p # <<>> => p[1] \in T \cap {}
        BY <1>1, EmptySeq, LenProperties, ElementOfSeq
    <1> QED
        BY <1>2 DEF p

\* No elements, no ids.
LEMMA IdsOfEmpty == IdsOf(<<>>) = <<>>
    BY DEF IdsOf

\* The end of two sequences is the second.
LEMMA EndIs ==
    ASSUME NEW gone \in Seq(Nat), NEW s \in Seq(Nat)
    PROVE  SubSeq(gone \o s, Len(gone) + 1, Len(gone \o s)) = s
    <1> DEFINE r == gone \o s
               e == SubSeq(r, Len(gone) + 1, Len(r))
    <1>1. /\ r \in Seq(Nat) /\ Len(r) = Len(gone) + Len(s)
          /\ \A i \in 1..Len(gone) + Len(s) :
                r[i] = IF i <= Len(gone) THEN gone[i] ELSE s[i - Len(gone)]
        BY ConcatProperties
    <1>2. Len(gone) \in Nat /\ Len(s) \in Nat
        BY LenProperties
    <1> HIDE DEF r
    <1>3. /\ e \in Seq(Nat) /\ Len(e) = Len(s)
          /\ \A i \in 1..Len(s) : e[i] = r[i + Len(gone)]
        BY <1>1, <1>2, SMTT(30)
    <1> HIDE DEF e
    <1>4. ASSUME NEW i \in 1..Len(e) PROVE e[i] = s[i]
        <2> DEFINE k == i + Len(gone)
        <2>1. /\ k \in 1..Len(gone) + Len(s) /\ ~ k <= Len(gone) /\ k - Len(gone) = i
              /\ i \in 1..Len(s)
            BY <1>2, <1>3
        <2>2. e[i] = r[k]
            BY <1>3, <2>1
        <2> HIDE DEF k
        <2>3. r[k] = s[k - Len(gone)]
            BY <1>1, <2>1
        <2> QED
            BY <2>1, <2>2, <2>3
    <1> QED
        BY <1>3, <1>4, SeqEqual DEF e, r

\* Clearing a feed loses what it shows; the other feeds keep what they show.
LEMMA OrderCleared ==
    ASSUME FeedType, InOrder, NEW a \in Conns \cup {NoConn}, ClearMessages(a)
    PROVE  InOrder'
    <1> SUFFICES ASSUME NEW c \in Conns PROVE Ordered(c)'
        BY DEF InOrder
    <1> DEFINE A == ReceivedOf(c)
               B == {m \in Message : m.conn # a}
               shown == Shown(c)
               then == Shown(c)'
               soon == Soon(c)
    <1>1. messages \in Seq(Message) /\ lost \in [Conns -> Nat]
        BY DEF FeedType
    <1>2. /\ messages' = IF a = NoConn THEN <<>> ELSE Picked(messages, B)
          /\ Received(messages, c) = Picked(messages, A)
        <2>1. /\ messages' = IF a = NoConn THEN <<>> ELSE NotOfConn(messages, a)
              /\ NotOfConn(messages, a) = Picked(messages, B)
            BY <1>1, NotOfConnIs DEF ClearMessages
        <2>2. Received(messages, c) = Picked(messages, A)
            BY <1>1, ReceivedIs
        <2> QED
            BY <2>1, <2>2, Zenon
    <1>3. lost'[c] = IF a \in {c, NoConn} THEN lost[c] + Len(Received(messages, c)) ELSE lost[c]
        BY DEF ClearMessages
    <1>4. Soon(c)' = soon /\ UNCHANGED came
        BY DEF ClearMessages, Soon
    <1>5. then = IdsOf(Picked(messages', A)) /\ shown = IdsOf(Picked(messages, A))
        BY DEF Shown
    <1>6. shown \in Seq(Nat) /\ soon \in Seq(Nat)
        BY ShownType
    <1>7. PICK gone \in Seq(Nat) : Len(gone) = lost[c] /\ came[c] = gone \o (shown \o soon)
        BY DEF InOrder, Ordered
    <1>8. CASE a \in {c, NoConn}
        <2>1. Picked(messages', A) = <<>>
            <3>1. CASE a = NoConn
                BY <1>2, <3>1, PickedEmpty
            <3>2. CASE a # NoConn
                <4>1. messages' = Picked(messages, B)
                    BY <1>2, <3>2
                <4>2. Picked(Picked(messages, B), A) = Picked(messages, B \cap A)
                    <5> HIDE DEF A, B
                    <5> QED
                        BY <1>1, PickedTwice
                <4>3. B \cap A = {}
                    BY <1>8, <3>2 DEF ReceivedOf
                <4>4. Picked(messages, {}) = <<>>
                    BY <1>1, PickedNone
                <4> QED
                    BY <4>1, <4>2, <4>3, <4>4, Zenon
            <3> QED
                BY <3>1, <3>2
        <2>2. then = <<>>
            BY <1>5, <2>1, IdsOfEmpty, Zenon
        <2>3. Len(shown) = Len(Received(messages, c))
            <3>1. Picked(messages, A) \in Seq(Message)
                BY <1>1, PickedSeq
            <3>2. Len(IdsOf(Picked(messages, A))) = Len(Picked(messages, A))
                BY <3>1, IdsAreNat, IdsOfType
            <3> QED
                BY <1>2, <1>5, <3>2, Zenon
        <2> HIDE DEF shown, then, soon
        <2>4. gone \o shown \in Seq(Nat) /\ Len(gone \o shown) = Len(gone) + Len(shown)
            BY <1>6, ConcatProperties
        <2>5. (gone \o shown) \o soon = gone \o (shown \o soon)
            BY <1>6, Associative, Zenon
        <2>6. then \o soon = soon
            BY <1>6, <2>2, ConcatEmptySeq
        <2>7. came[c] = (gone \o shown) \o (then \o soon)
            BY <1>7, <2>5, <2>6, Zenon
        <2>8. Len(gone \o shown) = lost'[c]
            BY <1>3, <1>7, <1>8, <2>3, <2>4
        <2> QED
            BY <1>4, <2>4, <2>7, <2>8 DEF Ordered, then
    <1>9. CASE a \notin {c, NoConn}
        <2>1. messages' = Picked(messages, B)
            BY <1>2, <1>9
        <2>2. Picked(Picked(messages, B), A) = Picked(messages, B \cap A)
            <3> HIDE DEF A, B
            <3> QED
                BY <1>1, PickedTwice
        <2>3. B \cap A = A
            BY <1>9 DEF ReceivedOf
        <2>4. Picked(messages', A) = Picked(messages, A)
            BY <2>1, <2>2, <2>3, Zenon
        <2>5. then = shown /\ lost'[c] = lost[c]
            BY <1>3, <1>5, <1>9, <2>4
        <2> HIDE DEF shown, then, soon
        <2> QED
            BY <1>4, <1>7, <2>5 DEF Ordered, then
    <1> QED
        BY <1>8, <1>9

\* The first of those that are about to be shown is the one that is shown.
LEMMA OrderShown ==
    ASSUME FeedType, InOrder, ShowReceived
    PROVE  InOrder'
    <1> SUFFICES ASSUME NEW c \in Conns PROVE Ordered(c)'
        BY DEF InOrder
    <1> DEFINE A == DueOf(c)
               due == delayed[1]
               p == Picked(Tail(delayed), A)
    <1>1. /\ delayed # <<>> /\ delayed' = Tail(delayed) /\ UNCHANGED came
          /\ AddMessage(due.conn, "received", due.id)
        BY DEF ShowReceived
    <1>2. due \in Due /\ due.conn \in Conns /\ due.id \in Nat /\ delayed \in Seq(Due)
          /\ Tail(delayed) \in Seq(Due)
        BY <1>1, FirstDue DEF FeedType, Due
    <1>3. due \in A <=> due.conn = c
        BY <1>2 DEF DueOf
    <1> HIDE DEF A
    <1>4. Picked(delayed, A) = IF due \in A THEN <<due>> \o p ELSE p
        BY <1>1, <1>2, PickedTail
    <1>5. Soon(c) = IdsOf(Picked(delayed, A)) /\ Soon(c)' = IdsOf(p)
        BY <1>1 DEF Soon, A
    <1>6. p \in Seq(Due)
        BY <1>2, PickedSeq
    <1> HIDE DEF due, p
    <1>7. IdsOf(<<due>> \o p) = <<due.id>> \o IdsOf(p) /\ IdsOf(p) \in Seq(Nat)
        BY <1>2, <1>6, IdsAreNat, IdsOfTail, IdsOfType
    <1>8. Soon(c) = IF "received" = "received" /\ due.conn = c THEN <<due.id>> \o Soon(c)'
                    ELSE Soon(c)'
        BY <1>3, <1>4, <1>5, <1>7
    <1>9. Soon(c)' \in Seq(Nat)
        BY <1>5, <1>7
    <1>10. Ordered(c) /\ "received" \in Direction
        BY DEF InOrder, Direction
    <1> DEFINE b == due.conn
               id == due.id
    <1>11. /\ b \in Conns /\ id \in Nat /\ AddMessage(b, "received", id)
           /\ Soon(c) = IF "received" = "received" /\ b = c THEN <<id>> \o Soon(c)'
                        ELSE Soon(c)'
        BY <1>1, <1>2, <1>8
    <1> HIDE DEF b, id
    <1> QED
        BY <1>1, <1>9, <1>10, <1>11, OrderAdded

\* The step of the invariant of order, one action after the other.
LEMMA OrderStep == FeedType /\ InOrder /\ [FeedNext]_allFeedVars => InOrder'
    <1> SUFFICES ASSUME FeedType, InOrder, [FeedNext]_allFeedVars PROVE InOrder'
        OBVIOUS
    <1>1. ASSUME NEW d \in Direction, NEW b \in Conns, NEW id \in Nat, d # "received",
                 AddMessage(b, d, id), UNCHANGED <<delayed, came>>
          PROVE  InOrder'
        <2> SUFFICES ASSUME NEW c \in Conns PROVE Ordered(c)'
            BY DEF InOrder
        <2>1. Soon(c)' = Soon(c) /\ Soon(c) \in Seq(Nat)
            BY <1>1, ShownType DEF Soon
        <2>2. Ordered(c)
            BY DEF InOrder
        <2> QED
            BY <1>1, <2>1, <2>2, OrderAdded
    <1>2. CASE Receive
        BY <1>2, OrderReceived DEF Receive
    <1>3. CASE ShowReceived
        BY <1>3, OrderShown
    <1>4. ASSUME NEW call \in calls, SendAnswered(call) PROVE InOrder'
        <2>1. call.conn \in Conns /\ call.id \in Nat
            BY DEF FeedType, Call
        <2>2. /\ \/ AddMessage(call.conn, "sent", call.id)
                 \/ AddMessage(call.conn, "system", call.id)
              /\ UNCHANGED <<delayed, came>>
            BY <1>4 DEF SendAnswered
        <2>3. "sent" \in Direction /\ "system" \in Direction
            BY DEF Direction
        <2> DEFINE b == call.conn
                   id == call.id
        <2> HIDE DEF b, id
        <2>4. b \in Conns /\ id \in Nat /\ UNCHANGED <<delayed, came>>
              /\ (AddMessage(b, "sent", id) \/ AddMessage(b, "system", id))
            BY <2>1, <2>2 DEF b, id
        <2>5. CASE AddMessage(b, "sent", id)
            BY <1>1, <2>3, <2>4, <2>5
        <2>6. CASE AddMessage(b, "system", id)
            BY <1>1, <2>3, <2>4, <2>6
        <2> QED
            BY <2>4, <2>5, <2>6
    <1>5. CASE ClearFeed \/ ClearHistory
        <2>1. shownConn \in Conns \cup {NoConn} /\ NoConn \in Conns \cup {NoConn}
            BY DEF FeedType
        <2>2. CASE ClearFeed
            BY <2>1, <2>2, OrderCleared DEF ClearFeed
        <2>3. CASE ClearHistory
            BY <2>1, <2>3, OrderCleared DEF ClearHistory
        <2> QED
            BY <1>5, <2>2, <2>3
    <1>6. CASE ServerStep
        <2>1. UNCHANGED <<feedVars, came>>
            <3>1. ASSUME NEW c \in Conns, NEW l \in Latencies \cup {0}, OnMessage(c, l)
                  PROVE  UNCHANGED <<feedVars, came>>
                BY <3>1 DEF OnMessage
            <3>2. ASSUME NEW c \in Conns, NEW t, NEW l, OnOther(c, t, l)
                  PROVE  UNCHANGED <<feedVars, came>>
                BY <3>2 DEF OnOther
            <3>3. ASSUME NEW call \in calls, SendMessage(call) \/ RefuseMessage(call)
                  PROVE  UNCHANGED <<feedVars, came>>
                BY <3>3 DEF SendMessage, RefuseMessage
            <3>4. ASSUME NEW c \in Conns, ClearByConnection(c)
                  PROVE  UNCHANGED <<feedVars, came>>
                BY <3>4 DEF ClearByConnection
            <3> QED
                BY <1>6, <3>1, <3>2, <3>3, <3>4, Zenon DEF ServerStep
        <2> QED
            BY <2>1, OrderKept
    <1>7. CASE Send \/ Poll \/ ClearLog \/ Tick
        BY <1>7, OrderKept DEF Send, Poll, ClearLog, Tick
    <1>8. ASSUME NEW poll \in polls, PollAnswered(poll) \/ TotalsAnswered(poll) \/ PollFails(poll)
          PROVE  InOrder'
        BY <1>8, OrderKept DEF PollAnswered, TotalsAnswered, PollFails
    <1>9. ASSUME NEW c \in Conns \cup {NoConn}, SwitchTab(c) PROVE InOrder'
        BY <1>9, OrderKept DEF SwitchTab
    <1>10. CASE UNCHANGED allFeedVars
        BY <1>10, OrderKept DEF allFeedVars
    <1> QED
        BY <1>2, <1>3, <1>4, <1>5, <1>6, <1>7, <1>8, <1>9, <1>10, Zenon
           DEF FeedNext, BrowserStep

\* Initially nothing has come, and nothing is shown.
LEMMA OrderInit == FeedInit => InOrder
    <1> SUFFICES ASSUME FeedInit, NEW c \in Conns PROVE Ordered(c)
        BY DEF InOrder
    <1>1. messages = <<>> /\ delayed = <<>> /\ came[c] = <<>> /\ lost[c] = 0
        BY DEF FeedInit
    <1>2. Shown(c) = <<>> /\ Soon(c) = <<>>
        BY <1>1, PickedEmpty, IdsOfEmpty DEF Shown, Soon
    <1>3. <<>> \in Seq(Nat) /\ Len(<<>>) = 0 /\ <<>> \o (<<>> \o <<>>) = <<>>
        OBVIOUS
    <1> QED
        BY <1>1, <1>2, <1>3 DEF Ordered

\* For any number of connections, messages, calls and clearings, and any limit
\* of the feed: the received messages that a feed shows or is about to show are
\* the latest that came of its connection, each once and in their order
\* (useControlSocket.ts:136-154, messageStore.ts:46-58).
THEOREM ReceivedIsShownOnceInOrder == FeedSpec => []ReceivedOnceInOrder
    <1>1. FeedInit => FeedType /\ InOrder
        BY FeedTypeInit, OrderInit
    <1>2. FeedType /\ InOrder /\ [FeedNext]_allFeedVars => (FeedType /\ InOrder)'
        BY FeedTypeStep, OrderStep
    <1>3. FeedType /\ InOrder => ReceivedOnceInOrder
        <2> SUFFICES ASSUME FeedType, InOrder, NEW c \in Conns
                     PROVE  IdsOf(GetFiltered(c, "received")) \o IdsOf(OfConn(delayed, c))
                                = SubSeq(came[c], lost[c] + 1, Len(came[c]))
            BY DEF ReceivedOnceInOrder
        <2> DEFINE s == Shown(c) \o Soon(c)
        <2>1. messages \in Seq(Message) /\ delayed \in Seq(Due)
            BY DEF FeedType
        <2>2. IdsOf(GetFiltered(c, "received")) \o IdsOf(OfConn(delayed, c)) = s
            BY <2>1, ReceivedIs, OfConnIs DEF Shown, Soon, DueOf
        <2>3. PICK gone \in Seq(Nat) : Len(gone) = lost[c] /\ came[c] = gone \o s
            BY DEF InOrder, Ordered
        <2>4. s \in Seq(Nat)
            BY ShownType, ConcatProperties
        <2> HIDE DEF s
        <2>5. SubSeq(gone \o s, Len(gone) + 1, Len(gone \o s)) = s
            BY <2>4, EndIs
        <2> QED
            BY <2>2, <2>3, <2>5, Zenon
    <1> QED
        BY <1>1, <1>2, <1>3, PTL DEF FeedSpec

------------------------------------------------------------------------------
(* Statistics: percentiles are nearest ranks, totals never shrink.          *)

\* A list with an element of a set of numbers has a least and a greatest one of
\* that set.
LEMMA Extremes ==
    ASSUME NEW list \in Seq(Nat), NEW A, NEW k \in 1..Len(list), list[k] \in A
    PROVE  /\ \E j \in 1..Len(list) : /\ list[j] \in A
                                      /\ \A i \in 1..Len(list) : list[i] \in A => list[j] <= list[i]
           /\ \E j \in 1..Len(list) : /\ list[j] \in A
                                      /\ \A i \in 1..Len(list) : list[i] \in A => list[i] <= list[j]
    <1> DEFINE Has(q) == \E j \in 1..Len(q) : q[j] \in A
               Low(q, j) == q[j] \in A /\ \A i \in 1..Len(q) : q[i] \in A => q[j] <= q[i]
               High(q, j) == q[j] \in A /\ \A i \in 1..Len(q) : q[i] \in A => q[i] <= q[j]
               S == {q \in Seq(Nat) : Has(q) => /\ \E j \in 1..Len(q) : Low(q, j)
                                                /\ \E j \in 1..Len(q) : High(q, j)}
    <1>1. <<>> \in S
        <2>1. <<>> \in Seq(Nat) /\ 1..Len(<<>>) = {}
            BY EmptySeq
        <2> QED
            BY <2>1
    <1>2. ASSUME NEW q \in Seq(Nat), NEW e \in Nat, q \in S PROVE Append(q, e) \in S
        <2> DEFINE r == Append(q, e)
        <2>1. /\ r \in Seq(Nat) /\ Len(r) = Len(q) + 1 /\ Len(q) \in Nat
              /\ r[Len(q) + 1] = e
              /\ \A n \in 1..Len(q) : r[n] = q[n] /\ q[n] \in Nat
            BY AppendProperties, LenProperties, ElementOfSeq
        <2>2. Has(q) => (\E j \in 1..Len(q) : Low(q, j)) /\ (\E j \in 1..Len(q) : High(q, j))
            BY <1>2
        <2> HIDE DEF r
        <2> SUFFICES ASSUME Has(r)
                     PROVE  (\E j \in 1..Len(r) : Low(r, j)) /\ (\E j \in 1..Len(r) : High(r, j))
            BY <2>1 DEF r
        <2> DEFINE last == Len(q) + 1
        <2>5. /\ last \in 1..Len(r) /\ r[last] = e
              /\ 1..Len(q) \subseteq 1..Len(r)
              /\ \A i \in 1..Len(r) : i \in 1..Len(q) \/ i = last
            BY <2>1
        <2>6. \A i \in 1..Len(q) : r[i] = q[i] /\ q[i] \in Nat
            BY <2>1
        <2> HIDE DEF last
        <2>3. CASE ~ Has(q)
            <3>1. \A i \in 1..Len(r) : r[i] \in A => i = last
                BY <2>3, <2>5, <2>6
            <3>2. e \in A
                BY <2>5, <3>1
            <3>3. Low(r, last) /\ High(r, last)
                BY <2>5, <3>1, <3>2
            <3> QED
                BY <2>5, <3>3
        <2>4. CASE Has(q)
            <3>1. PICK l \in 1..Len(q) : Low(q, l)
                BY <2>2, <2>4
            <3>2. PICK h \in 1..Len(q) : High(q, h)
                BY <2>2, <2>4
            <3>3. /\ l \in 1..Len(r) /\ r[l] = q[l] /\ q[l] \in Nat
                  /\ h \in 1..Len(r) /\ r[h] = q[h] /\ q[h] \in Nat
                BY <2>5, <2>6
            <3>4. \E j \in 1..Len(r) : Low(r, j)
                <4>1. CASE e \in A /\ e < q[l]
                    <5>1. ASSUME NEW i \in 1..Len(r), r[i] \in A PROVE r[last] <= r[i]
                        <6>1. CASE i = last
                            BY <2>5, <6>1
                        <6>2. CASE i \in 1..Len(q)
                            <7>1. r[i] = q[i] /\ q[i] \in Nat /\ q[i] \in A
                                BY <2>6, <5>1, <6>2
                            <7>2. q[l] <= q[i]
                                BY <3>1, <6>2, <7>1
                            <7>3. e <= q[i]
                                BY <3>3, <4>1, <7>1, <7>2, SMTT(30)
                            <7> QED
                                BY <2>5, <7>1, <7>3, Zenon
                        <6> QED
                            BY <2>5, <6>1, <6>2
                    <5> QED
                        BY <2>5, <4>1, <5>1
                <4>2. CASE ~ (e \in A /\ e < q[l])
                    <5>1. ASSUME NEW i \in 1..Len(r), r[i] \in A PROVE r[l] <= r[i]
                        <6>1. CASE i = last
                            <7>1. r[i] = e /\ e \in A
                                BY <2>5, <5>1, <6>1
                            <7>2. q[l] <= e
                                BY <3>3, <4>2, <7>1, SMTT(30)
                            <7> QED
                                BY <3>3, <7>1, <7>2, Zenon
                        <6>2. CASE i \in 1..Len(q)
                            <7>1. r[i] = q[i] /\ q[i] \in A
                                BY <2>6, <5>1, <6>2
                            <7>2. q[l] <= q[i]
                                BY <3>1, <6>2, <7>1
                            <7> QED
                                BY <3>3, <7>1, <7>2, Zenon
                        <6> QED
                            BY <2>5, <6>1, <6>2
                    <5> QED
                        BY <3>1, <3>3, <5>1
                <4> QED
                    BY <4>1, <4>2
            <3>5. \E j \in 1..Len(r) : High(r, j)
                <4>1. CASE e \in A /\ e > q[h]
                    <5>1. ASSUME NEW i \in 1..Len(r), r[i] \in A PROVE r[i] <= r[last]
                        <6>1. CASE i = last
                            BY <2>5, <6>1
                        <6>2. CASE i \in 1..Len(q)
                            <7>1. r[i] = q[i] /\ q[i] \in Nat /\ q[i] \in A
                                BY <2>6, <5>1, <6>2
                            <7>2. q[i] <= q[h]
                                BY <3>2, <6>2, <7>1
                            <7>3. q[i] <= e
                                BY <3>3, <4>1, <7>1, <7>2, SMTT(30)
                            <7> QED
                                BY <2>5, <7>1, <7>3, Zenon
                        <6> QED
                            BY <2>5, <6>1, <6>2
                    <5> QED
                        BY <2>5, <4>1, <5>1
                <4>2. CASE ~ (e \in A /\ e > q[h])
                    <5>1. ASSUME NEW i \in 1..Len(r), r[i] \in A PROVE r[i] <= r[h]
                        <6>1. CASE i = last
                            <7>1. r[i] = e /\ e \in A
                                BY <2>5, <5>1, <6>1
                            <7>2. e <= q[h]
                                BY <3>3, <4>2, <7>1
                            <7> QED
                                BY <3>3, <7>1, <7>2, Zenon
                        <6>2. CASE i \in 1..Len(q)
                            <7>1. r[i] = q[i] /\ q[i] \in A
                                BY <2>6, <5>1, <6>2
                            <7>2. q[i] <= q[h]
                                BY <3>2, <6>2, <7>1
                            <7> QED
                                BY <3>3, <7>1, <7>2, Zenon
                        <6> QED
                            BY <2>5, <6>1, <6>2
                    <5> QED
                        BY <3>2, <3>3, <5>1
                <4> QED
                    BY <4>1, <4>2
            <3> QED
                BY <3>4, <3>5
        <2> QED
            BY <2>3, <2>4
    <1> HIDE DEF S
    <1>3. list \in S
        BY <1>1, <1>2, SeqInSet
    <1> QED
        BY <1>3 DEF S

\* The places of a list up to, and below, a value.
UpTo(list, x) == {i \in DOMAIN list : list[i] <= x}
Below(list, x) == {i \in DOMAIN list : list[i] < x}

\* The places of a list with values up to, and below, a number: how many
\* there are.
LEMMA Places ==
    ASSUME NEW list \in Seq(Nat), NEW x \in Nat
    PROVE  /\ DOMAIN list = 1..Len(list) /\ Len(list) \in Nat
           /\ IsFiniteSet(UpTo(list, x)) /\ IsFiniteSet(Below(list, x))
           /\ Cardinality(UpTo(list, x)) \in Nat /\ Cardinality(Below(list, x)) \in Nat
           /\ Cardinality(UpTo(list, x)) <= Len(list)
           /\ Cardinality(UpTo(list, x)) = Len(list) => UpTo(list, x) = 1..Len(list)
           /\ AtMost(list, x) = Cardinality(UpTo(list, x))
           /\ AtMost(list, x) - Occurrences(list, x) = Cardinality(Below(list, x))
    <1> DEFINE D == 1..Len(list)
               U == UpTo(list, x)
               B == Below(list, x)
               O == {i \in DOMAIN list : list[i] = x}
    <1>1. /\ DOMAIN list = D /\ Len(list) \in Nat
          /\ \A i \in D : list[i] \in Nat
        BY LenProperties, ElementOfSeq
    <1>2. IsFiniteSet(D) /\ Cardinality(D) = Len(list)
        <2>1. 1 \in Int /\ Len(list) \in Int
            BY <1>1
        <2>2. IsFiniteSet(1..Len(list))
              /\ Cardinality(1..Len(list)) = IF 1 > Len(list) THEN 0 ELSE Len(list) - 1 + 1
            BY <2>1, FS_Interval
        <2> QED
            BY <1>1, <2>2
    <1>3. U \in SUBSET D /\ B \in SUBSET D /\ O \in SUBSET U
        BY <1>1 DEF UpTo, Below
    <1>4. U \ O = B
        BY <1>1 DEF UpTo, Below
    <1>5. U \cap O = O
        BY <1>3
    <1>6. AtMost(list, x) = Cardinality(U) /\ Occurrences(list, x) = Cardinality(O)
        BY DEF AtMost, Occurrences, UpTo
    <1> HIDE DEF D, U, B, O
    <1>7. /\ IsFiniteSet(U) /\ Cardinality(U) <= Cardinality(D)
          /\ Cardinality(D) = Cardinality(U) => D = U
        BY <1>2, <1>3, FS_Subset
    <1>8. IsFiniteSet(U \ O) /\ Cardinality(U \ O) = Cardinality(U) - Cardinality(U \cap O)
        BY <1>7, FS_Difference
    <1>9. IsFiniteSet(B) /\ Cardinality(B) = Cardinality(U) - Cardinality(O)
        BY <1>4, <1>5, <1>8, Zenon
    <1>10. Cardinality(U) \in Nat /\ Cardinality(B) \in Nat
        BY <1>7, <1>9, FS_CardinalityType
    <1>11. Cardinality(U) <= Len(list) /\ (Cardinality(U) = Len(list) => U = D)
        BY <1>2, <1>7
    <1>12. AtMost(list, x) - Occurrences(list, x) = Cardinality(B)
        BY <1>6, <1>9
    <1> QED
        BY <1>1, <1>6, <1>7, <1>9, <1>10, <1>11, <1>12 DEF U, B, D

\* The place that a value has in the sorted list.
LEMMA SortedIs ==
    ASSUME NEW list \in Seq(Nat), NEW i \in 1..Len(list)
    PROVE  /\ Sorted(list)[i] \in {list[j] : j \in DOMAIN list}
           /\ Sorted(list)[i] \in Nat
           /\ Cardinality(UpTo(list, Sorted(list)[i])) >= i
           /\ Cardinality(Below(list, Sorted(list)[i])) < i
    <1> DEFINE V == {list[j] : j \in DOMAIN list}
               Good(x) == AtMost(list, x) >= i /\ AtMost(list, x) - Occurrences(list, x) < i
    <1>1. /\ DOMAIN list = 1..Len(list) /\ Len(list) \in Nat
          /\ \A j \in 1..Len(list) : list[j] \in Nat
        BY LenProperties, ElementOfSeq
    <1>2. V \subseteq Nat
        BY <1>1
    <1>3. ASSUME NEW x \in V, Cardinality(UpTo(list, x)) >= i, Cardinality(Below(list, x)) < i
          PROVE  Good(x)
        BY <1>2, <1>3, Places
    <1>4. \E x \in V : Cardinality(UpTo(list, x)) >= i
        <2>1. PICK h \in 1..Len(list) : \A j \in 1..Len(list) : list[j] <= list[h]
            <3>1. list[i] \in Nat
                BY <1>1
            <3>2. \E h \in 1..Len(list) : /\ list[h] \in Nat
                                          /\ \A j \in 1..Len(list) : list[j] \in Nat => list[j] <= list[h]
                BY <3>1, Extremes
            <3> QED
                BY <1>1, <3>2
        <2>2. UpTo(list, list[h]) = 1..Len(list)
            BY <1>1, <2>1 DEF UpTo
        <2>3. Cardinality(1..Len(list)) = Len(list)
            <3>1. Cardinality(1..Len(list)) = IF 1 > Len(list) THEN 0 ELSE Len(list) - 1 + 1
                BY <1>1, FS_Interval
            <3> QED
                BY <1>1, <3>1
        <2>4. Cardinality(UpTo(list, list[h])) = Len(list)
            BY <2>2, <2>3, Zenon
        <2> QED
            BY <1>1, <2>4
    <1>5. \E x \in V : Good(x)
        <2> DEFINE A == {v \in Nat : Cardinality(UpTo(list, v)) >= i}
        <2>1. PICK l \in 1..Len(list) :
                  list[l] \in A /\ \A j \in 1..Len(list) : list[j] \in A => list[l] <= list[j]
            <3>1. \E k \in 1..Len(list) : list[k] \in A
                BY <1>1, <1>2, <1>4
            <3> HIDE DEF A
            <3> QED
                BY <3>1, Extremes
        <2> DEFINE x == list[l]
                   B == {v \in Nat : v < x}
        <2>2. x \in V /\ x \in Nat /\ Cardinality(UpTo(list, x)) >= i
            BY <1>1, <2>1
        <2>3. Cardinality(Below(list, x)) < i
            <3>1. CASE Below(list, x) = {}
                <4>1. Cardinality(Below(list, x)) = 0
                    BY <3>1, FS_EmptySet, Zenon
                <4> QED
                    BY <1>1, <4>1
            <3>2. CASE Below(list, x) # {}
                <4>1. PICK k \in 1..Len(list) : list[k] \in B
                    BY <1>1, <3>2 DEF Below
                <4>2. PICK h \in 1..Len(list) :
                          list[h] \in B /\ \A j \in 1..Len(list) : list[j] \in B => list[j] <= list[h]
                    <5> HIDE DEF B
                    <5> QED
                        BY <4>1, Extremes
                <4>3. UpTo(list, list[h]) = Below(list, x)
                    BY <1>1, <2>2, <4>2, SMTT(30) DEF UpTo, Below
                <4>4. list[h] \in Nat /\ ~ list[l] <= list[h]
                    BY <1>1, <2>2, <4>2
                <4>5. ~ Cardinality(UpTo(list, list[h])) >= i
                    BY <2>1, <4>4
                <4>6. Cardinality(UpTo(list, list[h])) \in Nat
                    BY <4>4, Places
                <4>7. Cardinality(UpTo(list, list[h])) < i
                    BY <4>5, <4>6
                <4> QED
                    BY <4>3, <4>7, Zenon
            <3> QED
                BY <3>1, <3>2
        <2> QED
            BY <1>3, <2>2, <2>3
    <1>6. Sorted(list)[i] = CHOOSE x \in V : Good(x)
        BY <1>1 DEF Sorted
    <1> DEFINE v == Sorted(list)[i]
    <1>7. v \in V /\ Good(v)
        BY <1>5, <1>6
    <1> HIDE DEF v
    <1>8. v \in Nat
        BY <1>2, <1>7
    <1>9. /\ AtMost(list, v) = Cardinality(UpTo(list, v))
          /\ AtMost(list, v) - Occurrences(list, v) = Cardinality(Below(list, v))
        BY <1>8, Places
    <1>10. Cardinality(UpTo(list, v)) >= i /\ Cardinality(Below(list, v)) < i
        BY <1>7, <1>9
    <1> QED
        BY <1>7, <1>8, <1>10 DEF v

\* The place computePercentile takes is the ceiling of p n / 100, and a
\* place of the list.
LEMMA RankIs ==
    ASSUME NEW p \in 1..100, NEW n \in Nat \ {0}
    PROVE  /\ Rank(p, n) \in 1..n /\ p * n \in Nat
           /\ p * n <= 100 * Rank(p, n) /\ 100 * Rank(p, n) <= p * n + 99
    <1> DEFINE k == p * n
    <1>1. k \in Nat /\ 1 <= k /\ k <= 100 * n
        <2>1. k \in Nat
            OBVIOUS
        <2>2. (p - 1) * n >= 0 /\ (p - 1) * n = p * n - n
            OBVIOUS
        <2>3. (100 - p) * n >= 0 /\ (100 - p) * n = 100 * n - p * n
            OBVIOUS
        <2> QED
            BY <2>1, <2>2, <2>3
    <1> HIDE DEF k
    <1> DEFINE r == (k + 99) \div 100
    <1>2. /\ r \in 1..n
          /\ k <= 100 * r /\ 100 * r <= k + 99
        BY <1>1
    <1> QED
        BY <1>1, <1>2 DEF Rank, k

\* What stands there once the samples are sorted is their p-th percentile by
\* nearest rank.
LEMMA PercentileIs ==
    ASSUME NEW list \in Seq(Nat), list # <<>>, NEW p \in 1..100
    PROVE  /\ ComputePercentile(list, p) \in Nat
           /\ IsPercentile(ComputePercentile(list, p), list, p)
    <1> DEFINE n == Len(list)
               idx == Rank(p, n)
               v == Sorted(list)[idx]
               V == {list[i] : i \in DOMAIN list}
    <1>1. n \in Nat \ {0} /\ DOMAIN list = 1..n /\ \A i \in 1..n : list[i] \in Nat
        BY EmptySeq, LenProperties, ElementOfSeq
    <1>2. /\ idx \in 1..n /\ p * n \in Nat
          /\ p * n <= 100 * idx /\ 100 * idx <= p * n + 99
        <2> HIDE DEF n
        <2> QED
            BY <1>1, RankIs
    <1>3. ComputePercentile(list, p) = v
        BY <1>1, <1>2 DEF ComputePercentile
    <1> HIDE DEF idx
    <1>4. /\ v \in V /\ v \in Nat
          /\ Cardinality(UpTo(list, v)) >= idx /\ Cardinality(Below(list, v)) < idx
        BY <1>2, SortedIs
    <1> HIDE DEF v, n
    <1>5. 100 * AtMost(list, v) >= p * n
        <2>1. AtMost(list, v) = Cardinality(UpTo(list, v)) /\ Cardinality(UpTo(list, v)) \in Nat
            BY <1>4, Places
        <2> QED
            BY <1>2, <1>4, <2>1
    <1>6. ASSUME NEW x \in V, 100 * AtMost(list, x) >= p * n PROVE v <= x
        <2>1. x \in Nat
            BY <1>1
        <2> SUFFICES ASSUME x < v PROVE FALSE
            BY <1>4, <2>1
        <2>2. UpTo(list, x) \in SUBSET Below(list, v)
            BY <1>1, <1>4, <2>1 DEF UpTo, Below
        <2>3. IsFiniteSet(Below(list, v)) /\ Cardinality(Below(list, v)) \in Nat
            BY <1>4, Places
        <2>4. Cardinality(UpTo(list, x)) <= Cardinality(Below(list, v))
            BY <2>2, <2>3, FS_Subset
        <2>5. AtMost(list, x) = Cardinality(UpTo(list, x)) /\ Cardinality(UpTo(list, x)) \in Nat
            BY <2>1, Places
        <2> QED
            BY <1>2, <1>4, <1>6, <2>3, <2>4, <2>5
    <1> QED
        BY <1>3, <1>4, <1>5, <1>6 DEF IsPercentile, n

\* The first and the last of the sorted samples bound them all.
LEMMA ExtremesAre ==
    ASSUME NEW list \in Seq(Nat), list # <<>>, NEW i \in DOMAIN list
    PROVE  Sorted(list)[1] <= list[i] /\ list[i] <= Sorted(list)[Len(list)]
    <1> DEFINE n == Len(list)
               low == Sorted(list)[1]
               high == Sorted(list)[n]
    <1>1. n \in Nat \ {0} /\ i \in 1..n /\ list[i] \in Nat
        BY EmptySeq, LenProperties, ElementOfSeq
    <1>2. 1 \in 1..n /\ n \in 1..n
        BY <1>1
    <1>3. low \in Nat /\ Cardinality(Below(list, low)) < 1
        BY <1>2, SortedIs
    <1>4. high \in Nat /\ Cardinality(UpTo(list, high)) >= n
        BY <1>2, SortedIs
    <1> HIDE DEF low, high
    <1>5. IsFiniteSet(Below(list, low)) /\ Cardinality(Below(list, low)) \in Nat
        BY <1>3, Places
    <1>6. Below(list, low) = {}
        <2>1. Cardinality(Below(list, low)) = 0
            BY <1>3, <1>5
        <2> QED
            BY <1>5, <2>1, FS_EmptySet
    <1>7. low <= list[i]
        BY <1>1, <1>3, <1>6 DEF Below
    <1>8. UpTo(list, high) = 1..n
        <2>1. /\ Cardinality(UpTo(list, high)) \in Nat /\ Cardinality(UpTo(list, high)) <= n
              /\ Cardinality(UpTo(list, high)) = n => UpTo(list, high) = 1..n
            BY <1>4, Places
        <2> QED
            BY <1>1, <1>4, <2>1
    <1>9. list[i] <= high
        BY <1>1, <1>8 DEF UpTo
    <1> QED
        BY <1>7, <1>9 DEF low, high, n

\* A total over all connections does not shrink when no part of it does.
TotalOf(f) == Cardinality(UNION {{c} \X (1..f[c]) : c \in Conns})

\* A sum over the connections is a number.
LEMMA PartsAreFinite ==
    ASSUME NEW f \in [Conns -> Nat]
    PROVE  /\ IsFiniteSet(UNION {{c} \X (1..f[c]) : c \in Conns})
           /\ TotalOf(f) \in Nat
    <1> DEFINE Part(c) == {c} \X (1..f[c])
               parts == {Part(c) : c \in Conns}
               h == [c \in Conns |-> Part(c)]
    <1>1. IsFiniteSet(parts)
        <2>1. h \in Surjection(Conns, parts)
            BY DEF Surjection
        <2> HIDE DEF h, parts
        <2> QED
            BY <2>1, FS_Surjection, FeedAssumption
    <1>2. ASSUME NEW P \in parts PROVE IsFiniteSet(P)
        <2>1. PICK c \in Conns : P = Part(c)
            OBVIOUS
        <2>2. IsFiniteSet({c})
            BY FS_Singleton
        <2>3. IsFiniteSet(1..f[c])
            BY FS_Interval
        <2> QED
            BY <2>1, <2>2, <2>3, FS_Product
    <1> HIDE DEF parts
    <1>3. IsFiniteSet(UNION parts)
        BY <1>1, <1>2, FS_UNION
    <1>4. Cardinality(UNION parts) \in Nat
        BY <1>3, FS_CardinalityType
    <1> QED
        BY <1>3, <1>4 DEF TotalOf, parts

\* It grows with its parts.
LEMMA TotalGrows ==
    ASSUME NEW f \in [Conns -> Nat], NEW g \in [Conns -> Nat], \A c \in Conns : f[c] <= g[c]
    PROVE  TotalOf(f) <= TotalOf(g)
    <1> DEFINE parts == {{c} \X (1..g[c]) : c \in Conns}
    <1>1. IsFiniteSet(UNION parts)
        BY PartsAreFinite
    <1>2. UNION {{c} \X (1..f[c]) : c \in Conns} \in SUBSET UNION parts
        <2>1. ASSUME NEW c \in Conns PROVE {c} \X (1..f[c]) \subseteq UNION parts
            <3>1. 1..f[c] \subseteq 1..g[c]
                OBVIOUS
            <3>2. {c} \X (1..f[c]) \subseteq {c} \X (1..g[c])
                BY <3>1
            <3> QED
                BY <3>2
        <2> QED
            BY <2>1
    <1> HIDE DEF parts
    <1>3. TotalOf(f) <= Cardinality(UNION parts)
        BY <1>1, <1>2, FS_Subset DEF TotalOf
    <1> QED
        BY <1>3 DEF TotalOf, parts

\* The latest of a list are of its type.
LEMMA LatestType ==
    ASSUME NEW T, NEW list \in Seq(T), NEW n \in Nat \ {0}
    PROVE  Latest(list, n) \in Seq(T)
    <1>1. Len(list) \in Nat /\ \A i \in 1..Len(list) : list[i] \in T
        BY LenProperties, ElementOfSeq
    <1>2. CASE Len(list) > n
        BY <1>1, <1>2 DEF Latest
    <1>3. CASE ~ Len(list) > n
        BY <1>1, <1>3 DEF Latest
    <1> QED
        BY <1>2, <1>3

Counters == [sent : Nat, received : Nat, samples : Seq(Nat)]
Totals == [sent : Nat, received : Nat]
Polled == [sent : Nat, received : Nat, of : Seq(Nat), percentile : [Percentiles -> Nat],
           min : Nat, max : Nat]

\* Totals that the server has reached.
IsBehind(total) ==
    /\ total \in Totals
    /\ total.sent <= GetGlobalStats.sent /\ total.received <= GetGlobalStats.received

\* Statistics whose percentiles and extremes are those of their samples.
HasRanks(s) ==
    s.of # <<>> =>
        /\ \A p \in Percentiles : IsPercentile(s.percentile[p], s.of, p)
        /\ \A i \in DOMAIN s.of : s.min <= s.of[i] /\ s.of[i] <= s.max

IsSound(c, s) ==
    /\ s \in Polled /\ HasRanks(s)
    /\ s.sent <= stats[c].sent /\ s.received <= stats[c].received

SoundPoll(poll) ==
    /\ poll.conn \in Conns \cup {NoConn}
    /\ IsBehind(poll.total)
    /\ poll.conn \in Conns => \A s \in poll.stats : IsSound(poll.conn, s)

\* What is in flight to the statistics panel, and what it shows.
Sound ==
    /\ stats \in [Conns -> Counters]
    /\ DOMAIN backendStats = Conns
    /\ \A poll \in polls : SoundPoll(poll)
    /\ \A total \in globalStats : IsBehind(total)
    /\ \A c \in Conns : \A s \in backendStats[c] : IsSound(c, s)

\* What getEnhancedStats answers is sound when it is computed.
LEMMA EnhancedIsSound ==
    ASSUME stats \in [Conns -> Counters], NEW c \in Conns
    PROVE  IsSound(c, GetEnhancedStats(c))
    <1> DEFINE list == stats[c].samples
               e == GetEnhancedStats(c)
    <1>1. stats[c].sent \in Nat /\ stats[c].received \in Nat /\ list \in Seq(Nat)
        BY DEF Counters
    <1>2. /\ e.sent = stats[c].sent /\ e.received = stats[c].received /\ e.of = list
          /\ e.percentile = [p \in Percentiles |-> ComputePercentile(list, p)]
          /\ e.min = IF list = <<>> THEN 0 ELSE Sorted(list)[1]
          /\ e.max = IF list = <<>> THEN 0 ELSE Sorted(list)[Len(list)]
          /\ e = [sent |-> e.sent, received |-> e.received, of |-> e.of,
                  percentile |-> e.percentile, min |-> e.min, max |-> e.max]
        BY DEF GetEnhancedStats
    <1> HIDE DEF list, e
    <1>3. CASE list = <<>>
        <2>1. \A p \in Percentiles : ComputePercentile(list, p) = 0
            BY <1>3 DEF ComputePercentile
        <2>2. e.percentile \in [Percentiles -> Nat] /\ e.min \in Nat /\ e.max \in Nat
            BY <1>2, <1>3, <2>1
        <2>3. e \in Polled
            BY <1>1, <1>2, <2>2 DEF Polled
        <2>4. IsSound(c, e)
            BY <1>1, <1>2, <1>3, <2>3 DEF IsSound, HasRanks
        <2> QED
            BY <2>4 DEF e
    <1>4. CASE list # <<>>
        <2>1. ASSUME NEW p \in Percentiles
              PROVE  /\ ComputePercentile(list, p) \in Nat
                     /\ IsPercentile(ComputePercentile(list, p), list, p)
            <3>1. p \in 1..100
                BY FeedAssumption
            <3> QED
                BY <1>1, <1>4, <3>1, PercentileIs
        <2>2. 1 \in 1..Len(list) /\ Len(list) \in 1..Len(list)
            BY <1>1, <1>4, EmptySeq, LenProperties
        <2>3. Sorted(list)[1] \in Nat /\ Sorted(list)[Len(list)] \in Nat
            BY <1>1, <2>2, SortedIs
        <2>4. e.percentile \in [Percentiles -> Nat] /\ e.min \in Nat /\ e.max \in Nat
            BY <1>2, <1>4, <2>1, <2>3
        <2>5. e \in Polled
            BY <1>1, <1>2, <2>4 DEF Polled
        <2>6. \A i \in DOMAIN list : e.min <= list[i] /\ list[i] <= e.max
            BY <1>1, <1>2, <1>4, ExtremesAre
        <2>7. \A p \in Percentiles : IsPercentile(e.percentile[p], list, p)
            <3> SUFFICES ASSUME NEW p \in Percentiles
                         PROVE  IsPercentile(e.percentile[p], list, p)
                OBVIOUS
            <3>1. e.percentile[p] = ComputePercentile(list, p)
                BY <1>2
            <3> QED
                BY <2>1, <3>1, Zenon
        <2>8. HasRanks(e)
            BY <1>2, <2>6, <2>7, Zenon DEF HasRanks
        <2>9. IsSound(c, e)
            BY <1>1, <1>2, <2>5, <2>8 DEF IsSound
        <2> QED
            BY <2>9 DEF e
    <1> QED
        BY <1>3, <1>4

\* And so is what getGlobalStats answers.
LEMMA TotalsAreSound ==
    ASSUME stats \in [Conns -> Counters]
    PROVE  IsBehind(GetGlobalStats)
    <1> DEFINE f == [c \in Conns |-> stats[c].sent]
               g == [c \in Conns |-> stats[c].received]
    <1>1. f \in [Conns -> Nat] /\ g \in [Conns -> Nat]
        BY DEF Counters
    <1>2. GetGlobalStats.sent = TotalOf(f) /\ GetGlobalStats.received = TotalOf(g)
        BY Zenon DEF GetGlobalStats, TotalOf
    <1>3. TotalOf(f) \in Nat /\ TotalOf(g) \in Nat
        BY <1>1, PartsAreFinite
    <1> HIDE DEF f, g
    <1>4. GetGlobalStats = [sent |-> GetGlobalStats.sent, received |-> GetGlobalStats.received]
        BY DEF GetGlobalStats
    <1> QED
        BY <1>2, <1>3, <1>4 DEF Totals, IsBehind

\* No step takes a counter back, so what was behind the server stays behind it.
LEMMA CountersGrow ==
    ASSUME stats \in [Conns -> Counters], stats' \in [Conns -> Counters],
           \A c \in Conns : stats[c].sent <= stats'[c].sent
                            /\ stats[c].received <= stats'[c].received
    PROVE  /\ \A total : IsBehind(total) => IsBehind(total)'
           /\ \A c \in Conns : \A s : IsSound(c, s) => IsSound(c, s)'
    <1>1. ASSUME NEW total, IsBehind(total) PROVE IsBehind(total)'
        <2> DEFINE f == [c \in Conns |-> stats[c].sent]
                   g == [c \in Conns |-> stats[c].received]
                   f2 == [c \in Conns |-> stats'[c].sent]
                   g2 == [c \in Conns |-> stats'[c].received]
        <2>1. /\ f \in [Conns -> Nat] /\ f2 \in [Conns -> Nat]
              /\ g \in [Conns -> Nat] /\ g2 \in [Conns -> Nat]
            BY DEF Counters
        <2>2. /\ GetGlobalStats.sent = TotalOf(f) /\ GetGlobalStats'.sent = TotalOf(f2)
              /\ GetGlobalStats.received = TotalOf(g) /\ GetGlobalStats'.received = TotalOf(g2)
            BY Zenon DEF GetGlobalStats, TotalOf
        <2>3. (\A c \in Conns : f[c] <= f2[c]) /\ (\A c \in Conns : g[c] <= g2[c])
            OBVIOUS
        <2> HIDE DEF f, g, f2, g2
        <2>4. TotalOf(f) <= TotalOf(f2) /\ TotalOf(g) <= TotalOf(g2)
            BY <2>1, <2>3, TotalGrows
        <2>5. /\ TotalOf(f) \in Nat /\ TotalOf(f2) \in Nat
              /\ TotalOf(g) \in Nat /\ TotalOf(g2) \in Nat
            BY <2>1, PartsAreFinite
        <2>6. total \in Totals /\ total.sent \in Nat /\ total.received \in Nat
            BY <1>1 DEF IsBehind, Totals
        <2>7. total.sent <= TotalOf(f) /\ total.received <= TotalOf(g)
            BY <1>1, <2>2 DEF IsBehind
        <2>8. total.sent <= TotalOf(f2) /\ total.received <= TotalOf(g2)
            BY <2>4, <2>5, <2>6, <2>7
        <2> QED
            BY <2>2, <2>6, <2>8 DEF IsBehind
    <1>2. ASSUME NEW c \in Conns, NEW s, IsSound(c, s) PROVE IsSound(c, s)'
        <2>1. /\ s \in Polled /\ s.sent \in Nat /\ s.received \in Nat
              /\ stats[c].sent \in Nat /\ stats[c].received \in Nat
              /\ stats'[c].sent \in Nat /\ stats'[c].received \in Nat
            BY <1>2 DEF IsSound, Polled, Counters
        <2>2. s.sent <= stats'[c].sent /\ s.received <= stats'[c].received /\ HasRanks(s)
            BY <1>2, <2>1 DEF IsSound
        <2> QED
            BY <2>1, <2>2, Zenon DEF IsSound
    <1> QED
        BY <1>1, <1>2

\* No step takes back what was counted.
LEMMA CountersStep ==
    ASSUME FeedType, stats \in [Conns -> Counters], [FeedNext]_allFeedVars
    PROVE  /\ stats' \in [Conns -> Counters]
           /\ \A c \in Conns : stats[c].sent <= stats'[c].sent
                               /\ stats[c].received <= stats'[c].received
    <1>1. \A c \in Conns : /\ stats[c] \in Counters
                           /\ stats[c].sent \in Nat /\ stats[c].received \in Nat
                           /\ stats[c].samples \in Seq(Nat)
        BY DEF Counters
    <1>2. ASSUME NEW b \in Conns, NEW k \in Counters, stats' = [stats EXCEPT ![b] = k],
                 stats[b].sent <= k.sent, stats[b].received <= k.received
          PROVE  /\ stats' \in [Conns -> Counters]
                 /\ \A c \in Conns : stats[c].sent <= stats'[c].sent
                                     /\ stats[c].received <= stats'[c].received
        <2>1. stats' \in [Conns -> Counters]
            BY <1>2
        <2>2. ASSUME NEW c \in Conns
              PROVE  stats[c].sent <= stats'[c].sent /\ stats[c].received <= stats'[c].received
            <3>1. CASE c = b
                BY <1>2, <3>1
            <3>2. CASE c # b
                BY <1>1, <1>2, <3>2
            <3> QED
                BY <3>1, <3>2
        <2> QED
            BY <2>1, <2>2
    <1>3. ASSUME UNCHANGED stats
          PROVE  /\ stats' \in [Conns -> Counters]
                 /\ \A c \in Conns : stats[c].sent <= stats'[c].sent
                                     /\ stats[c].received <= stats'[c].received
        BY <1>1, <1>3
    <1>4. ASSUME NEW b \in Conns, NEW l \in Latencies \cup {0}, OnMessage(b, l)
          PROVE  /\ stats' \in [Conns -> Counters]
                 /\ \A c \in Conns : stats[c].sent <= stats'[c].sent
                                     /\ stats[c].received <= stats'[c].received
        <2> DEFINE list == IF l = 0 THEN stats[b].samples
                           ELSE Latest(Append(stats[b].samples, l), MaxSamples)
                   k == [stats[b] EXCEPT !.received = @ + 1, !.samples = list]
        <2>1. list \in Seq(Nat)
            <3>1. l \in Nat
                BY FeedAssumption
            <3>2. MaxSamples \in Nat \ {0}
                BY FeedAssumption
            <3>3. Append(stats[b].samples, l) \in Seq(Nat)
                BY <1>1, <3>1, AppendProperties
            <3>4. Latest(Append(stats[b].samples, l), MaxSamples) \in Seq(Nat)
                BY <3>2, <3>3, LatestType
            <3> QED
                BY <1>1, <3>4
        <2>2. stats' = [stats EXCEPT ![b] = k]
            BY <1>4 DEF OnMessage
        <2> HIDE DEF list
        <2>3. /\ k \in Counters
              /\ k.sent = stats[b].sent /\ k.received = stats[b].received + 1
            <3> DEFINE n == stats[b].received + 1
            <3>1. n \in Nat /\ stats[b].sent \in Nat
                BY <1>1
            <3>2. k = [stats[b] EXCEPT !.received = n, !.samples = list]
                OBVIOUS
            <3> HIDE DEF n, k
            <3>3. k = [sent |-> stats[b].sent, received |-> n, samples |-> list]
                BY <1>1, <3>2 DEF Counters
            <3>4. k \in Counters
                BY <2>1, <3>1, <3>3 DEF Counters
            <3> QED
                BY <3>3, <3>4 DEF n
        <2> HIDE DEF k
        <2>4. stats[b].sent <= k.sent /\ stats[b].received <= k.received
            BY <1>1, <2>3
        <2> QED
            BY <1>2, <2>2, <2>3, <2>4
    <1>5. ASSUME NEW call \in calls, SendMessage(call)
          PROVE  /\ stats' \in [Conns -> Counters]
                 /\ \A c \in Conns : stats[c].sent <= stats'[c].sent
                                     /\ stats[c].received <= stats'[c].received
        <2> DEFINE b == call.conn
                   k == [stats[b] EXCEPT !.sent = @ + 1]
        <2>1. b \in Conns
            BY DEF FeedType, Call
        <2>2. stats' = [stats EXCEPT ![b] = k]
            BY <1>5 DEF SendMessage
        <2> HIDE DEF b
        <2>3. /\ k \in Counters
              /\ k.sent = stats[b].sent + 1 /\ k.received = stats[b].received
            BY <1>1, <2>1 DEF Counters
        <2> HIDE DEF k
        <2>4. stats[b].sent <= k.sent /\ stats[b].received <= k.received
            BY <1>1, <2>1, <2>3
        <2> QED
            BY <1>2, <2>1, <2>2, <2>3, <2>4
    <1>6. CASE ServerStep
        <2>1. ASSUME NEW c \in Conns, NEW t, NEW l, OnOther(c, t, l) PROVE UNCHANGED stats
            BY <2>1 DEF OnOther, serverVars
        <2>2. ASSUME NEW call \in calls, RefuseMessage(call) PROVE UNCHANGED stats
            BY <2>2 DEF RefuseMessage, serverVars
        <2>3. ASSUME NEW c \in Conns, ClearByConnection(c) PROVE UNCHANGED stats
            BY <2>3 DEF ClearByConnection
        <2> QED
            BY <1>3, <1>4, <1>5, <1>6, <2>1, <2>2, <2>3, Zenon DEF ServerStep
    <1>7. CASE BrowserStep
        <2>1. UNCHANGED stats
            BY <1>7 DEF BrowserStep, serverVars, Receive, ShowReceived, Send, Poll, ClearFeed,
               ClearHistory, ClearMessages, ClearLog, SendAnswered, PollAnswered,
               TotalsAnswered, PollFails, SwitchTab
        <2> QED
            BY <1>3, <2>1
    <1>8. CASE Tick \/ UNCHANGED allFeedVars
        BY <1>3, <1>8 DEF Tick, allFeedVars, serverVars
    <1> QED
        BY <1>6, <1>7, <1>8 DEF FeedNext

\* The step of the invariant of answers.
LEMMA SoundStep == FeedType /\ Sound /\ [FeedNext]_allFeedVars => Sound'
    <1> SUFFICES ASSUME FeedType, Sound, [FeedNext]_allFeedVars PROVE Sound'
        OBVIOUS
    <1>1. /\ stats \in [Conns -> Counters] /\ stats' \in [Conns -> Counters]
          /\ \A c \in Conns : stats[c].sent <= stats'[c].sent
                              /\ stats[c].received <= stats'[c].received
        BY CountersStep DEF Sound
    <1>2. /\ \A total : IsBehind(total) => IsBehind(total)'
          /\ \A c \in Conns : \A s : IsSound(c, s) => IsSound(c, s)'
        BY <1>1, CountersGrow
    <1>3. ASSUME NEW poll, SoundPoll(poll) PROVE SoundPoll(poll)'
        BY <1>2, <1>3, Zenon DEF SoundPoll
    \* So it is enough that what is there after the step was sound before it.
    <1>4. SUFFICES /\ DOMAIN backendStats' = Conns
                   /\ \A poll \in polls' : SoundPoll(poll)
                   /\ \A total \in globalStats' : IsBehind(total)
                   /\ \A c \in Conns : \A s \in backendStats'[c] : IsSound(c, s)
        BY <1>1, <1>2, <1>3, <1>4, Zenon DEF Sound
    <1>5. /\ DOMAIN backendStats = Conns
          /\ \A poll \in polls : SoundPoll(poll)
          /\ \A total \in globalStats : IsBehind(total)
          /\ \A c \in Conns : \A s \in backendStats[c] : IsSound(c, s)
        BY DEF Sound
    <1>6. CASE UNCHANGED <<polls, polledVars>>
        BY <1>5, <1>6 DEF polledVars
    <1>7. CASE Poll
        <2> DEFINE poll == [conn |-> shownConn, total |-> GetGlobalStats,
                            stats |-> IF shownConn = NoConn THEN {}
                                      ELSE {GetEnhancedStats(shownConn)}]
        <2>1. polls' = polls \cup {poll} /\ UNCHANGED polledVars
            BY <1>7 DEF Poll
        <2>2. IsBehind(GetGlobalStats)
            BY <1>1, TotalsAreSound
        <2>3. shownConn \in Conns => IsSound(shownConn, GetEnhancedStats(shownConn))
            BY <1>1, EnhancedIsSound
        <2>4. poll.conn = shownConn /\ poll.total = GetGlobalStats
              /\ \A s \in poll.stats : s = GetEnhancedStats(shownConn)
            OBVIOUS
        <2>5. shownConn \in Conns \cup {NoConn}
            BY DEF FeedType
        <2> HIDE DEF poll
        <2>6. SoundPoll(poll)
            BY <2>2, <2>3, <2>4, <2>5, Zenon DEF SoundPoll
        <2> QED
            BY <1>5, <2>1, <2>6 DEF polledVars
    <1>8. ASSUME NEW poll \in polls, PollAnswered(poll)
          PROVE  /\ DOMAIN backendStats' = Conns
                 /\ \A other \in polls' : SoundPoll(other)
                 /\ \A total \in globalStats' : IsBehind(total)
                 /\ \A c \in Conns : \A s \in backendStats'[c] : IsSound(c, s)
        <2> DEFINE left == [poll EXCEPT !.conn = NoConn, !.stats = {}]
        <2>1. /\ poll.conn \in Conns /\ IsBehind(poll.total)
              /\ \A s \in poll.stats : IsSound(poll.conn, s)
            BY <1>5, <1>8 DEF PollAnswered, SoundPoll
        <2>2. /\ backendStats' = [backendStats EXCEPT ![poll.conn] = poll.stats]
              /\ polls' = (polls \ {poll}) \cup {left} /\ UNCHANGED globalStats
            BY <1>8 DEF PollAnswered
        <2>3. left.conn = NoConn /\ left.total = poll.total
            OBVIOUS
        <2> HIDE DEF left
        <2>4. SoundPoll(left)
            BY <2>1, <2>3, FeedAssumption DEF SoundPoll
        <2>5. \A other \in polls' : SoundPoll(other)
            BY <1>5, <2>2, <2>4
        <2>6. \A c \in Conns : backendStats'[c] = IF c = poll.conn THEN poll.stats
                                                 ELSE backendStats[c]
            BY <1>5, <2>1, <2>2
        <2> QED
            BY <1>5, <2>1, <2>2, <2>5, <2>6
    <1>9. ASSUME NEW poll \in polls, TotalsAnswered(poll)
          PROVE  /\ DOMAIN backendStats' = Conns
                 /\ \A other \in polls' : SoundPoll(other)
                 /\ \A total \in globalStats' : IsBehind(total)
                 /\ \A c \in Conns : \A s \in backendStats'[c] : IsSound(c, s)
        <2>1. IsBehind(poll.total)
            BY <1>5 DEF SoundPoll
        <2> QED
            BY <1>5, <1>9, <2>1 DEF TotalsAnswered
    <1>10. ASSUME NEW poll \in polls, PollFails(poll)
           PROVE  /\ DOMAIN backendStats' = Conns
                  /\ \A other \in polls' : SoundPoll(other)
                  /\ \A total \in globalStats' : IsBehind(total)
                  /\ \A c \in Conns : \A s \in backendStats'[c] : IsSound(c, s)
        BY <1>5, <1>10 DEF PollFails, polledVars
    <1>11. CASE ServerStep
        BY <1>6, <1>11 DEF ServerStep, OnMessage, OnOther, SendMessage, RefuseMessage,
           ClearByConnection
    <1>12. CASE Receive \/ ShowReceived \/ Send \/ ClearFeed \/ ClearHistory \/ ClearLog
        BY <1>6, <1>12 DEF Receive, ShowReceived, Send, ClearFeed, ClearHistory,
           ClearMessages, ClearLog
    <1>13. ASSUME NEW call \in calls, SendAnswered(call) PROVE UNCHANGED <<polls, polledVars>>
        BY <1>13 DEF SendAnswered
    <1>14. ASSUME NEW c \in Conns \cup {NoConn}, SwitchTab(c)
           PROVE  UNCHANGED <<polls, polledVars>>
        BY <1>14 DEF SwitchTab
    <1>15. CASE Tick \/ UNCHANGED allFeedVars
        BY <1>6, <1>15 DEF Tick, allFeedVars
    <1> QED
        BY <1>6, <1>7, <1>8, <1>9, <1>10, <1>11, <1>12, <1>13, <1>14, <1>15, Zenon
           DEF FeedNext, BrowserStep

\* Initially nothing was answered.
LEMMA SoundInit == FeedInit => Sound
    <1> SUFFICES ASSUME FeedInit PROVE Sound
        OBVIOUS
    <1>1. stats \in [Conns -> Counters]
        <2>1. [sent |-> 0, received |-> 0, samples |-> <<>>] \in Counters
            BY DEF Counters
        <2> QED
            BY <2>1 DEF FeedInit
    <1> QED
        BY <1>1 DEF FeedInit, Sound

\* For any number of connections and polls, which may overtake each other, and
\* any samples: the statistics a poll shows have the nearest-rank percentiles and
\* the extremes of their samples, and no total and no counter is ever ahead of
\* the server's (stats.service.ts:35-67).
THEOREM PolledStatisticsAreRanks == FeedSpec => []PolledAreRanks
    <1>1. FeedInit => FeedType /\ Sound
        BY FeedTypeInit, SoundInit
    <1>2. FeedType /\ Sound /\ [FeedNext]_allFeedVars => (FeedType /\ Sound)'
        BY FeedTypeStep, SoundStep
    <1>3. Sound => PolledAreRanks
        BY Zenon DEF Sound, PolledAreRanks, IsBehind, IsSound, HasRanks
    <1> QED
        BY <1>1, <1>2, <1>3, PTL DEF FeedSpec

------------------------------------------------------------------------------
(* The charts: what they count, and of which time.                          *)

Fields == {"sent", "received", "errors"}
Bucket == [sent : Nat, received : Nat, errors : Nat, time : 0..MaxTime]
MarkOf == [field : Fields, time : 0..MaxTime, latency : Nat]

\* How often a field was marked at a time, in a list of marks.
Count(ms, f, t) == Cardinality({i \in DOMAIN ms : ms[i].field = f /\ ms[i].time = t})

\* A count is a number, and 0 when there is nothing to count.
LEMMA CountIs ==
    ASSUME NEW ms \in Seq(MarkOf), NEW f, NEW t
    PROVE  /\ Count(ms, f, t) \in Nat
           /\ Count(ms, f, t) = 0 <=>
                 \A i \in 1..Len(ms) : ~ (ms[i].field = f /\ ms[i].time = t)
    <1> DEFINE I == {i \in DOMAIN ms : ms[i].field = f /\ ms[i].time = t}
    <1>1. DOMAIN ms = 1..Len(ms) /\ Len(ms) \in Nat
        BY LenProperties
    <1>2. I \in SUBSET (1..Len(ms))
        BY <1>1
    <1>3. IsFiniteSet(1..Len(ms))
        BY <1>1, FS_Interval
    <1>4. I = {} <=> \A i \in 1..Len(ms) : ~ (ms[i].field = f /\ ms[i].time = t)
        BY <1>1
    <1> HIDE DEF I
    <1>5. IsFiniteSet(I)
        BY <1>2, <1>3, FS_Subset
    <1>6. Cardinality(I) \in Nat /\ (Cardinality(I) = 0 <=> I = {})
        BY <1>5, FS_CardinalityType, FS_EmptySet
    <1> QED
        BY <1>4, <1>6 DEF Count, I

\* A mark more is one more of its field and time.
LEMMA CountAppend ==
    ASSUME NEW ms \in Seq(MarkOf), NEW m \in MarkOf, NEW f, NEW t
    PROVE  Count(Append(ms, m), f, t) =
               IF m.field = f /\ m.time = t THEN Count(ms, f, t) + 1 ELSE Count(ms, f, t)
    <1> DEFINE r == Append(ms, m)
               I == {i \in DOMAIN ms : ms[i].field = f /\ ms[i].time = t}
               J == {i \in DOMAIN r : r[i].field = f /\ r[i].time = t}
    <1>1. /\ Len(ms) \in Nat
          /\ DOMAIN ms = 1..Len(ms) /\ DOMAIN r = 1..Len(ms) + 1
          /\ r[Len(ms) + 1] = m
          /\ \A i \in 1..Len(ms) : r[i] = ms[i]
        BY AppendProperties, LenProperties
    <1> HIDE DEF r
    <1>2. I \in SUBSET (1..Len(ms)) /\ Len(ms) + 1 \notin I
        BY <1>1
    <1>3. IsFiniteSet(1..Len(ms))
        BY <1>1, FS_Interval
    <1>4. J = IF m.field = f /\ m.time = t THEN I \cup {Len(ms) + 1} ELSE I
        <2>1. \A i : i \in 1..Len(ms) + 1 <=> i \in 1..Len(ms) \/ i = Len(ms) + 1
            BY <1>1
        <2>2. ASSUME NEW i
              PROVE  i \in J <=> i \in I \/ (i = Len(ms) + 1 /\ m.field = f /\ m.time = t)
            BY <1>1, <2>1
        <2> HIDE DEF I, J
        <2> QED
            BY <2>2
    <1> HIDE DEF I, J
    <1>5. IsFiniteSet(I)
        BY <1>2, <1>3, FS_Subset
    <1>6. Cardinality(I \cup {Len(ms) + 1}) = Cardinality(I) + 1
        BY <1>2, <1>5, FS_AddElement
    <1>7. Cardinality(J) = IF m.field = f /\ m.time = t THEN Cardinality(I) + 1
                           ELSE Cardinality(I)
        BY <1>4, <1>6, Zenon
    <1> QED
        BY <1>7 DEF Count, I, J, r

\* A bucket that counts one more, and a new one.
Grown(b, field) == [b EXCEPT ![field] = @ + 1]
Fresh(t, field) ==
    [[sent |-> 0, received |-> 0, errors |-> 0, time |-> t] EXCEPT ![field] = 1]

\* A bucket that counts one more of a field keeps its time and its other
\* fields.
LEMMA GrownIs ==
    ASSUME NEW b \in Bucket, NEW field \in Fields
    PROVE  /\ Grown(b, field) \in Bucket /\ Grown(b, field).time = b.time
           /\ \A f \in Fields : b[f] \in Nat
           /\ \A f \in Fields : Grown(b, field)[f] = IF f = field THEN b[f] + 1 ELSE b[f]
    <1>1. CASE field = "sent"
        BY <1>1 DEF Bucket, Fields, Grown
    <1>2. CASE field = "received"
        BY <1>2 DEF Bucket, Fields, Grown
    <1>3. CASE field = "errors"
        BY <1>3 DEF Bucket, Fields, Grown
    <1> QED
        BY <1>1, <1>2, <1>3 DEF Fields

\* A new bucket counts one.
LEMMA FreshIs ==
    ASSUME NEW t \in 0..MaxTime, NEW field \in Fields
    PROVE  /\ Fresh(t, field) \in Bucket /\ Fresh(t, field).time = t
           /\ \A f \in Fields : Fresh(t, field)[f] = IF f = field THEN 1 ELSE 0
    <1>1. CASE field = "sent"
        BY <1>1 DEF Bucket, Fields, Fresh
    <1>2. CASE field = "received"
        BY <1>2 DEF Bucket, Fields, Fresh
    <1>3. CASE field = "errors"
        BY <1>3 DEF Bucket, Fields, Fresh
    <1> QED
        BY <1>1, <1>2, <1>3 DEF Fields

\* Buckets that count the marks of some fields: they are in order, each counts
\* its time, none has left the window of the last, and there is one for every
\* time of the window at which one of the fields was marked.
Counting(ms, buckets, fields) ==
    /\ \A i, j \in DOMAIN buckets : i < j => buckets[i].time < buckets[j].time
    /\ \A i \in DOMAIN buckets : \A f \in fields :
          buckets[i][f] = Count(ms, f, buckets[i].time)
    /\ \A i \in DOMAIN buckets : buckets[i].time > buckets[Len(buckets)].time - Span
                                 /\ buckets[i].time <= now
    /\ \A k \in DOMAIN ms : ms[k].field \in fields =>
          /\ buckets # <<>>
          /\ ms[k].time <= buckets[Len(buckets)].time
          /\ ms[k].time > buckets[Len(buckets)].time - Span =>
                \E i \in DOMAIN buckets : buckets[i].time = ms[k].time

\* The buckets that are left when those that left the window of now go.
LEMMA KeptBuckets ==
    ASSUME now \in 0..MaxTime, NEW ms \in Seq(MarkOf), NEW buckets \in Seq(Bucket),
           NEW fields \in SUBSET Fields, Counting(ms, buckets, fields)
    PROVE  \E kept \in Seq(Bucket) :
              /\ kept = Selected(buckets, {i \in DOMAIN buckets : buckets[i].time > now - Span})
              /\ \A i, j \in 1..Len(kept) : i < j => kept[i].time < kept[j].time
              /\ \A i \in 1..Len(kept) : /\ kept[i].time > now - Span /\ kept[i].time <= now
                                         /\ \A f \in fields : kept[i][f] = Count(ms, f, kept[i].time)
              /\ \A k \in 1..Len(ms) : ms[k].field \in fields =>
                    /\ ms[k].time <= now
                    /\ ms[k].time > now - Span =>
                          \E i \in 1..Len(kept) : kept[i].time = ms[k].time
    <1> DEFINE A == {b \in Bucket : b.time > now - Span}
               I == {i \in DOMAIN buckets : buckets[i].time > now - Span}
               J == {i \in DOMAIN buckets : buckets[i] \in A}
               kept == Picked(buckets, A)
    <1>1. /\ DOMAIN buckets = 1..Len(buckets) /\ Len(buckets) \in Nat
          /\ \A i \in 1..Len(buckets) : buckets[i] \in Bucket
          /\ DOMAIN ms = 1..Len(ms)
          /\ \A k \in 1..Len(ms) : ms[k] \in MarkOf
        BY LenProperties, ElementOfSeq
    <1>2. I = J
        BY <1>1
    <1>3. kept = Selected(buckets, I)
        BY <1>2 DEF Picked
    <1>4. kept \in Seq(Bucket)
        BY PickedSeq
    <1>5. ASSUME NEW i \in 1..Len(kept)
          PROVE  /\ kept[i] \in A
                 /\ \E k \in 1..Len(buckets) : kept[i] = buckets[k]
        <2> HIDE DEF A
        <2>1. /\ kept[i] \in Bucket \cap A
              /\ \E k \in 1..Len(buckets) : kept[i] = buckets[k]
            BY PickedFrom
        <2> QED
            BY <2>1
    <1>6. ASSUME NEW i \in 1..Len(kept), NEW j \in 1..Len(kept), i < j
          PROVE  \E k, l \in 1..Len(buckets) : k < l /\ kept[i] = buckets[k] /\ kept[j] = buckets[l]
        <2>1. kept = Picked(buckets, A)
            OBVIOUS
        <2> HIDE DEF A, kept
        <2>2. i \in 1..Len(Picked(buckets, A)) /\ j \in 1..Len(Picked(buckets, A)) /\ i < j
            BY <1>6, <2>1, Zenon
        <2>3. \E k, l \in 1..Len(buckets) :
                 k < l /\ Picked(buckets, A)[i] = buckets[k] /\ Picked(buckets, A)[j] = buckets[l]
            BY <2>2, PickedOrder, SMTT(30)
        <2> QED
            BY <2>1, <2>3, Zenon
    <1>7. ASSUME NEW k \in 1..Len(buckets), buckets[k].time > now - Span
          PROVE  \E i \in 1..Len(kept) : kept[i] = buckets[k]
        <2>1. buckets[k] \in A
            BY <1>1, <1>7
        <2> HIDE DEF A
        <2> QED
            BY <2>1, PickedAll
    <1>8. /\ \A i, j \in 1..Len(buckets) : i < j => buckets[i].time < buckets[j].time
          /\ \A i \in 1..Len(buckets) : \A f \in fields :
                buckets[i][f] = Count(ms, f, buckets[i].time)
          /\ \A i \in 1..Len(buckets) : buckets[i].time <= now
        BY <1>1 DEF Counting
    <1>9. ASSUME NEW i \in 1..Len(kept), NEW j \in 1..Len(kept), i < j
          PROVE  kept[i].time < kept[j].time
        BY <1>6, <1>8, <1>9
    <1>10. ASSUME NEW i \in 1..Len(kept)
           PROVE  /\ kept[i].time > now - Span /\ kept[i].time <= now
                  /\ \A f \in fields : kept[i][f] = Count(ms, f, kept[i].time)
        BY <1>5, <1>8
    <1>11. ASSUME NEW k \in 1..Len(ms), ms[k].field \in fields
           PROVE  /\ ms[k].time <= now
                  /\ ms[k].time > now - Span => \E i \in 1..Len(kept) : kept[i].time = ms[k].time
        <2> DEFINE end == buckets[Len(buckets)].time
                   t == ms[k].time
        <2>1. /\ buckets # <<>> /\ t <= end
              /\ t > end - Span => \E i \in 1..Len(buckets) : buckets[i].time = t
            BY <1>1, <1>11 DEF Counting
        <2>2. Len(buckets) \in 1..Len(buckets)
            BY <1>1, <2>1, EmptySeq
        <2>3. end <= now /\ end \in Nat /\ t \in Nat /\ now \in Nat /\ Span \in Nat
            <3>1. buckets[Len(buckets)] \in Bucket /\ ms[k] \in MarkOf
                BY <1>1, <2>2
            <3>5. (\A b \in Bucket : b.time \in Nat) /\ (\A m \in MarkOf : m.time \in Nat)
                BY DEF Bucket, MarkOf
            <3>2. end \in Nat /\ t \in Nat
                BY <3>1, <3>5
            <3>3. end <= now
                BY <1>8, <2>2
            <3>4. now \in Nat /\ Span \in Nat
                BY FeedAssumption
            <3> QED
                BY <3>2, <3>3, <3>4
        <2> HIDE DEF end, t
        <2>4. t <= now
            BY <2>1, <2>3
        <2>5. ASSUME t > now - Span PROVE \E i \in 1..Len(kept) : kept[i].time = t
            <3>1. t > end - Span
                BY <2>3, <2>5
            <3>2. PICK n \in 1..Len(buckets) : buckets[n].time = t
                BY <2>1, <3>1
            <3>3. \E i \in 1..Len(kept) : kept[i] = buckets[n]
                BY <1>7, <2>5, <3>2
            <3> QED
                BY <3>2, <3>3
        <2> QED
            BY <2>4, <2>5 DEF t
    <1> HIDE DEF kept, I
    <1>12. kept = Selected(buckets, {i \in DOMAIN buckets : buckets[i].time > now - Span})
        BY <1>3 DEF I
    <1> QED
        BY <1>4, <1>9, <1>10, <1>11, <1>12

\* Bump keeps buckets counting: those that left the window go, and the mark
\* counts in the bucket of now, which is the last.
LEMMA BumpCounts ==
    ASSUME now \in 0..MaxTime, NEW ms \in Seq(MarkOf), NEW buckets \in Seq(Bucket),
           NEW fields \in SUBSET Fields, Counting(ms, buckets, fields),
           NEW m \in MarkOf, m.field \in fields, m.time = now
    PROVE  /\ Bump(buckets, m.field) \in Seq(Bucket)
           /\ Counting(Append(ms, m), Bump(buckets, m.field), fields)
    <1> DEFINE field == m.field
               more == Append(ms, m)
               then == Bump(buckets, field)
    <1>1. PICK kept \in Seq(Bucket) :
              /\ kept = Selected(buckets, {i \in DOMAIN buckets : buckets[i].time > now - Span})
              /\ \A i, j \in 1..Len(kept) : i < j => kept[i].time < kept[j].time
              /\ \A i \in 1..Len(kept) : /\ kept[i].time > now - Span /\ kept[i].time <= now
                                         /\ \A f \in fields : kept[i][f] = Count(ms, f, kept[i].time)
              /\ \A k \in 1..Len(ms) : ms[k].field \in fields =>
                    /\ ms[k].time <= now
                    /\ ms[k].time > now - Span =>
                          \E i \in 1..Len(kept) : kept[i].time = ms[k].time
        BY KeptBuckets
    <1> DEFINE n == Len(kept)
               last == kept[n]
               fresh == Fresh(now, field)
               grown == Grown(last, field)
    <1>2. then = IF kept # <<>> /\ last.time = now THEN [kept EXCEPT ![n] = grown]
                 ELSE Append(kept, fresh)
        BY <1>1 DEF Bump, Grown, Fresh
    <1>3. /\ n = Len(kept) /\ n \in Nat /\ DOMAIN kept = 1..n /\ \A i \in 1..n : kept[i] \in Bucket
          /\ Len(ms) \in Nat /\ DOMAIN ms = 1..Len(ms) /\ \A k \in 1..Len(ms) : ms[k] \in MarkOf
          /\ now \in Nat /\ Span \in Nat /\ Span > 0
        BY LenProperties, ElementOfSeq, FeedAssumption
    <1>4. \A i \in 1..n : kept[i].time \in Nat
        BY <1>3 DEF Bucket
    <1>5. /\ more \in Seq(MarkOf) /\ Len(more) = Len(ms) + 1 /\ DOMAIN more = 1..Len(ms) + 1
          /\ more[Len(ms) + 1] = m /\ \A k \in 1..Len(ms) : more[k] = ms[k]
        BY AppendProperties, LenProperties
    <1>6. /\ field \in fields /\ field \in Fields
          /\ \A f, t : Count(more, f, t) = IF field = f /\ now = t THEN Count(ms, f, t) + 1
                                           ELSE Count(ms, f, t)
        BY CountAppend
    <1> HIDE DEF field, more, then, n
    \* What the buckets must be is said once, for both ways to count the mark.
    <1>7. ASSUME NEW all \in Seq(Bucket), NEW l \in Nat \ {0}, Len(all) = l,
                 all[l].time = now,
                 \A i \in 1..n : i # l => i \in 1..l /\ all[i] = kept[i],
                 l \in {n, n + 1}, n = l => kept[n].time = now,
                 \A i \in 1..n : i # l => kept[i].time < now,
                 \A f \in fields : all[l][f] = Count(more, f, now)
          PROVE  Counting(more, all, fields)
        <2>1. /\ DOMAIN all = 1..l /\ l \in 1..l
              /\ \A i \in 1..l : i = l \/ (i \in 1..n /\ i < l)
            BY <1>3, <1>7, LenProperties
        <2>2. ASSUME NEW i \in 1..l, i # l
              PROVE  i \in 1..n /\ i < l /\ all[i] = kept[i] /\ all[i].time < now
            BY <1>7, <2>1, <2>2
        <2>3. ASSUME NEW i \in 1..l, NEW j \in 1..l, i < j PROVE all[i].time < all[j].time
            <3>1. i # l
                BY <2>3
            <3>2. CASE j = l
                BY <1>7, <2>2, <3>1, <3>2
            <3>3. CASE j # l
                BY <1>1, <2>2, <2>3, <3>1, <3>3 DEF n
            <3> QED
                BY <3>2, <3>3
        <2>4. ASSUME NEW i \in 1..l, NEW f \in fields
              PROVE  all[i][f] = Count(more, f, all[i].time)
            <3>1. CASE i = l
                BY <1>7, <3>1
            <3>2. CASE i # l
                <4>1. all[i] = kept[i] /\ i \in 1..n /\ kept[i].time < now
                    BY <2>2, <3>2
                <4>2. kept[i].time \in Nat /\ kept[i].time # now
                    BY <1>3, <1>4, <4>1
                <4>3. kept[i][f] = Count(ms, f, kept[i].time)
                    BY <1>1, <4>1 DEF n
                <4>4. Count(more, f, kept[i].time) = Count(ms, f, kept[i].time)
                    BY <1>6, <4>2
                <4> QED
                    BY <4>1, <4>3, <4>4, Zenon
            <3> QED
                BY <3>1, <3>2
        <2>5. ASSUME NEW i \in 1..l PROVE all[i].time > now - Span /\ all[i].time <= now
            <3>1. CASE i = l
                BY <1>3, <1>7, <3>1
            <3>2. CASE i # l
                BY <1>1, <2>2, <3>2 DEF n
            <3> QED
                BY <3>1, <3>2
        <2>6. ASSUME NEW k \in 1..Len(more), more[k].field \in fields
              PROVE  /\ more[k].time <= now
                     /\ more[k].time > now - Span => \E i \in 1..l : all[i].time = more[k].time
            <3>1. CASE k = Len(ms) + 1
                <4>1. more[k].time = now
                    BY <1>5, <3>1
                <4> QED
                    BY <1>3, <1>7, <2>1, <4>1
            <3>2. CASE k \in 1..Len(ms)
                <4>1. more[k] = ms[k]
                    BY <1>5, <3>2
                <4>2. /\ ms[k].time <= now
                      /\ ms[k].time > now - Span => \E i \in 1..n : kept[i].time = ms[k].time
                    BY <1>1, <2>6, <3>2, <4>1 DEF n
                <4>3. ASSUME NEW i \in 1..n PROVE \E j \in 1..l : all[j].time = kept[i].time
                    <5>1. CASE i = l
                        <6>1. n = l
                            BY <1>3, <1>7, <5>1
                        <6>2. kept[i].time = now /\ all[l].time = now
                            BY <1>7, <5>1, <6>1
                        <6> QED
                            BY <2>1, <6>2, Zenon
                    <5>2. CASE i # l
                        <6>1. i \in 1..l /\ all[i] = kept[i]
                            BY <1>7, <5>2, Zenon
                        <6> QED
                            BY <6>1, Zenon
                    <5> QED
                        BY <5>1, <5>2
                <4> QED
                    BY <4>1, <4>2, <4>3
            <3> QED
                BY <1>3, <1>5, <3>1, <3>2
        <2>7. all # <<>>
            BY <1>7, EmptySeq
        <2>8. DOMAIN more = 1..Len(more)
            BY <1>5, LenProperties
        <2> QED
            BY <1>7, <2>1, <2>3, <2>4, <2>5, <2>6, <2>7, <2>8 DEF Counting
    <1>8. CASE kept # <<>> /\ last.time = now
        <2>1. n \in 1..n
            BY <1>3, <1>8, EmptySeq DEF n
        <2>2. /\ grown \in Bucket /\ grown.time = now
              /\ \A f \in fields : grown[f] = IF f = field THEN last[f] + 1 ELSE last[f]
            <3>1. last \in Bucket
                BY <1>3, <2>1
            <3> HIDE DEF last
            <3> QED
                BY <1>6, <1>8, <3>1, GrownIs
        <2>3. \A f \in fields : last[f] = Count(ms, f, now)
            BY <1>1, <1>8, <2>1 DEF n
        <2>4. \A f \in fields : grown[f] = Count(more, f, now)
            BY <1>6, <2>2, <2>3
        <2> HIDE DEF grown
        <2>5. then = [kept EXCEPT ![n] = grown]
            BY <1>2, <1>8
        <2>6. /\ then \in Seq(Bucket) /\ Len(then) = n
              /\ then[n] = grown /\ \A i \in 1..n : i # n => then[i] = kept[i]
            <3>1. n \in 1..Len(kept) /\ grown \in Bucket
                BY <1>3, <2>1, <2>2
            <3>2. /\ [kept EXCEPT ![n] = grown] \in Seq(Bucket)
                  /\ Len([kept EXCEPT ![n] = grown]) = Len(kept)
                  /\ \A i \in 1..Len(kept) :
                        [kept EXCEPT ![n] = grown][i] = IF i = n THEN grown ELSE kept[i]
                BY <3>1, ExceptSeq
            <3> QED
                BY <1>3, <2>1, <2>5, <3>2
        <2>7. ASSUME NEW i \in 1..n, i # n PROVE i \in 1..n /\ kept[i].time < now
            <3>1. i < n
                BY <1>3, <2>7
            <3>2. kept[i].time < kept[n].time
                BY <1>1, <1>3, <2>1, <3>1
            <3> QED
                BY <1>8, <3>2
        <2>8. Counting(more, then, fields)
            <3>1. /\ then \in Seq(Bucket) /\ n \in Nat \ {0} /\ Len(then) = n
                  /\ then[n].time = now /\ kept[n].time = now /\ n \in {n, n + 1}
                BY <1>3, <1>8, <2>1, <2>2, <2>6
            <3>2. \A f \in fields : then[n][f] = Count(more, f, now)
                BY <2>4, <2>6
            <3>3. \A i \in 1..n : i # n => i \in 1..n /\ then[i] = kept[i] /\ kept[i].time < now
                BY <2>6, <2>7
            <3> QED
                BY <1>7, <3>1, <3>2, <3>3
        <2> QED
            BY <2>6, <2>8 DEF then, more, field
    <1>9. CASE ~ (kept # <<>> /\ last.time = now)
        <2>1. then = Append(kept, fresh)
            BY <1>2, <1>9
        <2>2. /\ fresh \in Bucket /\ fresh.time = now
              /\ \A f \in fields : fresh[f] = IF f = field THEN 1 ELSE 0
            BY <1>6, FreshIs
        <2> HIDE DEF fresh
        <2>3. /\ then \in Seq(Bucket) /\ Len(then) = n + 1
              /\ then[n + 1] = fresh /\ \A i \in 1..n : then[i] = kept[i]
            BY <2>1, <2>2, AppendProperties DEF n
        <2>4. ASSUME NEW i \in 1..n PROVE kept[i].time < now
            <3>1. kept # <<>> /\ n \in 1..n
                BY <1>3, EmptySeq DEF n
            <3>2. last.time # now /\ last.time \in Nat /\ last.time <= now
                BY <1>1, <1>4, <1>9, <3>1 DEF n
            <3>3. CASE i = n
                BY <1>3, <3>2, <3>3
            <3>4. CASE i # n
                <4>1. i < n
                    BY <1>3, <3>4
                <4>2. kept[i].time < kept[n].time
                    BY <1>1, <3>1, <4>1 DEF n
                <4> QED
                    BY <1>3, <1>4, <3>1, <3>2, <4>2
            <3> QED
                BY <3>3, <3>4
        <2>5. ASSUME NEW f \in fields PROVE Count(ms, f, now) = 0
            <3>1. ASSUME NEW k \in 1..Len(ms), ms[k].field = f, ms[k].time = now PROVE FALSE
                <4>1. now > now - Span
                    BY <1>3
                <4>2. \E i \in 1..n : kept[i].time = now
                    BY <1>1, <3>1, <4>1 DEF n
                <4> QED
                    BY <1>3, <1>4, <2>4, <4>2
            <3> QED
                BY <3>1, CountIs
        <2>6. \A f \in fields : fresh[f] = Count(more, f, now)
            BY <1>6, <2>2, <2>5
        <2>7. /\ n + 1 \in Nat \ {0} /\ n # n + 1
              /\ \A i \in 1..n : i \in 1..n + 1
            BY <1>3
        <2>8. Counting(more, then, fields)
            BY <1>7, <2>2, <2>3, <2>4, <2>6, <2>7
        <2> QED
            BY <2>3, <2>8 DEF then, more, field
    <1> QED
        BY <1>8, <1>9

\* A mark of another field changes nothing.
LEMMA CountsOther ==
    ASSUME NEW ms \in Seq(MarkOf), NEW buckets \in Seq(Bucket), NEW fields,
           Counting(ms, buckets, fields), NEW m \in MarkOf, m.field \notin fields
    PROVE  Counting(Append(ms, m), buckets, fields)
    <1> DEFINE more == Append(ms, m)
    <1>1. /\ Len(ms) \in Nat /\ DOMAIN ms = 1..Len(ms) /\ DOMAIN more = 1..Len(ms) + 1
          /\ more[Len(ms) + 1] = m /\ \A k \in 1..Len(ms) : more[k] = ms[k]
        BY AppendProperties, LenProperties
    <1>2. \A f \in fields : \A t : Count(more, f, t) = Count(ms, f, t)
        BY CountAppend
    <1> HIDE DEF more
    <1>3. ASSUME NEW k \in DOMAIN more, more[k].field \in fields
          PROVE  k \in DOMAIN ms /\ more[k] = ms[k]
        <2>1. k # Len(ms) + 1
            BY <1>1, <1>3
        <2>2. k \in 1..Len(ms)
            BY <1>1, <2>1
        <2> QED
            BY <1>1, <2>2
    <1>4. \A i \in DOMAIN buckets : \A f \in fields :
              buckets[i][f] = Count(more, f, buckets[i].time)
        <2>1. \A i \in DOMAIN buckets : \A f \in fields :
                  buckets[i][f] = Count(ms, f, buckets[i].time)
            BY DEF Counting
        <2> QED
            BY <1>2, <2>1, Zenon
    <1> QED
        BY <1>3, <1>4 DEF Counting, more

Timed == {m \in MarkOf : m.latency # 0}
Delays(ms) == [i \in DOMAIN Picked(ms, Timed) |-> Picked(ms, Timed)[i].latency]

\* The latencies of the marks that have one.
LEMMA DelaysType ==
    ASSUME NEW ms \in Seq(MarkOf)
    PROVE  /\ Delays(ms) \in Seq(Nat) /\ Len(Delays(ms)) = Len(Picked(ms, Timed))
           /\ \A i \in 1..Len(Picked(ms, Timed)) : Delays(ms)[i] = Picked(ms, Timed)[i].latency
    <1> DEFINE p == Picked(ms, Timed)
    <1>1. p \in Seq(MarkOf)
        BY PickedSeq
    <1>2. DOMAIN p = 1..Len(p) /\ Len(p) \in Nat /\ \A i \in 1..Len(p) : p[i] \in MarkOf
        BY <1>1, LenProperties, ElementOfSeq
    <1>3. Delays(ms) = [i \in 1..Len(p) |-> p[i].latency]
        BY <1>2 DEF Delays
    <1> HIDE DEF p
    <1>4. \A i \in 1..Len(p) : p[i].latency \in Nat
        BY <1>2 DEF MarkOf
    <1>5. /\ Delays(ms) \in Seq(Nat) /\ Len(Delays(ms)) = Len(p)
          /\ \A i \in 1..Len(p) : Delays(ms)[i] = p[i].latency
        BY <1>2, <1>3, <1>4
    <1> QED
        BY <1>5 DEF p

\* A mark more is a latency more if it has one.
LEMMA DelaysAppend ==
    ASSUME NEW ms \in Seq(MarkOf), NEW m \in MarkOf
    PROVE  Delays(Append(ms, m)) = IF m.latency # 0 THEN Append(Delays(ms), m.latency)
                                   ELSE Delays(ms)
    <1> DEFINE p == Picked(ms, Timed)
               r == Append(ms, m)
               q == Picked(r, Timed)
               s == Delays(r)
               d == Delays(ms)
               t == Append(d, m.latency)
    <1>1. r \in Seq(MarkOf) /\ p \in Seq(MarkOf)
        BY AppendProperties, PickedSeq
    <1>2. q = IF m \in Timed THEN Append(p, m) ELSE p
        BY PickedAppend
    <1>3. /\ d \in Seq(Nat) /\ Len(d) = Len(p) /\ Len(p) \in Nat
          /\ \A i \in 1..Len(p) : d[i] = p[i].latency
        BY <1>1, DelaysType, LenProperties
    <1> HIDE DEF r
    <1>4. /\ s \in Seq(Nat) /\ Len(s) = Len(q)
          /\ \A i \in 1..Len(q) : s[i] = q[i].latency
        BY <1>1, DelaysType
    <1>5. CASE m.latency = 0
        <2>1. q = p
            BY <1>2, <1>5 DEF Timed
        <2> HIDE DEF q, p, s, d
        <2>2. \A i \in 1..Len(s) : s[i] = d[i]
            BY <1>3, <1>4, <2>1
        <2>3. s = d
            BY <1>3, <1>4, <2>1, <2>2, SeqEqual
        <2> QED
            BY <1>5, <2>3 DEF s, d, r
    <1>6. CASE m.latency # 0
        <2>1. q = Append(p, m)
            BY <1>2, <1>6 DEF Timed
        <2>2. m.latency \in Nat
            BY DEF MarkOf
        <2> HIDE DEF q, p, s, d
        <2>3. /\ Len(q) = Len(p) + 1 /\ q[Len(p) + 1] = m
              /\ \A i \in 1..Len(p) : q[i] = p[i]
            BY <1>1, <2>1, AppendProperties
        <2>4. /\ t \in Seq(Nat) /\ Len(t) = Len(d) + 1 /\ t[Len(d) + 1] = m.latency
              /\ \A i \in 1..Len(d) : t[i] = d[i]
            BY <1>3, <2>2, AppendProperties
        <2> HIDE DEF t
        <2>5. ASSUME NEW i \in 1..Len(s) PROVE s[i] = t[i]
            <3>1. i \in 1..Len(p) + 1 /\ s[i] = q[i].latency
                BY <1>4, <2>3
            <3>2. CASE i \in 1..Len(p)
                <4>1. q[i] = p[i] /\ s[i] = p[i].latency
                    BY <2>3, <3>1, <3>2
                <4>2. t[i] = d[i] /\ d[i] = p[i].latency
                    BY <1>3, <2>4, <3>2
                <4> QED
                    BY <4>1, <4>2
            <3>3. CASE i = Len(p) + 1
                <4>1. q[i] = m /\ s[i] = m.latency
                    BY <2>3, <3>1, <3>3
                <4>2. t[i] = m.latency
                    BY <1>3, <2>4, <3>3
                <4> QED
                    BY <4>1, <4>2
            <3>4. i \in 1..Len(p) \/ i = Len(p) + 1
                BY <1>3, <3>1
            <3> QED
                BY <3>2, <3>3, <3>4
        <2>6. s = t
            BY <1>3, <1>4, <2>3, <2>4, <2>5, SeqEqual
        <2> QED
            BY <1>6, <2>6 DEF s, t, d, r
    <1> QED
        BY <1>5, <1>6

\* The latest of the latest and a new one are the latest of all and the new one.
LEMMA LatestTwice ==
    ASSUME NEW list \in Seq(Nat), NEW e \in Nat, NEW n \in Nat \ {0}
    PROVE  Latest(Append(Latest(list, n), e), n) = Latest(Append(list, e), n)
    <1> DEFINE k == Latest(list, n)
               a == Append(list, e)
               b == Append(k, e)
               s == Latest(b, n)
               t == Latest(a, n)
               L == Len(list)
               cut == IF L > n THEN L - n ELSE 0
    <1>1. L \in Nat /\ k \in Seq(Nat) /\ cut \in Nat
        BY LatestType, LenProperties
    <1>2. Len(k) = L - cut /\ \A i \in 1..L - cut : k[i] = list[i + cut]
        <2>1. CASE L > n
            <3>1. k = SubSeq(list, L - n + 1, L) /\ cut = L - n
                BY <2>1 DEF Latest
            <3>2. L - n + 1 \in 1..L
                BY <1>1, <2>1
            <3> HIDE DEF k, cut
            <3> QED
                BY <1>1, <3>1, <3>2
        <2>2. CASE ~ L > n
            <3>1. k = SubSeq(list, 1, L) /\ cut = 0
                BY <2>2 DEF Latest
            <3> HIDE DEF k, cut
            <3> QED
                BY <1>1, <3>1
        <2> QED
            BY <2>1, <2>2
    <1>3. /\ a \in Seq(Nat) /\ Len(a) = L + 1 /\ a[L + 1] = e
          /\ \A i \in 1..L : a[i] = list[i]
        BY <1>1, AppendProperties
    <1> HIDE DEF k
    <1>4. /\ b \in Seq(Nat) /\ Len(b) = Len(k) + 1 /\ b[Len(k) + 1] = e
          /\ \A i \in 1..Len(k) : b[i] = k[i]
        BY <1>1, AppendProperties
    <1> HIDE DEF a, b, L
    <1>5. \A i \in 1..Len(b) : b[i] = a[i + cut]
        <2> SUFFICES ASSUME NEW i \in 1..Len(b) PROVE b[i] = a[i + cut]
            OBVIOUS
        <2>1. CASE i \in 1..Len(k)
            <3>1. i \in 1..L - cut /\ i + cut \in 1..L
                BY <1>1, <1>2, <2>1
            <3>2. b[i] = list[i + cut]
                BY <1>2, <1>4, <2>1, <3>1
            <3> DEFINE j == i + cut
            <3>3. j \in 1..L /\ b[i] = list[j]
                BY <3>1, <3>2
            <3> HIDE DEF j, cut
            <3>4. a[j] = list[j]
                BY <1>3, <3>3
            <3> QED
                BY <3>3, <3>4 DEF j
        <2>2. CASE i = Len(k) + 1
            <3>1. i + cut = L + 1
                BY <1>1, <1>2, <2>2
            <3> QED
                BY <1>3, <1>4, <2>2, <3>1
        <2> QED
            BY <1>1, <1>2, <1>4, <2>1, <2>2
    <1>6. CASE L > n
        <2>1. cut = L - n /\ Len(b) = n + 1 /\ Len(a) > n
            BY <1>1, <1>2, <1>3, <1>4, <1>6
        <2> HIDE DEF cut
        <2>2. /\ s \in Seq(Nat) /\ Len(s) = n
              /\ \A i \in 1..n : s[i] = b[i + 1]
            BY <1>4, <2>1, SMTT(30) DEF Latest
        <2>3. /\ t \in Seq(Nat) /\ Len(t) = n
              /\ \A i \in 1..n : t[i] = a[i + (L + 1 - n)]
            BY <1>1, <1>3, <2>1 DEF Latest
        <2> HIDE DEF s, t
        <2>4. ASSUME NEW i \in 1..Len(s) PROVE s[i] = t[i]
            <3> DEFINE j == i + 1
            <3>1. j \in 1..Len(b) /\ j + cut = i + (L + 1 - n) /\ i \in 1..n
                BY <1>1, <2>1, <2>2
            <3>2. s[i] = b[j]
                BY <2>2, <3>1
            <3> HIDE DEF j
            <3>3. b[j] = a[j + cut]
                BY <1>5, <3>1
            <3> QED
                BY <2>3, <3>1, <3>2, <3>3
        <2>5. s = t
            BY <2>2, <2>3, <2>4, SeqEqual
        <2> QED
            BY <2>5 DEF s, t, a, b, k
    <1>7. CASE ~ L > n
        <2>1. cut = 0
            BY <1>7
        <2>2. Len(b) = Len(a)
            BY <1>1, <1>2, <1>3, <1>4, <2>1
        <2>3. \A i \in 1..Len(b) : b[i] = a[i]
            <3> SUFFICES ASSUME NEW i \in 1..Len(b) PROVE b[i] = a[i]
                OBVIOUS
            <3>1. b[i] = a[i + cut] /\ i + cut = i
                BY <1>5, <2>1
            <3> QED
                BY <3>1
        <2>4. b = a
            BY <1>3, <1>4, <2>2, <2>3, SeqEqual
        <2> QED
            BY <2>4 DEF a, b, k
    <1> QED
        BY <1>6, <1>7

Charts == [messages : Seq(Bucket), latency : Seq(Nat), errors : Seq(Bucket)]

\* The charts of a connection count what they were told.
IsTold(ms, s) ==
    /\ Counting(ms, s.messages, {"sent", "received"})
    /\ Counting(ms, s.errors, {"errors"})
    /\ s.latency = Latest(Delays(ms), MaxPoints)

ChartsTold ==
    /\ marks \in [Conns -> Seq(MarkOf)]
    /\ timeSeries \in [Conns -> Charts]
    /\ \A c \in Conns : IsTold(marks[c], timeSeries[c])

\* The charts of the connection of an event are told of it; time stands still
\* and the charts of the others stay.
LEMMA ChartTold ==
    ASSUME ChartsTold, now' = now, NEW c \in Conns, NEW m \in MarkOf, NEW s \in Charts,
           marks' = [marks EXCEPT ![c] = Append(@, m)],
           timeSeries' = [timeSeries EXCEPT ![c] = s],
           IsTold(Append(marks[c], m), s)
    PROVE  ChartsTold'
    <1>1. marks[c] \in Seq(MarkOf) /\ Append(marks[c], m) \in Seq(MarkOf)
        BY AppendProperties DEF ChartsTold
    <1>2. marks' \in [Conns -> Seq(MarkOf)] /\ timeSeries' \in [Conns -> Charts]
        BY <1>1 DEF ChartsTold
    <1>3. ASSUME NEW x \in Conns PROVE IsTold(marks'[x], timeSeries'[x])
        <2>1. CASE x = c
            <3>1. marks'[x] = Append(marks[c], m) /\ timeSeries'[x] = s
                BY <2>1 DEF ChartsTold
            <3> QED
                BY <3>1
        <2>2. CASE x # c
            <3>1. marks'[x] = marks[x] /\ timeSeries'[x] = timeSeries[x]
                BY <2>2 DEF ChartsTold
            <3> QED
                BY <3>1 DEF ChartsTold
        <2> QED
            BY <2>1, <2>2
    <1>4. ASSUME NEW x \in Conns PROVE IsTold(marks[x], timeSeries[x])'
        BY <1>3 DEF IsTold, Counting
    <1> QED
        BY <1>2, <1>4 DEF ChartsTold

\* recordMessage keeps the charts true to the marks,
LEMMA MessageTold ==
    ASSUME FeedType, ChartsTold, now' = now, NEW c \in Conns,
           NEW field \in {"sent", "received"}, NEW l \in Nat, RecordMessage(c, field, l)
    PROVE  ChartsTold'
    <1> DEFINE m == [field |-> field, time |-> now, latency |-> l]
               s == timeSeries[c]
               ms == marks[c]
               delays == IF l = 0 THEN s.latency ELSE Latest(Append(s.latency, l), MaxPoints)
               bumped == Bump(s.messages, field)
               t == [s EXCEPT !.messages = bumped, !.latency = delays]
               F == {"sent", "received"}
    <1>1. /\ ms \in Seq(MarkOf) /\ s \in Charts /\ IsTold(ms, s)
          /\ s.messages \in Seq(Bucket) /\ s.errors \in Seq(Bucket) /\ s.latency \in Seq(Nat)
        BY DEF ChartsTold, Charts
    <1>2. now \in 0..MaxTime
        BY DEF FeedType
    <1>3. /\ m \in MarkOf /\ m.field = field /\ m.time = now /\ m.latency = l
          /\ F \in SUBSET Fields
        BY <1>2 DEF MarkOf, Fields
    <1>4. marks' = [marks EXCEPT ![c] = Append(@, m)]
        BY DEF RecordMessage, Mark
    <1>5. timeSeries' = [timeSeries EXCEPT ![c] = t]
        BY DEF RecordMessage
    <1> HIDE DEF m, s, ms
    <1>6. bumped \in Seq(Bucket) /\ Counting(Append(ms, m), bumped, F)
        <2>1. Counting(ms, s.messages, F)
            BY <1>1 DEF IsTold
        <2>2. Bump(s.messages, m.field) \in Seq(Bucket)
              /\ Counting(Append(ms, m), Bump(s.messages, m.field), F)
            <3> DEFINE b == s.messages
            <3>1. b \in Seq(Bucket) /\ Counting(ms, b, F) /\ m.field \in F
                BY <1>1, <1>3, <2>1
            <3> HIDE DEF b, F
            <3>2. Bump(b, m.field) \in Seq(Bucket) /\ Counting(Append(ms, m), Bump(b, m.field), F)
                BY <1>1, <1>2, <1>3, <3>1, BumpCounts
            <3> QED
                BY <3>2 DEF b
        <2> QED
            BY <1>3, <2>2, Zenon
    <1>7. Counting(Append(ms, m), s.errors, {"errors"})
        <2> DEFINE b == s.errors
                   E == {"errors"}
        <2>1. b \in Seq(Bucket) /\ Counting(ms, b, E) /\ m.field \notin E
            BY <1>1, <1>3 DEF IsTold
        <2> HIDE DEF b, E
        <2>2. Counting(Append(ms, m), b, E)
            BY <1>1, <1>3, <2>1, CountsOther
        <2> QED
            BY <2>2 DEF b, E
    <1>8. MaxPoints \in Nat \ {0}
        BY FeedAssumption
    <1>9. delays \in Seq(Nat) /\ delays = Latest(Delays(Append(ms, m)), MaxPoints)
        <2>1. s.latency = Latest(Delays(ms), MaxPoints) /\ Delays(ms) \in Seq(Nat)
            BY <1>1, DelaysType DEF IsTold
        <2>2. Delays(Append(ms, m)) = IF l # 0 THEN Append(Delays(ms), l) ELSE Delays(ms)
            <3>1. Delays(Append(ms, m)) = IF m.latency # 0 THEN Append(Delays(ms), m.latency)
                                          ELSE Delays(ms)
                BY <1>1, <1>3, DelaysAppend
            <3> QED
                BY <1>3, <3>1
        <2>3. CASE l = 0
            BY <1>1, <2>1, <2>2, <2>3
        <2>4. CASE l # 0
            <3> DEFINE d == Delays(ms)
            <3>1. d \in Seq(Nat)
                BY <2>1
            <3> HIDE DEF d
            <3>2. Latest(Append(Latest(d, MaxPoints), l), MaxPoints) = Latest(Append(d, l), MaxPoints)
                BY <1>8, <3>1, LatestTwice
            <3>3. Append(d, l) \in Seq(Nat)
                BY <3>1, AppendProperties
            <3>4. Latest(Append(d, l), MaxPoints) \in Seq(Nat)
                BY <1>8, <3>3, LatestType
            <3>5. delays = Latest(Append(Latest(d, MaxPoints), l), MaxPoints)
                BY <2>1, <2>4 DEF d
            <3>6. Delays(Append(ms, m)) = Append(d, l)
                BY <2>2, <2>4 DEF d
            <3> HIDE DEF delays
            <3> QED
                BY <3>2, <3>4, <3>5, <3>6
        <2> QED
            BY <2>3, <2>4
    <1> HIDE DEF delays, bumped
    <1>10. /\ t \in Charts /\ t.messages = bumped /\ t.latency = delays /\ t.errors = s.errors
        BY <1>1, <1>6, <1>9 DEF Charts
    <1> HIDE DEF t
    <1>11. IsTold(Append(ms, m), t)
        BY <1>6, <1>7, <1>9, <1>10, Zenon DEF IsTold
    <1>12. IsTold(Append(marks[c], m), t)
        BY <1>11 DEF ms
    <1> QED
        BY <1>3, <1>4, <1>5, <1>10, <1>12, ChartTold

\* and so does recordError.
LEMMA ErrorTold ==
    ASSUME FeedType, ChartsTold, now' = now, NEW c \in Conns, RecordError(c)
    PROVE  ChartsTold'
    <1> DEFINE m == [field |-> "errors", time |-> now, latency |-> 0]
               s == timeSeries[c]
               ms == marks[c]
               bumped == Bump(s.errors, "errors")
               t == [s EXCEPT !.errors = bumped]
               E == {"errors"}
    <1>1. /\ ms \in Seq(MarkOf) /\ s \in Charts /\ IsTold(ms, s)
          /\ s.messages \in Seq(Bucket) /\ s.errors \in Seq(Bucket) /\ s.latency \in Seq(Nat)
        BY DEF ChartsTold, Charts
    <1>2. now \in 0..MaxTime
        BY DEF FeedType
    <1>3. /\ m \in MarkOf /\ m.field = "errors" /\ m.time = now /\ m.latency = 0
          /\ E \in SUBSET Fields
        BY <1>2 DEF MarkOf, Fields
    <1>4. marks' = [marks EXCEPT ![c] = Append(@, m)]
        BY DEF RecordError, Mark
    <1>5. timeSeries' = [timeSeries EXCEPT ![c] = t]
        BY DEF RecordError
    <1> HIDE DEF m, s, ms
    <1>6. bumped \in Seq(Bucket) /\ Counting(Append(ms, m), bumped, E)
        <2> DEFINE b == s.errors
        <2>1. b \in Seq(Bucket) /\ Counting(ms, b, E) /\ m.field \in E
            BY <1>1, <1>3 DEF IsTold
        <2> HIDE DEF b, E
        <2>2. Bump(b, m.field) \in Seq(Bucket) /\ Counting(Append(ms, m), Bump(b, m.field), E)
            BY <1>1, <1>2, <1>3, <2>1, BumpCounts
        <2> QED
            BY <1>3, <2>2, Zenon DEF b
    <1>7. Counting(Append(ms, m), s.messages, {"sent", "received"})
        <2> DEFINE b == s.messages
                   F == {"sent", "received"}
        <2>1. b \in Seq(Bucket) /\ Counting(ms, b, F) /\ m.field \notin F
            BY <1>1, <1>3 DEF IsTold
        <2> HIDE DEF b, F
        <2>2. Counting(Append(ms, m), b, F)
            BY <1>1, <1>3, <2>1, CountsOther
        <2> QED
            BY <2>2 DEF b, F
    <1>8. s.latency = Latest(Delays(Append(ms, m)), MaxPoints)
        <2>1. Delays(Append(ms, m)) = Delays(ms)
            BY <1>1, <1>3, DelaysAppend
        <2> QED
            BY <1>1, <2>1 DEF IsTold
    <1> HIDE DEF bumped
    <1>9. /\ t \in Charts /\ t.messages = s.messages /\ t.latency = s.latency /\ t.errors = bumped
        BY <1>1, <1>6 DEF Charts
    <1> HIDE DEF t
    <1>10. IsTold(Append(ms, m), t)
        BY <1>6, <1>7, <1>8, <1>9, Zenon DEF IsTold
    <1>11. IsTold(Append(marks[c], m), t)
        BY <1>10 DEF ms
    <1> QED
        BY <1>3, <1>4, <1>5, <1>9, <1>11, ChartTold

\* The step of the invariant of charts, one action after the other.
LEMMA ChartsStep == FeedType /\ ChartsTold /\ [FeedNext]_allFeedVars => ChartsTold'
    <1> SUFFICES ASSUME FeedType, ChartsTold, [FeedNext]_allFeedVars PROVE ChartsTold'
        OBVIOUS
    <1>1. CASE UNCHANGED <<chartVars, now>>
        BY <1>1 DEF ChartsTold, IsTold, Counting, chartVars
    <1>2. CASE Receive
        <2> DEFINE ev == wire[1]
        <2>1. ev \in Event /\ now' = now
            BY <1>2, FirstEvent DEF Receive, boundVars
        <2>2. ev.conn \in Conns /\ ev.latency \in Nat
            BY <2>1 DEF Event
        <2>3. HandleMessage(ev) \/ HandlePong(ev) \/ HandleError(ev) \/ HandleStatus(ev)
            BY <1>2 DEF Receive
        <2> HIDE DEF ev
        <2>4. CASE HandleMessage(ev)
            <3>1. ev.type \in {"sent", "received"} /\ RecordMessage(ev.conn, ev.type, ev.latency)
                BY <2>4 DEF HandleMessage
            <3> QED
                BY <2>1, <2>2, <3>1, MessageTold
        <2>5. CASE HandlePong(ev)
            <3>1. RecordMessage(ev.conn, "received", ev.latency)
                BY <2>5 DEF HandlePong
            <3> QED
                BY <2>1, <2>2, <3>1, MessageTold
        <2>6. CASE HandleError(ev)
            <3>1. RecordError(ev.conn)
                BY <2>6 DEF HandleError
            <3> QED
                BY <2>1, <2>2, <3>1, ErrorTold
        <2>7. CASE HandleStatus(ev)
            <3>1. UNCHANGED <<chartVars, now>>
                BY <2>1, <2>7 DEF HandleStatus
            <3> QED
                BY <1>1, <3>1
        <2> QED
            BY <2>3, <2>4, <2>5, <2>6, <2>7
    <1>3. CASE Tick
        <2>1. UNCHANGED chartVars /\ now' = now + 1 /\ now \in Nat
            BY <1>3 DEF Tick, FeedType
        <2>2. ASSUME NEW ms, NEW buckets \in Seq(Bucket), NEW fields, Counting(ms, buckets, fields)
              PROVE  Counting(ms, buckets, fields)'
            <3>1. ASSUME NEW i \in DOMAIN buckets PROVE buckets[i].time <= now'
                <4>1. buckets[i].time <= now
                    BY <2>2 DEF Counting
                <4>2. buckets[i] \in Bucket
                    BY LenProperties, ElementOfSeq
                <4>3. buckets[i].time \in Nat
                    BY <4>2 DEF Bucket
                <4> QED
                    BY <2>1, <4>1, <4>3
            <3> QED
                BY <2>2, <3>1 DEF Counting
        <2>3. ASSUME NEW c \in Conns PROVE IsTold(marks[c], timeSeries[c])'
            <3>1. /\ timeSeries[c].messages \in Seq(Bucket) /\ timeSeries[c].errors \in Seq(Bucket)
                  /\ marks'[c] = marks[c] /\ timeSeries'[c] = timeSeries[c]
                BY <2>1 DEF ChartsTold, Charts, chartVars
            <3>2. IsTold(marks[c], timeSeries[c])
                BY DEF ChartsTold
            <3> QED
                BY <2>2, <3>1, <3>2 DEF IsTold
        <2> QED
            BY <2>1, <2>3 DEF ChartsTold, chartVars
    <1>4. CASE ServerStep
        BY <1>1, <1>4 DEF ServerStep, OnMessage, OnOther, SendMessage, RefuseMessage,
           ClearByConnection, Spend, Act, boundVars
    <1>5. CASE ShowReceived \/ Send \/ Poll \/ ClearFeed \/ ClearHistory \/ ClearLog
        BY <1>1, <1>5 DEF ShowReceived, Send, Poll, ClearFeed, ClearHistory, ClearMessages,
           ClearLog, Spend, Act, boundVars
    <1>6. ASSUME NEW call \in calls, SendAnswered(call) PROVE UNCHANGED <<chartVars, now>>
        BY <1>6 DEF SendAnswered, boundVars
    <1>7. ASSUME NEW poll \in polls, PollAnswered(poll) \/ TotalsAnswered(poll) \/ PollFails(poll)
          PROVE  UNCHANGED <<chartVars, now>>
        BY <1>7 DEF PollAnswered, TotalsAnswered, PollFails, boundVars
    <1>8. ASSUME NEW c \in Conns \cup {NoConn}, SwitchTab(c) PROVE UNCHANGED <<chartVars, now>>
        BY <1>8 DEF SwitchTab, Act
    <1>9. CASE UNCHANGED allFeedVars
        BY <1>1, <1>9 DEF allFeedVars, boundVars
    <1> QED
        BY <1>1, <1>2, <1>3, <1>4, <1>5, <1>6, <1>7, <1>8, <1>9, Zenon DEF FeedNext, BrowserStep

\* Initially there are no marks and no buckets.
LEMMA ChartsInit == FeedInit => ChartsTold
    <1> SUFFICES ASSUME FeedInit PROVE ChartsTold
        OBVIOUS
    <1>1. <<>> \in Seq(Bucket) /\ <<>> \in Seq(Nat) /\ <<>> \in Seq(MarkOf) /\ DOMAIN <<>> = {}
        BY EmptySeq
    <1>2. EmptySeries \in Charts
        BY <1>1 DEF EmptySeries, Charts
    <1>3. marks = [c \in Conns |-> <<>>] /\ timeSeries = [c \in Conns |-> EmptySeries]
        BY DEF FeedInit
    <1>4. \A fields : Counting(<<>>, <<>>, fields)
        BY <1>1 DEF Counting
    <1>5. Latest(Delays(<<>>), MaxPoints) = <<>>
        <2>1. Picked(<<>>, Timed) = <<>>
            BY PickedEmpty
        <2>2. Delays(<<>>) = <<>>
            BY <2>1 DEF Delays
        <2>3. Latest(<<>>, MaxPoints) = <<>>
            BY FeedAssumption DEF Latest
        <2> QED
            BY <2>2, <2>3
    <1>6. IsTold(<<>>, EmptySeries)
        BY <1>4, <1>5 DEF IsTold, EmptySeries
    <1> QED
        BY <1>1, <1>2, <1>3, <1>6 DEF ChartsTold

\* What counting buckets are to the charts' reader.
LEMMA CountingIsWindow ==
    ASSUME ChartsTold, NEW c \in Conns, NEW buckets \in Seq(Bucket), NEW fields,
           Counting(marks[c], buckets, fields)
    PROVE  CountsWindow(c, buckets, fields)
    <1> SUFFICES ASSUME buckets # <<>> PROVE CountsWindow(c, buckets, fields)
        BY DEF CountsWindow
    <1> DEFINE ms == marks[c]
               end == buckets[Len(buckets)].time
               bucketsAt(t) == {i \in DOMAIN buckets : buckets[i].time = t}
    <1>1. /\ DOMAIN buckets = 1..Len(buckets) /\ Len(buckets) \in Nat \ {0}
          /\ \A i \in 1..Len(buckets) : buckets[i] \in Bucket
          /\ ms \in Seq(MarkOf)
        BY EmptySeq, LenProperties, ElementOfSeq DEF ChartsTold
    <1>2. \A i \in 1..Len(buckets) : buckets[i].time \in Nat
        BY <1>1 DEF Bucket
    <1>3. DOMAIN ms = 1..Len(ms) /\ \A k \in 1..Len(ms) : ms[k] \in MarkOf
        BY <1>1, LenProperties, ElementOfSeq
    <1>4. \A k \in 1..Len(ms) : ms[k].time \in Nat
        BY <1>3 DEF MarkOf
    <1>5. Len(buckets) \in 1..Len(buckets) /\ end \in Nat /\ Span \in Nat
        BY <1>1, <1>2, FeedAssumption
    <1>6. \A f, t : Marked(c, f, t) = Count(ms, f, t)
        BY Zenon DEF Marked, Count
    <1> HIDE DEF ms
    <1>7. /\ \A i, j \in 1..Len(buckets) : i < j => buckets[i].time < buckets[j].time
          /\ \A i \in 1..Len(buckets) : \A f \in fields :
                buckets[i][f] = Count(ms, f, buckets[i].time)
          /\ \A i \in 1..Len(buckets) : buckets[i].time > end - Span
          /\ \A k \in 1..Len(ms) : ms[k].field \in fields =>
                /\ ms[k].time <= end
                /\ ms[k].time > end - Span =>
                      \E i \in 1..Len(buckets) : buckets[i].time = ms[k].time
        BY <1>1, <1>3 DEF Counting, ms
    <1> HIDE DEF end
    <1>8. \A i \in 1..Len(buckets) : buckets[i].time <= end
        <2> SUFFICES ASSUME NEW i \in 1..Len(buckets) PROVE buckets[i].time <= end
            OBVIOUS
        <2>1. CASE i = Len(buckets)
            BY <1>5, <2>1 DEF end
        <2>2. CASE i # Len(buckets)
            <3>1. i < Len(buckets)
                <4> DEFINE n == Len(buckets)
                <4>1. n \in Nat /\ i \in 1..n /\ i # n
                    BY <1>1, <2>2
                <4> HIDE DEF n
                <4>2. i < n
                    BY <4>1
                <4> QED
                    BY <4>2 DEF n
            <3>2. buckets[i].time < buckets[Len(buckets)].time
                BY <1>5, <1>7, <3>1
            <3> QED
                BY <1>2, <1>5, <3>2 DEF end
        <2> QED
            BY <2>1, <2>2
    <1>9. \A i \in DOMAIN buckets : i > 1 => buckets[i-1].time < buckets[i].time
        <2> SUFFICES ASSUME NEW i \in 1..Len(buckets), i > 1
                     PROVE  buckets[i-1].time < buckets[i].time
            BY <1>1
        <2> DEFINE j == i - 1
        <2>1. j \in 1..Len(buckets) /\ j < i
            BY <1>1
        <2> HIDE DEF j
        <2>2. buckets[j].time < buckets[i].time
            BY <1>7, <2>1
        <2> QED
            BY <2>2 DEF j
    <1>10. ASSUME NEW t \in 0..MaxTime, NEW f \in fields, t > end - Span /\ t <= end
           PROVE  Count(ms, f, t) = IF bucketsAt(t) = {} THEN 0
                                    ELSE buckets[CHOOSE i \in bucketsAt(t) : TRUE][f]
        <2>1. CASE bucketsAt(t) = {}
            <3>1. ASSUME NEW k \in 1..Len(ms), ms[k].field = f, ms[k].time = t PROVE FALSE
                <4>1. \E i \in 1..Len(buckets) : buckets[i].time = t
                    BY <1>7, <1>10, <3>1
                <4> QED
                    BY <1>1, <2>1, <4>1
            <3>2. Count(ms, f, t) = 0
                BY <1>1, <3>1, CountIs
            <3> QED
                BY <2>1, <3>2
        <2>2. CASE bucketsAt(t) # {}
            <3> DEFINE i == CHOOSE i \in bucketsAt(t) : TRUE
            <3>1. i \in bucketsAt(t)
                BY <2>2
            <3> HIDE DEF i
            <3>2. i \in 1..Len(buckets) /\ buckets[i].time = t
                BY <1>1, <3>1
            <3>3. buckets[i][f] = Count(ms, f, t)
                BY <1>7, <3>2
            <3> QED
                BY <2>2, <3>3 DEF i
        <2> QED
            BY <2>1, <2>2
    <1>11. ASSUME NEW t \in 0..MaxTime, NEW f \in fields, ~ (t > end - Span /\ t <= end)
           PROVE  bucketsAt(t) = {} /\ (t > end => Count(ms, f, t) = 0)
        <2>1. bucketsAt(t) = {}
            BY <1>1, <1>7, <1>8, <1>11
        <2>2. ASSUME t > end PROVE Count(ms, f, t) = 0
            <3>1. ASSUME NEW k \in 1..Len(ms), ms[k].field = f, ms[k].time = t PROVE FALSE
                <4>1. t <= end /\ t \in Nat
                    BY <1>4, <1>7, <3>1
                <4> QED
                    BY <1>5, <2>2, <4>1
            <3> QED
                BY <1>1, <3>1, CountIs
        <2> QED
            BY <2>1, <2>2
    <1>12. \A t \in 0..MaxTime, f \in fields :
              IF t > end - Span /\ t <= end
              THEN Marked(c, f, t) = IF bucketsAt(t) = {} THEN 0
                                     ELSE buckets[CHOOSE i \in bucketsAt(t) : TRUE][f]
              ELSE bucketsAt(t) = {} /\ (t > end => Marked(c, f, t) = 0)
        <2> SUFFICES ASSUME NEW t \in 0..MaxTime, NEW f \in fields
                     PROVE  IF t > end - Span /\ t <= end
                            THEN Marked(c, f, t) = IF bucketsAt(t) = {} THEN 0
                                     ELSE buckets[CHOOSE i \in bucketsAt(t) : TRUE][f]
                            ELSE bucketsAt(t) = {} /\ (t > end => Marked(c, f, t) = 0)
            OBVIOUS
        <2>1. Marked(c, f, t) = Count(ms, f, t)
            BY <1>6
        <2>2. CASE t > end - Span /\ t <= end
            <3>1. Count(ms, f, t) = IF bucketsAt(t) = {} THEN 0
                                    ELSE buckets[CHOOSE i \in bucketsAt(t) : TRUE][f]
                BY <1>10, <2>2
            <3> HIDE DEF bucketsAt
            <3> QED
                BY <2>1, <2>2, <3>1, Zenon
        <2>3. CASE ~ (t > end - Span /\ t <= end)
            <3>1. bucketsAt(t) = {} /\ (t > end => Count(ms, f, t) = 0)
                BY <1>11, <2>3
            <3> HIDE DEF bucketsAt
            <3> QED
                BY <2>1, <2>3, <3>1, Zenon
        <2> QED
            BY <2>2, <2>3
    <1> QED
        BY <1>9, <1>12, Zenon DEF CountsWindow, end

\* For any number of events and seconds, any window and any limit of points: the
\* charts of a connection count exactly the last Span seconds (minutes, for
\* errors) before its last event, and show its latest latencies
\* (statsStore.ts:89-158).
THEOREM ChartsCountTheirWindow == FeedSpec => []ChartsCountTheWindow
    <1>1. FeedInit => FeedType /\ ChartsTold
        BY FeedTypeInit, ChartsInit
    <1>2. FeedType /\ ChartsTold /\ [FeedNext]_allFeedVars => (FeedType /\ ChartsTold)'
        BY FeedTypeStep, ChartsStep
    <1>3. ChartsTold => ChartsCountTheWindow
        <2> SUFFICES ASSUME ChartsTold, NEW c \in Conns
                     PROVE  /\ CountsWindow(c, timeSeries[c].messages, {"sent", "received"})
                            /\ CountsWindow(c, timeSeries[c].errors, {"errors"})
                            /\ LET timed == Selected(marks[c], {i \in DOMAIN marks[c] :
                                                                   marks[c][i].latency # 0})
                               IN  timeSeries[c].latency
                                      = Latest([i \in DOMAIN timed |-> timed[i].latency], MaxPoints)
            BY DEF ChartsCountTheWindow
        <2>1. /\ marks[c] \in Seq(MarkOf) /\ IsTold(marks[c], timeSeries[c])
              /\ timeSeries[c].messages \in Seq(Bucket) /\ timeSeries[c].errors \in Seq(Bucket)
            BY DEF ChartsTold, Charts
        <2>2. /\ Counting(marks[c], timeSeries[c].messages, {"sent", "received"})
              /\ Counting(marks[c], timeSeries[c].errors, {"errors"})
              /\ timeSeries[c].latency = Latest(Delays(marks[c]), MaxPoints)
            BY <2>1 DEF IsTold
        <2>3. {i \in DOMAIN marks[c] : marks[c][i].latency # 0}
                  = {i \in DOMAIN marks[c] : marks[c][i] \in Timed}
            BY <2>1, LenProperties, ElementOfSeq DEF Timed
        <2>4. CountsWindow(c, timeSeries[c].messages, {"sent", "received"})
            BY <2>1, <2>2, CountingIsWindow
        <2>5. CountsWindow(c, timeSeries[c].errors, {"errors"})
            BY <2>1, <2>2, CountingIsWindow
        <2> QED
            BY <2>2, <2>3, <2>4, <2>5, Zenon DEF Delays, Picked
    <1> QED
        BY <1>1, <1>2, <1>3, PTL DEF FeedSpec

==============================================================================
