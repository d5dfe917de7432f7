---------------------------- MODULE TableLemmas ----------------------------
(***************************************************************************)
(* An array with a count of its used entries, as the drivers keep their    *)
(* tables of events and of messages, seen as a sequence: storing and       *)
(* counting an entry appends it, memmove() down by one and counting down   *)
(* takes the head.                                                         *)
(***************************************************************************)
EXTENDS Integers, Sequences, SequenceTheorems, TLAPS

\* The first n entries of a.
Table(a, n) == [i \in 1 .. n |-> a[i - 1]]

\* The first n slots of a table are a sequence of length n.
LEMMA TableSeq ==
    ASSUME NEW a, NEW n \in Nat, \A i \in 1 .. n : a[i - 1] \in Nat
    PROVE  /\ Table(a, n) \in Seq(Nat)
           /\ Len(Table(a, n)) = n
           /\ \A i \in 1 .. n : Table(a, n)[i] = a[i - 1]
  BY DEF Table

\* Sequences of the same length with the same elements are equal.
LEMMA SameElements ==
    ASSUME NEW s \in Seq(Nat), NEW t \in Seq(Nat), Len(s) = Len(t),
           \A i \in 1 .. Len(s) : s[i] = t[i]
    PROVE  s = t
  BY SeqEqual, Zenon

\* One more slot is one more element at the end.
LEMMA TableAppend ==
    ASSUME NEW a, NEW n \in Nat, \A i \in 1 .. n + 1 : a[i - 1] \in Nat
    PROVE  Table(a, n + 1) = Append(Table(a, n), a[n])
<1> DEFINE s == Table(a, n)
           t == Table(a, n + 1)
           u == Append(s, a[n])
<1>1. \A i \in 1 .. n : a[i - 1] \in Nat
  OBVIOUS
<1>2. s \in Seq(Nat) /\ Len(s) = n /\ \A i \in 1 .. n : s[i] = a[i - 1]
  BY <1>1, TableSeq
<1>3. n + 1 \in Nat
  OBVIOUS
<1>4. t \in Seq(Nat) /\ Len(t) = n + 1 /\ \A i \in 1 .. n + 1 : t[i] = a[i - 1]
  BY <1>3, TableSeq
<1>5. a[n] \in Nat
  <2>1. a[(n + 1) - 1] \in Nat
    OBVIOUS
  <2>2. QED
    BY <2>1
<1> HIDE DEF s, t
<1>6. /\ u \in Seq(Nat) /\ Len(u) = n + 1 /\ u[n + 1] = a[n]
      /\ \A i \in 1 .. n : u[i] = s[i]
  BY <1>2, <1>5
<1> HIDE DEF u
<1>7. \A i \in 1 .. n + 1 : t[i] = u[i]
  <2>1. ASSUME NEW i \in 1 .. n PROVE t[i] = u[i]
    <3>1. i \in 1 .. n + 1
      OBVIOUS
    <3>2. QED
      BY <3>1, <1>2, <1>4, <1>6, Zenon
  <2>2. t[n + 1] = a[(n + 1) - 1] /\ (n + 1) - 1 = n
    BY <1>4
  <2>3. QED
    BY <2>1, <2>2, <1>6
<1>8. t = u
  <2>1. Len(t) = Len(u) /\ \A i \in 1 .. Len(t) : t[i] = u[i]
    BY <1>4, <1>6, <1>7
  <2>2. QED
    BY <2>1, <1>4, <1>6, SameElements, Zenon
<1>9. QED
  BY <1>8 DEF s, t, u

\* Slots moved down by one are the tail.
LEMMA TableTail ==
    ASSUME NEW a, NEW b, NEW n \in Nat \ {0}, \A i \in 1 .. n : a[i - 1] \in Nat,
           \A i \in 1 .. n - 1 : b[i - 1] = a[i]
    PROVE  /\ Table(a, n) # <<>>
           /\ Head(Table(a, n)) = a[0]
           /\ Table(b, n - 1) = Tail(Table(a, n))
<1> DEFINE s == Table(a, n)
           t == Table(b, n - 1)
<1>1. s \in Seq(Nat) /\ Len(s) = n /\ \A i \in 1 .. n : s[i] = a[i - 1]
  BY TableSeq
<1>2. \A i \in 1 .. n - 1 : b[i - 1] \in Nat
  <2>1. \A i \in 1 .. n - 1 : b[i - 1] = a[(i + 1) - 1] /\ i + 1 \in 1 .. n
    OBVIOUS
  <2>2. QED
    BY <2>1
<1>3. n - 1 \in Nat
  OBVIOUS
<1>4. t \in Seq(Nat) /\ Len(t) = n - 1 /\ \A i \in 1 .. n - 1 : t[i] = b[i - 1]
  BY <1>2, <1>3, TableSeq
<1> HIDE DEF s, t
<1>5. s # <<>> /\ Head(s) = a[0]
  BY <1>1
<1>6. /\ Tail(s) \in Seq(Nat) /\ Len(Tail(s)) = n - 1
      /\ \A i \in 1 .. n - 1 : Tail(s)[i] = s[i + 1]
  BY <1>1, <1>5, HeadTailProperties
<1>7. \A i \in 1 .. n - 1 : t[i] = Tail(s)[i]
  <2> SUFFICES ASSUME NEW i \in 1 .. n - 1 PROVE t[i] = Tail(s)[i]
    OBVIOUS
  <2>1. i + 1 \in 1 .. n /\ (i + 1) - 1 = i
    OBVIOUS
  <2>2. t[i] = a[i] /\ Tail(s)[i] = s[i + 1]
    BY <1>4, <1>6
  <2>3. s[i + 1] = a[i]
    BY <1>1, <2>1
  <2>4. QED
    BY <2>2, <2>3
<1>8. t = Tail(s)
  <2>1. Len(t) = Len(Tail(s)) /\ \A i \in 1 .. Len(t) : t[i] = Tail(s)[i]
    BY <1>4, <1>6, <1>7
  <2>2. QED
    BY <2>1, <1>4, <1>6, SameElements, Zenon
<1>9. QED
  BY <1>5, <1>8 DEF s, t
=============================================================================
