-------------------------- MODULE ConfigBuilderProofs --------------------------
(* Theorems about the configuration builder, for every chain of calls, of any
   length, and every command line and set of options of the front ends.      *)
EXTENDS ConfigBuilder, CollectionLemmas

(* Filtering.  The rank of a place among those picked grows with the place, and
   each rank up to their number is taken.                                    *)
LEMMA Ranks ==
    ASSUME NEW k \in Nat, NEW S \in SUBSET (1..k)
    PROVE  /\ IsFiniteSet(S) /\ Cardinality(S) \in Nat
           /\ \A i \in S : i \in Nat /\ Rank(S, i) \in Nat /\ Rank(S, i) \in 1..Cardinality(S)
           /\ \A i, j \in S : i < j => Rank(S, i) < Rank(S, j)
           /\ \A n \in 1..Cardinality(S) : \E i \in S : Rank(S, i) = n
<1> DEFINE Upto(i) == {j \in S : j <= i}
           c == Cardinality(S)
<1>1. IsFiniteSet(S) /\ c \in Nat /\ \A i \in S : i \in Nat
  <2>1. IsFiniteSet(1..k)
    BY FS_Interval
  <2>2. IsFiniteSet(S)
    BY <2>1, FS_Subset
  <2>3. QED
    BY <2>2, FS_CardinalityType
<1>2. ASSUME NEW i \in S
      PROVE  IsFiniteSet(Upto(i)) /\ Rank(S, i) \in Nat /\ Rank(S, i) \in 1..c
  <2> DEFINE U == Upto(i)
  <2>1. U \in SUBSET S /\ U # {}
    <3>1. i \in U
      BY <1>1
    <3>2. QED
      BY <3>1
  <2>2. Rank(S, i) = Cardinality(U)
    BY DEF Rank
  <2> HIDE DEF U
  <2>3. IsFiniteSet(U) /\ Cardinality(U) <= c
    BY <1>1, <2>1, FS_Subset
  <2>4. Cardinality(U) \in Nat /\ Cardinality(U) # 0
    BY <2>1, <2>3, FS_CardinalityType, FS_EmptySet
  <2> HIDE DEF c
  <2>5. Rank(S, i) \in 1..c
    BY <1>1, <2>2, <2>3, <2>4
  <2>6. QED
    BY <2>2, <2>3, <2>4, <2>5 DEF U
<1>3. ASSUME NEW i \in S, NEW j \in S, i < j
      PROVE  Rank(S, i) < Rank(S, j)
  <2> DEFINE U == Upto(i)
             V == Upto(j)
  <2>1. U \in SUBSET V /\ j \in V /\ j \notin U
    <3>1. ASSUME NEW x \in U PROVE x \in S /\ x <= j
      BY <1>1, <1>3
    <3>2. i \in Nat /\ j \in Nat
      BY <1>1
    <3>3. j <= j /\ ~(j <= i)
      BY <1>3, <3>2
    <3>4. QED
      BY <3>1, <3>3
  <2>2. Rank(S, i) = Cardinality(U) /\ Rank(S, j) = Cardinality(V)
    BY DEF Rank
  <2>3. IsFiniteSet(V) /\ Rank(S, i) \in Nat /\ Rank(S, j) \in Nat
    BY <1>2
  <2> HIDE DEF U, V
  <2>4. U # V /\ Cardinality(U) <= Cardinality(V) /\ (Cardinality(V) = Cardinality(U) => U = V)
    BY <2>1, <2>3, FS_Subset
  <2>5. QED
    BY <2>2, <2>3, <2>4
<1>4. ASSUME NEW n \in 1..c
      PROVE  \E i \in S : Rank(S, i) = n
  <2> DEFINE f == [i \in S |-> Rank(S, i)]
             T == {f[i] : i \in S}
  <2>1. \A i, j \in S : f[i] = f[j] => i = j
    <3>1. SUFFICES ASSUME NEW i \in S, NEW j \in S, i # j PROVE Rank(S, i) # Rank(S, j)
      OBVIOUS
    <3>2. i < j \/ j < i
      BY <1>1, <3>1
    <3>3. Rank(S, i) \in Nat /\ Rank(S, j) \in Nat
      BY <1>2
    <3>4. Rank(S, i) < Rank(S, j) \/ Rank(S, j) < Rank(S, i)
      BY <1>3, <3>2
    <3>5. QED
      BY <3>3, <3>4
  <2>2. T \in SUBSET (1..c)
    BY <1>2
  <2>3. IsFiniteSet(1..c) /\ Cardinality(1..c) = c
    <3> HIDE DEF c
    <3>1. IsFiniteSet(1..c) /\ Cardinality(1..c) = IF 1 > c THEN 0 ELSE c - 1 + 1
      BY <1>1, FS_Interval
    <3>2. QED
      BY <1>1, <3>1
  <2>4. Cardinality(T) = c
    <3> HIDE DEF f
    <3>1. QED
      BY <1>1, <2>1, ImageCounted
  <2> HIDE DEF T, c
  <2>5. T = 1..c
    BY <2>2, <2>3, <2>4, FS_Subset
  <2>6. QED
    BY <2>5 DEF T
<1>5. QED
  BY <1>1, <1>2, <1>3, <1>4

LEMMA NthIs ==
    ASSUME NEW k \in Nat, NEW S \in SUBSET (1..k), NEW n \in 1..Cardinality(S)
    PROVE  Nth(S, n) \in S /\ Rank(S, Nth(S, n)) = n
<1>1. \E i \in S : Rank(S, i) = n
  BY Ranks
<1>2. QED
  BY <1>1 DEF Nth

LEMMA RanksDiffer ==
    ASSUME NEW k \in Nat, NEW S \in SUBSET (1..k), NEW i \in S, NEW j \in S,
           Rank(S, i) = Rank(S, j)
    PROVE  i = j
<1>1. (i < j => Rank(S, i) < Rank(S, j)) /\ (j < i => Rank(S, j) < Rank(S, i))
  BY Ranks
<1>2. i \in Nat /\ j \in Nat /\ Rank(S, i) \in Nat /\ Rank(S, j) \in Nat
  <2>1. \A l \in S : l \in Nat /\ Rank(S, l) \in Nat
    BY Ranks
  <2>2. QED
    BY <2>1
<1>3. QED
  BY <1>1, <1>2

LEMMA NthOfRank ==
    ASSUME NEW k \in Nat, NEW S \in SUBSET (1..k), NEW i \in S
    PROVE  Rank(S, i) \in 1..Cardinality(S) /\ Nth(S, Rank(S, i)) = i
<1>1. Rank(S, i) \in 1..Cardinality(S)
  BY Ranks
<1>2. Nth(S, Rank(S, i)) \in S /\ Rank(S, Nth(S, Rank(S, i))) = Rank(S, i)
  BY <1>1, NthIs
<1>3. QED
  BY <1>1, <1>2, RanksDiffer

LEMMA NthOrdered ==
    ASSUME NEW k \in Nat, NEW S \in SUBSET (1..k),
           NEW m \in 1..Cardinality(S), NEW n \in 1..Cardinality(S), m < n
    PROVE  Nth(S, m) < Nth(S, n)
<1>1. /\ Nth(S, m) \in S /\ Rank(S, Nth(S, m)) = m
      /\ Nth(S, n) \in S /\ Rank(S, Nth(S, n)) = n
  BY NthIs
<1>2. Nth(S, n) < Nth(S, m) => n < m
  BY <1>1, Ranks
<1>3. Nth(S, n) # Nth(S, m)
  BY <1>1, Ranks
<1>4. Nth(S, m) \in Nat /\ Nth(S, n) \in Nat /\ m \in Nat /\ n \in Nat
  <2>1. \A i \in S : i \in Nat /\ Rank(S, i) \in Nat
    BY Ranks
  <2>2. QED
    BY <1>1, <2>1, Zenon
<1>5. QED
  BY <1>2, <1>3, <1>4

(* What filtering yields: as many elements as places, each from its place. *)
LEMMA PickedTyped ==
    ASSUME NEW T, NEW seq \in Seq(T), NEW S \in SUBSET (DOMAIN seq)
    PROVE  /\ Picked(seq, S) \in Seq(T)
           /\ Len(Picked(seq, S)) = Cardinality(S) /\ Cardinality(S) \in Nat
           /\ DOMAIN Picked(seq, S) = 1..Cardinality(S)
           /\ \A n \in 1..Cardinality(S) : Nth(S, n) \in S /\ Picked(seq, S)[n] = seq[Nth(S, n)]
<1> DEFINE c == Cardinality(S)
<1>1. /\ Len(seq) \in Nat /\ DOMAIN seq = 1..Len(seq)
      /\ \A i \in 1..Len(seq) : seq[i] \in T
  BY LenProperties, ElementOfSeq
<1>2. c \in Nat
  BY <1>1, Ranks
<1>3. \A n \in 1..c : Nth(S, n) \in S
  BY <1>1, NthIs
<1>4. Picked(seq, S) = [n \in 1..c |-> seq[Nth(S, n)]]
  BY DEF Picked
<1> HIDE DEF c
<1>5. \A n \in 1..c : seq[Nth(S, n)] \in T
  BY <1>1, <1>3
<1>6. Picked(seq, S) \in Seq(T) /\ Len(Picked(seq, S)) = c
  BY <1>2, <1>4, <1>5
<1>7. QED
  BY <1>2, <1>3, <1>4, <1>6 DEF c

(* An element that is appended is the last to be picked, or none. *)
LEMMA PickedKept ==
    ASSUME NEW T, NEW seq \in Seq(T), NEW x \in T, NEW S \in SUBSET (DOMAIN seq)
    PROVE  Picked(Append(seq, x), S) = Picked(seq, S)
<1>1. \A n \in 1..Cardinality(S) : Nth(S, n) \in DOMAIN seq
  BY PickedTyped
<1>2. \A i \in DOMAIN seq : Append(seq, x)[i] = seq[i]
  BY Appended
<1>3. QED
  BY <1>1, <1>2 DEF Picked

LEMMA PickedAppended ==
    ASSUME NEW T, NEW seq \in Seq(T), NEW x \in T, NEW S \in SUBSET (DOMAIN seq)
    PROVE  Picked(Append(seq, x), S \cup {Len(seq) + 1}) = Append(Picked(seq, S), x)
<1> DEFINE k == Len(seq)
           c == Cardinality(S)
           S2 == S \cup {k + 1}
           t == Append(seq, x)
<1>1. /\ k \in Nat /\ DOMAIN seq = 1..k /\ S \in SUBSET (1..k)
      /\ t \in Seq(T) /\ DOMAIN t = 1..(k + 1)
      /\ \A i \in DOMAIN seq : t[i] = seq[i]
      /\ t[k + 1] = x
  BY Appended, AppendProperties, LenProperties
<1> HIDE DEF t, k
<1>2. /\ S2 \in SUBSET (1..(k + 1)) /\ k + 1 \in Nat /\ k + 1 \in S2
      /\ \A i \in S : i \in Nat /\ i < k + 1 /\ i \in S2
  BY <1>1
<1>3. k + 1 \notin S /\ IsFiniteSet(S) /\ c \in Nat
  <2>1. k + 1 \notin S
    BY <1>1
  <2>2. IsFiniteSet(S) /\ c \in Nat
    BY <1>1, Ranks
  <2>3. QED
    BY <2>1, <2>2
<1>4. Cardinality(S2) = c + 1
  BY <1>3, FS_AddElement
<1>5. \A i \in S : Rank(S2, i) = Rank(S, i)
  <2>1. ASSUME NEW i \in S PROVE {j \in S2 : j <= i} = {j \in S : j <= i}
    <3>1. ~(k + 1 <= i)
      BY <1>1, <1>2
    <3>2. QED
      BY <3>1
  <2>2. QED
    BY <2>1 DEF Rank
<1>6. Rank(S2, k + 1) = c + 1
  <2>1. \A j \in S2 : j <= k + 1
    BY <1>1, <1>2
  <2>2. {j \in S2 : j <= k + 1} = S2
    BY <2>1
  <2>3. QED
    BY <1>4, <2>2 DEF Rank
<1> HIDE DEF S2, c
<1>7. \A n \in 1..c : Nth(S, n) \in S /\ Nth(S2, n) = Nth(S, n)
  <2>1. ASSUME NEW n \in 1..c PROVE Nth(S, n) \in S /\ Nth(S2, n) = Nth(S, n)
    <3>1. Nth(S, n) \in S /\ Rank(S, Nth(S, n)) = n
      BY <1>1, NthIs DEF c
    <3>2. Nth(S, n) \in S2 /\ Rank(S2, Nth(S, n)) = n
      BY <1>2, <1>5, <3>1
    <3>3. Nth(S2, Rank(S2, Nth(S, n))) = Nth(S, n)
      BY <1>2, <3>2, NthOfRank
    <3>4. QED
      BY <3>1, <3>2, <3>3
  <2>2. QED
    BY <2>1
<1>8. Nth(S2, c + 1) = k + 1
  <2>1. Nth(S2, Rank(S2, k + 1)) = k + 1
    BY <1>2, NthOfRank
  <2>2. QED
    BY <1>6, <2>1
<1> DEFINE p == Picked(seq, S)
           q == Picked(t, S2)
<1>9. /\ p \in Seq(T) /\ Len(p) = c /\ \A n \in 1..c : p[n] = seq[Nth(S, n)]
  BY <1>1, PickedTyped DEF c
<1>10. /\ q \in Seq(T) /\ Len(q) = c + 1 /\ \A n \in 1..(c + 1) : q[n] = t[Nth(S2, n)]
  <2>1. S2 \in SUBSET (DOMAIN t)
    BY <1>1, <1>2
  <2>2. /\ q \in Seq(T) /\ Len(q) = Cardinality(S2)
        /\ \A n \in 1..Cardinality(S2) : q[n] = t[Nth(S2, n)]
    BY <1>1, <2>1, PickedTyped
  <2>3. QED
    BY <1>4, <2>2
<1> HIDE DEF p, q
<1>11. /\ Append(p, x) \in Seq(T) /\ Len(Append(p, x)) = c + 1
       /\ \A n \in 1..c : Append(p, x)[n] = p[n]
       /\ Append(p, x)[c + 1] = x
  BY <1>9, AppendProperties
<1>12. \A n \in 1..(c + 1) : q[n] = Append(p, x)[n]
  <2>1. ASSUME NEW n \in 1..c PROVE q[n] = Append(p, x)[n]
    <3>1. n \in 1..(c + 1)
      BY <1>3
    <3>2. Nth(S, n) \in DOMAIN seq
      BY <1>1, <1>7
    <3>3. QED
      BY <1>1, <1>7, <1>9, <1>10, <1>11, <3>1, <3>2
  <2>2. q[c + 1] = Append(p, x)[c + 1]
    <3>1. c + 1 \in 1..(c + 1)
      BY <1>3
    <3>2. QED
      BY <1>1, <1>8, <1>10, <1>11, <3>1
  <2>3. \A n \in 1..(c + 1) : n \in 1..c \/ n = c + 1
    BY <1>3
  <2>4. QED
    BY <2>1, <2>2, <2>3
<1>13. q = Append(p, x)
  BY <1>10, <1>11, <1>12, SeqEqual
<1>14. QED
  BY <1>13 DEF q, p, S2, t, k
-----------------------------------------------------------------------------
(* The inductive invariant.  The calls of a chain are well typed, and so is the
   builder that they leave; the builder holds what its calls have added, and
   the filter of the last of them that set one; what was built was built from
   it, and is final.                                                         *)
CallSet ==
    {c \in [op  : Operations,
            arg : (SUBSET AllProtocols) \cup Seq(Builtins) \cup Provider
                      \cup Nat \cup Versions \cup StrategyArgs] : WellTyped(c)}

FilterSet ==
    [kind : {"none", "protocols", "select"}, protocols : SUBSET AllProtocols,
     selected : Seq(Builtins)]

BuilderSet ==
    [filter : FilterSet, custom : Seq(Provider), customBlocking : Seq(Provider),
     timeout : Nat, version : Versions, strategy : Strategies, min_agree : Nat \ {0, 1}]

Typed == calls \in Seq(CallSet) /\ script \in Seq(CallSet) /\ builder \in BuilderSet

CallsIn(seq, ops) == Picked(seq, {i \in DOMAIN seq : seq[i].op \in ops})

FilterOps == {"protocols", "providers"}

FilterOf(c) == IF c.op = "protocols" THEN Protocols(c.arg) ELSE Select(c.arg)

Kept ==
    /\ builder.custom = Args(CallsIn(calls, {"add"}))
    /\ builder.customBlocking = Args(CallsIn(calls, {"add_blocking"}))
    /\ LET filters == CallsIn(calls, FilterOps)
       IN  builder.filter = IF filters = <<>> THEN NoFilter ELSE FilterOf(filters[Len(filters)])

Final ==
    /\ built.ready \in BOOLEAN
    /\ built = IF built.ready THEN Built(builder) ELSE NotBuilt
    /\ built.ready => script = <<>>

IInv == Typed /\ Kept /\ Final

(* What a call adds to the calls that filtering by operation finds. *)
LEMMA CallsAppended ==
    ASSUME NEW seq \in Seq(CallSet), NEW c \in CallSet, NEW ops
    PROVE  /\ CallsIn(seq, ops) \in Seq(CallSet)
           /\ c.op \in ops => CallsIn(Append(seq, c), ops) = Append(CallsIn(seq, ops), c)
           /\ c.op \notin ops => CallsIn(Append(seq, c), ops) = CallsIn(seq, ops)
<1> DEFINE t == Append(seq, c)
           S == {i \in DOMAIN seq : seq[i].op \in ops}
           S2 == {i \in DOMAIN t : t[i].op \in ops}
           n == Len(seq) + 1
<1>1. /\ DOMAIN t = DOMAIN seq \cup {n} /\ n \notin DOMAIN seq
      /\ \A i \in DOMAIN seq : t[i] = seq[i]
      /\ t[n] = c
  BY Appended
<1>2. CallsIn(seq, ops) = Picked(seq, S) /\ CallsIn(t, ops) = Picked(t, S2)
  BY DEF CallsIn
<1>3. S \in SUBSET (DOMAIN seq)
  OBVIOUS
<1>4. (c.op \in ops => S2 = S \cup {n}) /\ (c.op \notin ops => S2 = S)
  <2> HIDE DEF t, n
  <2>1. QED
    BY <1>1
<1> HIDE DEF S, S2
<1>5. CallsIn(seq, ops) \in Seq(CallSet)
  BY <1>2, <1>3, PickedTyped
<1>6. Picked(t, S \cup {n}) = Append(Picked(seq, S), c) /\ Picked(t, S) = Picked(seq, S)
  BY <1>3, PickedAppended, PickedKept
<1> HIDE DEF t, n
<1>7. QED
  BY <1>2, <1>4, <1>5, <1>6 DEF t

LEMMA CallsFound ==
    ASSUME NEW seq \in Seq(CallSet), NEW ops
    PROVE  CallsIn(seq, ops) \in Seq(CallSet)
<1> DEFINE S == {i \in DOMAIN seq : seq[i].op \in ops}
<1>1. S \in SUBSET (DOMAIN seq) /\ CallsIn(seq, ops) = Picked(seq, S)
  BY DEF CallsIn
<1> HIDE DEF S
<1>2. QED
  BY <1>1, PickedTyped

LEMMA ArgsAppended ==
    ASSUME NEW T, NEW cs \in Seq(CallSet), Args(cs) \in Seq(T), NEW c \in CallSet, c.arg \in T
    PROVE  Args(Append(cs, c)) = Append(Args(cs), c.arg)
<1> DEFINE t == Append(cs, c)
           a == Args(cs)
           b == Append(a, c.arg)
           n == Len(cs) + 1
<1>1. /\ DOMAIN t = DOMAIN cs \cup {n} /\ n \notin DOMAIN cs
      /\ \A i \in DOMAIN cs : t[i] = cs[i]
      /\ t[n] = c
      /\ DOMAIN cs = 1..Len(cs) /\ Len(cs) \in Nat
  BY Appended
<1>2. DOMAIN a = DOMAIN cs /\ (\A i \in DOMAIN cs : a[i] = cs[i].arg)
  BY DEF Args
<1>3. Args(t) = [i \in DOMAIN t |-> t[i].arg]
  BY DEF Args
<1> HIDE DEF t, a
<1>4. DOMAIN a = 1..Len(a) /\ Len(a) \in Nat
  BY LenProperties DEF a
<1>5. Len(a) + 1 = n
  BY <1>1, <1>2, <1>4
<1>6. /\ DOMAIN b = DOMAIN a \cup {n}
      /\ \A i \in DOMAIN a : b[i] = a[i]
      /\ b[n] = c.arg
      /\ b = [i \in DOMAIN b |-> b[i]]
  <2>1. a \in Seq(T)
    BY DEF a
  <2> HIDE DEF n
  <2>2. /\ DOMAIN b = DOMAIN a \cup {n} /\ \A i \in DOMAIN a : b[i] = a[i]
        /\ b[n] = c.arg
    BY <1>5, <2>1, Appended
  <2>3. b \in Seq(T)
    BY <2>1, Appended
  <2>4. b = [i \in DOMAIN b |-> b[i]]
    BY <2>3, LenProperties
  <2>5. QED
    BY <2>2, <2>4
<1> HIDE DEF b, n
<1>7. QED
  BY <1>1, <1>2, <1>3, <1>6 DEF b, t, a

LEMMA CallTyped ==
    ASSUME NEW c, WellTyped(c)
    PROVE  c \in CallSet
<1>1. c = [op |-> c.op, arg |-> c.arg]
  BY Zenon DEF WellTyped, Called
<1>2. c.op \in Operations
  BY DEF WellTyped
<1>3. c.arg \in (SUBSET AllProtocols) \cup Seq(Builtins) \cup Provider
                      \cup Nat \cup Versions \cup StrategyArgs
  BY DEF WellTyped, Operations
<1>4. QED
  BY <1>1, <1>2, <1>3 DEF CallSet

(* A call leaves the builder well typed, the clamp of min_agree included. *)
LEMMA MadeTyped ==
    ASSUME NEW b \in BuilderSet, NEW c \in CallSet
    PROVE  Made(b, c) \in BuilderSet
<1>1. WellTyped(c)
  BY DEF CallSet
<1>2. CASE c.op = "protocols"
  <2>1. Protocols(c.arg) \in FilterSet
    <3>1. c.arg \in SUBSET AllProtocols /\ <<>> \in Seq(Builtins)
      BY <1>1, <1>2 DEF WellTyped
    <3>2. QED
      BY <3>1 DEF Protocols, FilterSet
  <2>2. Made(b, c) = [b EXCEPT !.filter = Protocols(c.arg)]
    BY <1>2 DEF Made
  <2>3. QED
    BY <2>1, <2>2 DEF BuilderSet
<1>3. CASE c.op = "providers"
  <2>1. Select(c.arg) \in FilterSet
    <3>1. c.arg \in Seq(Builtins) /\ {} \in SUBSET AllProtocols
      BY <1>1, <1>3 DEF WellTyped
    <3>2. QED
      BY <3>1 DEF Select, FilterSet
  <2>2. Made(b, c) = [b EXCEPT !.filter = Select(c.arg)]
    BY <1>3 DEF Made
  <2>3. QED
    BY <2>1, <2>2 DEF BuilderSet
<1>4. CASE c.op = "add"
  <2>1. Append(b.custom, c.arg) \in Seq(Provider)
    BY <1>1, <1>4 DEF WellTyped, BuilderSet
  <2>2. Made(b, c) = [b EXCEPT !.custom = Append(b.custom, c.arg)]
    BY <1>4 DEF Made
  <2>3. QED
    BY <2>1, <2>2 DEF BuilderSet
<1>5. CASE c.op = "add_blocking"
  <2>1. Append(b.customBlocking, c.arg) \in Seq(Provider)
    BY <1>1, <1>5 DEF WellTyped, BuilderSet
  <2>2. Made(b, c) = [b EXCEPT !.customBlocking = Append(b.customBlocking, c.arg)]
    BY <1>5 DEF Made
  <2>3. QED
    BY <2>1, <2>2 DEF BuilderSet
<1>6. CASE c.op = "timeout"
  <2>1. c.arg \in Nat /\ Made(b, c) = [b EXCEPT !.timeout = c.arg]
    BY <1>1, <1>6 DEF WellTyped, Made
  <2>2. QED
    BY <2>1 DEF BuilderSet
<1>7. CASE c.op = "version"
  <2>1. c.arg \in Versions /\ Made(b, c) = [b EXCEPT !.version = c.arg]
    BY <1>1, <1>7 DEF WellTyped, Made
  <2>2. QED
    BY <2>1 DEF BuilderSet
<1>8. CASE c.op = "strategy"
  <2>1. c.arg.name \in Strategies /\ c.arg.min_agree \in Nat
    BY <1>1, <1>8 DEF WellTyped, StrategyArgs
  <2>2. AtLeastTwo(c.arg.min_agree) \in Nat \ {0, 1}
    BY <2>1 DEF AtLeastTwo
  <2>3. Made(b, c) = [b EXCEPT !.strategy = c.arg.name, !.min_agree = AtLeastTwo(c.arg.min_agree)]
    BY <1>8 DEF Made
  <2>4. QED
    BY <2>1, <2>2, <2>3 DEF BuilderSet
<1>9. QED
  BY <1>1, <1>2, <1>3, <1>4, <1>5, <1>6, <1>7, <1>8 DEF WellTyped, Operations

(* A call keeps the builder in step with the calls. *)
LEMMA CallKeeps ==
    ASSUME Typed, Kept, NEW c \in CallSet, MakeCall(c)
    PROVE  calls' \in Seq(CallSet) /\ builder' \in BuilderSet /\ Kept'
<1>1. /\ calls \in Seq(CallSet) /\ builder \in BuilderSet
      /\ calls' = Append(calls, c) /\ builder' = Made(builder, c)
      /\ builder.custom = Args(CallsIn(calls, {"add"}))
      /\ builder.customBlocking = Args(CallsIn(calls, {"add_blocking"}))
  BY DEF Typed, Kept, MakeCall
<1>2. calls' \in Seq(CallSet) /\ builder' \in BuilderSet
  BY <1>1, MadeTyped
<1>3. WellTyped(c)
  BY DEF CallSet
<1>4. builder'.custom = Args(CallsIn(calls', {"add"}))
  <2> DEFINE cs == CallsIn(calls, {"add"})
  <2>1. cs \in Seq(CallSet) /\ Args(cs) \in Seq(Provider)
    BY <1>1, CallsAppended DEF BuilderSet
  <2>2. CASE c.op = "add"
    <3>1. c.arg \in Provider
      BY <1>3, <2>2 DEF WellTyped
    <3>2. CallsIn(calls', {"add"}) = Append(cs, c)
      BY <1>1, <2>2, CallsAppended
    <3>3. Args(Append(cs, c)) = Append(Args(cs), c.arg)
      BY <2>1, <3>1, ArgsAppended
    <3>4. Made(builder, c).custom = Append(builder.custom, c.arg)
      BY <1>1, <2>2 DEF Made, BuilderSet
    <3>5. QED
      BY <1>1, <3>2, <3>3, <3>4
  <2>3. CASE c.op # "add"
    <3>1. CallsIn(calls', {"add"}) = cs
      BY <1>1, <2>3, CallsAppended
    <3>2. Made(builder, c).custom = builder.custom
      BY <1>1, <1>3, <2>3 DEF Made, BuilderSet, WellTyped, Operations
    <3>3. QED
      BY <1>1, <3>1, <3>2
  <2>4. QED
    BY <2>2, <2>3
<1>5. builder'.customBlocking = Args(CallsIn(calls', {"add_blocking"}))
  <2> DEFINE cs == CallsIn(calls, {"add_blocking"})
  <2>1. cs \in Seq(CallSet) /\ Args(cs) \in Seq(Provider)
    BY <1>1, CallsAppended DEF BuilderSet
  <2>2. CASE c.op = "add_blocking"
    <3>1. c.arg \in Provider
      BY <1>3, <2>2 DEF WellTyped
    <3>2. CallsIn(calls', {"add_blocking"}) = Append(cs, c)
      BY <1>1, <2>2, CallsAppended
    <3>3. Args(Append(cs, c)) = Append(Args(cs), c.arg)
      BY <2>1, <3>1, ArgsAppended
    <3>4. Made(builder, c).customBlocking = Append(builder.customBlocking, c.arg)
      BY <1>1, <2>2 DEF Made, BuilderSet
    <3>5. QED
      BY <1>1, <3>2, <3>3, <3>4
  <2>3. CASE c.op # "add_blocking"
    <3>1. CallsIn(calls', {"add_blocking"}) = cs
      BY <1>1, <2>3, CallsAppended
    <3>2. Made(builder, c).customBlocking = builder.customBlocking
      BY <1>1, <1>3, <2>3 DEF Made, BuilderSet, WellTyped, Operations
    <3>3. QED
      BY <1>1, <3>1, <3>2
  <2>4. QED
    BY <2>2, <2>3
<1>6. LET filters == CallsIn(calls', FilterOps)
      IN  builder'.filter = IF filters = <<>> THEN NoFilter ELSE FilterOf(filters[Len(filters)])
  <2> DEFINE fs == CallsIn(calls, FilterOps)
             fs2 == CallsIn(calls', FilterOps)
  <2>1. fs \in Seq(CallSet)
    BY <1>1, CallsAppended
  <2>2. CASE c.op \in FilterOps
    <3>1. fs2 = Append(fs, c)
      BY <1>1, <2>2, CallsAppended
    <3> HIDE DEF fs, fs2
    <3>2. fs2 # <<>> /\ fs2[Len(fs2)] = c
      BY <2>1, <3>1, AppendProperties
    <3>3. Made(builder, c).filter = FilterOf(c)
      BY <1>1, <2>2 DEF Made, BuilderSet, FilterOf, FilterOps
    <3>4. QED
      BY <1>1, <3>2, <3>3 DEF fs2
  <2>3. CASE c.op \notin FilterOps
    <3>1. fs2 = fs
      BY <1>1, <2>3, CallsAppended
    <3>2. Made(builder, c).filter = builder.filter
      BY <1>1, <1>3, <2>3 DEF Made, BuilderSet, WellTyped, Operations, FilterOps
    <3>3. builder.filter = IF fs = <<>> THEN NoFilter ELSE FilterOf(fs[Len(fs)])
      BY DEF Kept
    <3>4. QED
      BY <1>1, <3>1, <3>2, <3>3
  <2>4. QED
    BY <2>2, <2>3
<1>7. QED
  BY <1>2, <1>4, <1>5, <1>6 DEF Kept

(* The front ends turn arguments and options into well-typed calls. *)
LEMMA OptTyped ==
    ASSUME NEW op, NEW T, NEW o \in Seq(T), \A x \in T : WellTyped(Called(op, x))
    PROVE  Opt(op, o) \in Seq(CallSet)
<1>1. Len(o) \in Nat /\ DOMAIN o = 1..Len(o) /\ \A i \in 1..Len(o) : o[i] \in T
  BY LenProperties, ElementOfSeq
<1>2. \A i \in 1..Len(o) : Called(op, o[i]) \in CallSet
  BY <1>1, CallTyped
<1>3. Opt(op, o) = [i \in 1..Len(o) |-> Called(op, o[i])]
  BY <1>1 DEF Opt
<1>4. QED
  BY <1>1, <1>2, <1>3

LEMMA CalledTyped ==
    /\ \A ps \in SUBSET AllProtocols : WellTyped(Called("protocols", ps))
    /\ \A sel \in Seq(Builtins) : WellTyped(Called("providers", sel))
    /\ \A t \in Nat : WellTyped(Called("timeout", t))
    /\ \A v \in Versions : WellTyped(Called("version", v))
    /\ \A s \in StrategyArgs : WellTyped(Called("strategy", s))
BY DEF WellTyped, Called, Operations

LEMMA FrontEndsTyped ==
    /\ \A args \in CliArgs : CliCalls(args) \in Seq(CallSet)
    /\ \A options \in NodeOptions : NodeCalls(options) \in Seq(CallSet)
<1>1. ASSUME NEW args \in CliArgs
      PROVE  CliCalls(args) \in Seq(CallSet)
  <2>1. /\ args.version \in Versions /\ args.strategy \in StrategyArgs /\ args.timeout \in Nat
        /\ args.protocol \in SUBSET AllProtocols /\ args.provider \in Seq(Builtins)
    BY CallsAssumption
  <2> DEFINE c1 == Called("version", args.version)
             c2 == Called("strategy", args.strategy)
             c3 == Called("timeout", args.timeout)
             c4 == Called("protocols", args.protocol)
             c5 == Called("providers", args.provider)
  <2>2. c1 \in CallSet /\ c2 \in CallSet /\ c3 \in CallSet /\ c4 \in CallSet /\ c5 \in CallSet
    BY <2>1, CalledTyped, CallTyped
  <2>3. CliCalls(args) = <<c1, c2, c3>> \o (IF args.protocol = {} THEN <<>> ELSE <<c4>>)
                                        \o (IF args.provider = <<>> THEN <<>> ELSE <<c5>>)
    BY DEF CliCalls
  <2> HIDE DEF c1, c2, c3, c4, c5
  <2>4. <<c1, c2, c3>> \in Seq(CallSet) /\ <<>> \in Seq(CallSet)
        /\ <<c4>> \in Seq(CallSet) /\ <<c5>> \in Seq(CallSet)
    BY <2>2
  <2>5. QED
    BY <2>3, <2>4, ConcatProperties
<1>2. ASSUME NEW options \in NodeOptions
      PROVE  NodeCalls(options) \in Seq(CallSet)
  <2>1. /\ options.timeout \in Seq(Nat) /\ options.version \in Seq(Versions)
        /\ options.strategy \in Seq(StrategyArgs)
        /\ options.protocols \in Seq(SUBSET AllProtocols)
        /\ options.providers \in Seq(Seq(Builtins))
    BY CallsAssumption
  <2> DEFINE s1 == Opt("timeout", options.timeout)
             s2 == Opt("version", options.version)
             s3 == Opt("strategy", options.strategy)
             s4 == Opt("protocols", options.protocols)
             s5 == Opt("providers", options.providers)
  <2>2. s1 \in Seq(CallSet) /\ s2 \in Seq(CallSet)
    BY <2>1, CalledTyped, OptTyped
  <2>3. s3 \in Seq(CallSet) /\ s4 \in Seq(CallSet)
    BY <2>1, CalledTyped, OptTyped
  <2>4. s5 \in Seq(CallSet)
    BY <2>1, CalledTyped, OptTyped
  <2>5. NodeCalls(options) = s1 \o s2 \o s3 \o s4 \o s5
    BY DEF NodeCalls
  <2> HIDE DEF s1, s2, s3, s4, s5
  <2>6. s1 \o s2 \in Seq(CallSet)
    BY <2>2
  <2>7. (s1 \o s2) \o s3 \in Seq(CallSet)
    BY <2>3, <2>6
  <2>8. ((s1 \o s2) \o s3) \o s4 \in Seq(CallSet)
    BY <2>3, <2>7
  <2>9. QED
    BY <2>4, <2>5, <2>8
<1>3. QED
  BY <1>1, <1>2

LEMMA InitIInv == Init => IInv
<1> SUFFICES ASSUME Init PROVE IInv
  OBVIOUS
<1>1. script \in Seq(CallSet)
  <2>1. \/ script = <<>>
        \/ \E args \in CliArgs : script = CliCalls(args)
        \/ \E options \in NodeOptions : script = NodeCalls(options)
    BY DEF Init
  <2>2. <<>> \in Seq(CallSet)
    OBVIOUS
  <2>3. QED
    BY <2>1, <2>2, FrontEndsTyped
<1>2. calls = <<>> /\ builder = New /\ built = NotBuilt
  BY DEF Init
<1>3. New \in BuilderSet
  BY DEF New, NoFilter, BuilderSet, FilterSet, Versions, Strategies
<1>4. ASSUME NEW ops PROVE CallsIn(<<>>, ops) = <<>> /\ Args(<<>>) = <<>>
  <2>1. {i \in DOMAIN <<>> : <<>>[i].op \in ops} = {}
    OBVIOUS
  <2>2. CallsIn(<<>>, ops) = Picked(<<>>, {})
    BY <2>1 DEF CallsIn
  <2>3. <<>> \in Seq({}) /\ {} \in SUBSET (DOMAIN <<>>)
    OBVIOUS
  <2>4. Picked(<<>>, {}) \in Seq({}) /\ Len(Picked(<<>>, {})) = 0
    BY <2>3, PickedTyped, FS_EmptySet
  <2>5. Picked(<<>>, {}) = <<>>
    BY <2>4
  <2>6. Args(<<>>) = <<>>
    BY DEF Args
  <2>7. QED
    BY <2>2, <2>5, <2>6
<1>5. Typed
  BY <1>1, <1>2, <1>3 DEF Typed
<1>6. Kept
  BY <1>2, <1>4 DEF Kept, New
<1>7. Final
  BY <1>2 DEF Final, NotBuilt
<1>8. QED
  BY <1>5, <1>6, <1>7 DEF IInv

LEMMA StepIInv == IInv /\ [Next]_vars => IInv'
<1> SUFFICES ASSUME IInv, [Next]_vars PROVE IInv'
  OBVIOUS
<1> USE DEF IInv
<1>1. ASSUME NEW c \in BuilderCalls, ProgramCalls(c) PROVE IInv'
  <2>1. c \in CallSet
    BY CallsAssumption, CallTyped
  <2>2. MakeCall(c) /\ ~built.ready /\ script' = script /\ built' = built
    BY <1>1 DEF ProgramCalls
  <2>3. calls' \in Seq(CallSet) /\ builder' \in BuilderSet /\ Kept'
    BY <2>1, <2>2, CallKeeps
  <2>4. Final'
    BY <2>2 DEF Final
  <2>5. QED
    BY <2>2, <2>3, <2>4 DEF Typed
<1>2. ASSUME FrontEndCalls PROVE IInv'
  <2>1. /\ script # <<>> /\ script' = Tail(script) /\ built' = built /\ MakeCall(Head(script))
    BY <1>2 DEF FrontEndCalls
  <2>2. Head(script) \in CallSet /\ Tail(script) \in Seq(CallSet)
    BY <2>1, HeadTailProperties DEF Typed
  <2>3. calls' \in Seq(CallSet) /\ builder' \in BuilderSet /\ Kept'
    BY <2>1, <2>2, CallKeeps
  <2>4. ~built.ready
    BY <2>1 DEF Final
  <2>5. Final'
    BY <2>1, <2>4 DEF Final
  <2>6. QED
    BY <2>1, <2>2, <2>3, <2>5 DEF Typed
<1>3. ASSUME Build PROVE IInv'
  <2>1. /\ script = <<>> /\ built' = Built(builder)
        /\ UNCHANGED <<script, calls, builder>>
    BY <1>3 DEF Build
  <2>2. Built(builder).ready = TRUE
    BY DEF Built
  <2>3. Final'
    BY <2>1, <2>2 DEF Final
  <2>4. Typed' /\ Kept'
    BY <2>1 DEF Typed, Kept
  <2>5. QED
    BY <2>3, <2>4
<1>4. CASE UNCHANGED vars
  BY <1>4 DEF vars, Typed, Kept, Final
<1>5. QED
  BY <1>1, <1>2, <1>3, <1>4 DEF Next

LEMMA AlwaysIInv == Spec => []IInv
BY InitIInv, StepIInv, PTL DEF Spec
-----------------------------------------------------------------------------
(* The built-in part of a list: the providers that the filter names, in its
   order, each with what its protocol's feature makes of it.                 *)
Names(filter, hasCustom) ==
    CASE filter.kind = "protocols" ->
            Picked(ALL, {i \in DOMAIN ALL : ProtocolOf(ALL[i]) \in filter.protocols})
      [] filter.kind = "select" -> filter.selected
      [] filter.kind = "none" -> IF hasCustom THEN <<>> ELSE ALL

LEMMA AllTyped ==
    ALL \in Seq(Builtins) /\ Len(ALL) = 9 /\ DOMAIN ALL = 1..9 /\ Builtins \subseteq STRING
<1>1. DOMAIN ALL = 1..9 /\ Len(ALL) = 9 /\ ALL = [i \in 1..9 |-> ALL[i]]
  BY DEF ALL
<1>2. \A i \in 1..9 : ALL[i] \in Builtins
  BY <1>1 DEF Builtins
<1>3. ALL \in Seq(Builtins)
  BY <1>1, <1>2
<1>4. QED
  BY <1>1, <1>3, NamesAssumption

LEMMA BuiltinsTyped ==
    ASSUME NEW filter \in FilterSet, NEW h \in BOOLEAN
    PROVE  /\ Names(filter, h) \in Seq(Builtins)
           /\ BuiltinPart(filter, h) \in Seq(Provider)
           /\ Len(BuiltinPart(filter, h)) = Len(Names(filter, h))
           /\ Len(Names(filter, h)) \in Nat
           /\ \A i \in 1..Len(Names(filter, h)) :
                  BuiltinPart(filter, h)[i].name = Names(filter, h)[i]
<1> DEFINE names == Names(filter, h)
           part == BuiltinPart(filter, h)
<1>1. names \in Seq(Builtins)
  <2> DEFINE S == {i \in DOMAIN ALL : ProtocolOf(ALL[i]) \in filter.protocols}
  <2>1. Picked(ALL, S) \in Seq(Builtins)
    <3>1. ALL \in Seq(Builtins) /\ S \in SUBSET (DOMAIN ALL)
      BY AllTyped
    <3> HIDE DEF S
    <3>2. QED
      BY <3>1, PickedTyped
  <2> HIDE DEF S
  <2>2. filter.selected \in Seq(Builtins) /\ <<>> \in Seq(Builtins) /\ ALL \in Seq(Builtins)
        /\ filter.kind \in {"none", "protocols", "select"}
    BY AllTyped DEF FilterSet
  <2>3. names = CASE filter.kind = "protocols" -> Picked(ALL, S)
                  [] filter.kind = "select" -> filter.selected
                  [] filter.kind = "none" -> IF h THEN <<>> ELSE ALL
    BY DEF Names, S
  <2> HIDE DEF names
  <2>4. QED
    BY <2>1, <2>2, <2>3
<1>2. part = [i \in DOMAIN names |-> Boxed(names[i])]
  BY DEF BuiltinPart, Names
<1> HIDE DEF part, names
<1>3. Len(names) \in Nat /\ DOMAIN names = 1..Len(names)
      /\ \A i \in 1..Len(names) : names[i] \in STRING
  <2>1. Len(names) \in Nat /\ DOMAIN names = 1..Len(names)
        /\ \A i \in 1..Len(names) : names[i] \in Builtins
    BY <1>1, LenProperties, ElementOfSeq
  <2>2. QED
    BY <2>1, AllTyped
<1>4. ASSUME NEW p \in STRING PROVE Boxed(p) \in Provider /\ Boxed(p).name = p
  BY DEF Boxed, Provider
<1>5. \A i \in 1..Len(names) : Boxed(names[i]) \in Provider /\ Boxed(names[i]).name = names[i]
  BY <1>3, <1>4
<1>6. part \in Seq(Provider) /\ Len(part) = Len(names)
      /\ \A i \in 1..Len(names) : part[i].name = names[i]
  BY <1>2, <1>3, <1>5
<1>7. QED
  BY <1>1, <1>3, <1>6 DEF part, names

LEMMA BuiltShape ==
    ASSUME IInv, built.ready
    PROVE  /\ builder.filter \in FilterSet /\ HasCustom(builder) \in BOOLEAN
           /\ BuiltinPart(builder.filter, HasCustom(builder)) \in Seq(Provider)
           /\ builder.custom \in Seq(Provider) /\ builder.customBlocking \in Seq(Provider)
           /\ built.blocking = BuiltinPart(builder.filter, HasCustom(builder))
                                   \o builder.customBlocking
           /\ built.async = BuiltinPart(builder.filter, HasCustom(builder)) \o builder.custom
<1>1. /\ builder.filter \in FilterSet /\ builder.custom \in Seq(Provider)
      /\ builder.customBlocking \in Seq(Provider)
  BY DEF IInv, Typed, BuilderSet
<1>2. HasCustom(builder) \in BOOLEAN
  BY DEF HasCustom
<1>3. BuiltinPart(builder.filter, HasCustom(builder)) \in Seq(Provider)
  BY <1>1, <1>2, BuiltinsTyped
<1>4. built = Built(builder)
  BY DEF IInv, Final
<1>5. /\ built.blocking = BuiltinPart(builder.filter, HasCustom(builder))
                              \o builder.customBlocking
      /\ built.async = BuiltinPart(builder.filter, HasCustom(builder)) \o builder.custom
  BY <1>4 DEF Built
<1>6. QED
  BY <1>1, <1>2, <1>3, <1>5

LEMMA ListsMakeConfigs == IInv => ResolversGetConfigs
<1> SUFFICES ASSUME IInv PROVE ResolversGetConfigs
  OBVIOUS
<1>1. ASSUME NEW ps \in Seq(Provider) PROVE ConfigOf(ps) \in Config
  BY DEF IInv, Typed, BuilderSet, ConfigOf, Config
<1>2. CASE built.ready
  <2> DEFINE part == BuiltinPart(builder.filter, HasCustom(builder))
  <2>1. /\ part \in Seq(Provider)
        /\ builder.custom \in Seq(Provider) /\ builder.customBlocking \in Seq(Provider)
        /\ built.blocking = part \o builder.customBlocking
        /\ built.async = part \o builder.custom
    BY <1>2, BuiltShape
  <2> HIDE DEF part
  <2>2. built.blocking \in Seq(Provider) /\ built.async \in Seq(Provider)
    BY <2>1, ConcatProperties
  <2>3. QED
    BY <1>1, <2>2 DEF ResolversGetConfigs
<1>3. CASE ~built.ready
  <2>1. built.blocking = <<>> /\ built.async = <<>>
    BY <1>3 DEF IInv, Final, NotBuilt
  <2>2. <<>> \in Seq(Provider)
    OBVIOUS
  <2>3. ConfigOf(<<>>) \in Config
    BY <1>1, <2>2
  <2>4. QED
    BY <2>1, <2>3 DEF ResolversGetConfigs
<1>4. QED
  BY <1>2, <1>3 DEF IInv, Final

LEMMA ConcatStart ==
    ASSUME NEW T, NEW s \in Seq(T), NEW t \in Seq(T)
    PROVE  Len(s) \in 0..Len(s \o t) /\ SubSeq(s \o t, 1, Len(s)) = s
<1>1. /\ Len(s) \in Nat /\ Len(t) \in Nat /\ Len(s \o t) = Len(s) + Len(t)
      /\ \A i \in 1..Len(s) : (s \o t)[i] = s[i] /\ s[i] \in T
  BY LenProperties, ElementOfSeq, ConcatProperties
<1> DEFINE u == s \o t
           v == SubSeq(u, 1, Len(s))
           n == Len(s)
<1>2. /\ \A i \in 1..n : u[i] = s[i] /\ u[i] \in T
      /\ 1 \in Int /\ n \in Int /\ n \in Nat
  BY <1>1
<1> HIDE DEF u, n
<1>3. SubSeq(u, 1, n) \in Seq(T)
      /\ Len(SubSeq(u, 1, n)) = (IF 1 <= n THEN n - 1 + 1 ELSE 0)
      /\ \A i \in 1..(n - 1 + 1) : SubSeq(u, 1, n)[i] = u[1 + i - 1]
  BY <1>2, SubSeqProperties
<1>4. n - 1 + 1 = n /\ (~(1 <= n) => n = 0) /\ \A i \in 1..n : 1 + i - 1 = i
  BY <1>2
<1>5. v \in Seq(T) /\ Len(v) = n /\ \A i \in 1..n : v[i] = s[i]
  BY <1>2, <1>3, <1>4 DEF n
<1> HIDE DEF v
<1>6. v = s
  BY <1>5, SeqEqual DEF n
<1>7. QED
  BY <1>1, <1>6 DEF v, u, n

LEMMA OpsAlone ==
    /\ \A op : CallsOf(op) = CallsIn(calls, {op})
    /\ FilterCalls = CallsIn(calls, FilterOps)
<1>1. ASSUME NEW op PROVE CallsOf(op) = CallsIn(calls, {op})
  <2>1. {i \in DOMAIN calls : calls[i].op = op} = {i \in DOMAIN calls : calls[i].op \in {op}}
    OBVIOUS
  <2>2. QED
    BY <2>1 DEF CallsOf, CallsIn
<1>2. QED
  BY <1>1 DEF FilterCalls, CallsIn, FilterOps

LEMMA PartsAreParallel == IInv => ListsAreParallel
<1> SUFFICES ASSUME IInv, built.ready PROVE ListsAreParallel
  BY DEF ListsAreParallel
<1> DEFINE part == BuiltinPart(builder.filter, HasCustom(builder))
           async == Args(CallsOf("add"))
           blocking == Args(CallsOf("add_blocking"))
<1>1. /\ part \in Seq(Provider)
      /\ builder.custom \in Seq(Provider) /\ builder.customBlocking \in Seq(Provider)
      /\ built.blocking = part \o builder.customBlocking
      /\ built.async = part \o builder.custom
  BY BuiltShape
<1>2. builder.custom = async /\ builder.customBlocking = blocking
  BY OpsAlone DEF IInv, Kept
<1> HIDE DEF part, async, blocking
<1>3. Len(part) \in 0..Len(built.blocking) /\ SubSeq(built.blocking, 1, Len(part)) = part
  BY <1>1, ConcatStart
<1>4. /\ built.blocking = SubSeq(built.blocking, 1, Len(part)) \o blocking
      /\ built.async = SubSeq(built.blocking, 1, Len(part)) \o async
  BY <1>1, <1>2, <1>3
<1>5. \E n \in 0..Len(built.blocking) :
          /\ built.blocking = SubSeq(built.blocking, 1, n) \o blocking
          /\ built.async = SubSeq(built.blocking, 1, n) \o async
  BY <1>3, <1>4
<1>6. QED
  BY <1>5 DEF ListsAreParallel, async, blocking

(* Filtering ALL by protocol keeps the providers of those protocols, in order. *)
OfProtocols(ps) == Picked(ALL, {i \in DOMAIN ALL : ProtocolOf(ALL[i]) \in ps})

InOrderOfAll(names, n) ==
    \A i, j \in 1..n : i < j =>
        \E k, l \in DOMAIN ALL : k < l /\ ALL[k] = names[i] /\ ALL[l] = names[j]

LEMMA ByProtocol ==
    ASSUME NEW ps, NEW names, names = OfProtocols(ps)
    PROVE  /\ ValuesOf(names) = {p \in Builtins : ProtocolOf(p) \in ps}
           /\ InOrderOfAll(names, Len(names))
<1> DEFINE S == {i \in DOMAIN ALL : ProtocolOf(ALL[i]) \in ps}
           c == Cardinality(S)
<1>1. /\ S \in SUBSET (DOMAIN ALL) /\ S \in SUBSET (1..9)
      /\ DOMAIN ALL = 1..9 /\ ALL \in Seq(Builtins)
      /\ \A i \in DOMAIN ALL : i \in S <=> ProtocolOf(ALL[i]) \in ps
  BY AllTyped
<1>2. names = Picked(ALL, S)
  BY DEF OfProtocols
<1> HIDE DEF S
<1>3. /\ Len(names) = c /\ DOMAIN names = 1..c
      /\ \A n \in 1..c : Nth(S, n) \in S /\ names[n] = ALL[Nth(S, n)]
  <2>1. /\ Len(Picked(ALL, S)) = Cardinality(S)
        /\ DOMAIN Picked(ALL, S) = 1..Cardinality(S)
        /\ \A n \in 1..Cardinality(S) :
               Nth(S, n) \in S /\ Picked(ALL, S)[n] = ALL[Nth(S, n)]
    BY <1>1, PickedTyped
  <2>2. QED
    BY <1>2, <2>1
<1>4. \A i \in S : Rank(S, i) \in 1..c /\ Nth(S, Rank(S, i)) = i
  BY <1>1, NthOfRank
<1> HIDE DEF c
<1>5. {names[i] : i \in 1..c} = {p \in Builtins : ProtocolOf(p) \in ps}
  <2>1. ASSUME NEW n \in 1..c PROVE names[n] \in Builtins /\ ProtocolOf(names[n]) \in ps
    <3>1. Nth(S, n) \in S /\ Nth(S, n) \in DOMAIN ALL /\ names[n] = ALL[Nth(S, n)]
      BY <1>1, <1>3
    <3>2. QED
      BY <1>1, <3>1 DEF Builtins
  <2>2. ASSUME NEW p \in Builtins, ProtocolOf(p) \in ps PROVE \E n \in 1..c : names[n] = p
    <3>1. PICK i \in DOMAIN ALL : ALL[i] = p
      BY DEF Builtins
    <3>2. i \in S
      BY <1>1, <2>2, <3>1
    <3>3. Rank(S, i) \in 1..c /\ names[Rank(S, i)] = p
      BY <1>3, <1>4, <3>1, <3>2
    <3>4. QED
      BY <3>3
  <2>3. QED
    BY <2>1, <2>2
<1>6. ASSUME NEW i \in 1..c, NEW j \in 1..c, i < j
      PROVE  \E k, l \in DOMAIN ALL : k < l /\ ALL[k] = names[i] /\ ALL[l] = names[j]
  <2>1. Nth(S, i) \in DOMAIN ALL /\ Nth(S, j) \in DOMAIN ALL
    BY <1>1, <1>3
  <2>2. Nth(S, i) < Nth(S, j)
    BY <1>1, <1>6, NthOrdered DEF c
  <2>3. ALL[Nth(S, i)] = names[i] /\ ALL[Nth(S, j)] = names[j]
    BY <1>3
  <2>4. QED
    BY <2>1, <2>2, <2>3
<1>7. QED
  BY <1>3, <1>5, <1>6 DEF ValuesOf, InOrderOfAll

LEMMA LastDecides == IInv => LastFilterDecides
<1> SUFFICES ASSUME IInv, built.ready, FilterCalls # <<>> PROVE LastFilterDecides
  BY DEF LastFilterDecides
<1> DEFINE h == HasCustom(builder)
           part == BuiltinPart(builder.filter, h)
           wanted == Names(builder.filter, h)
           filter == FilterCalls[Len(FilterCalls)]
           rest == Len(built.blocking) - Len(CallsOf("add_blocking"))
           names == [i \in 1..rest |-> built.blocking[i].name]
<1>1. /\ part \in Seq(Provider) /\ builder.customBlocking \in Seq(Provider)
      /\ built.blocking = part \o builder.customBlocking
      /\ builder.filter \in FilterSet /\ h \in BOOLEAN
  BY BuiltShape
<1>2. /\ wanted \in Seq(Builtins) /\ Len(part) = Len(wanted) /\ Len(wanted) \in Nat
      /\ \A i \in 1..Len(wanted) : part[i].name = wanted[i]
  BY <1>1, BuiltinsTyped
<1>3. filter \in CallSet /\ builder.filter = FilterOf(filter) /\ filter.op \in FilterOps
  <2> DEFINE fs == CallsIn(calls, FilterOps)
             S == {i \in DOMAIN calls : calls[i].op \in FilterOps}
  <2>1. fs = FilterCalls /\ fs # <<>> /\ fs = Picked(calls, S)
    BY OpsAlone DEF CallsIn
  <2>2. builder.filter = FilterOf(fs[Len(fs)])
    BY <2>1 DEF IInv, Kept
  <2>3. calls \in Seq(CallSet) /\ S \in SUBSET (DOMAIN calls)
        /\ \A i \in S : calls[i].op \in FilterOps
    BY DEF IInv, Typed
  <2> HIDE DEF S
  <2>4. /\ fs \in Seq(CallSet) /\ Len(fs) = Cardinality(S)
        /\ \A n \in 1..Cardinality(S) : Nth(S, n) \in S /\ fs[n] = calls[Nth(S, n)]
    BY <2>1, <2>3, PickedTyped
  <2> HIDE DEF fs
  <2>5. Len(fs) \in 1..Len(fs)
    BY <2>1, <2>4, EmptySeq
  <2>6. fs[Len(fs)] \in CallSet /\ fs[Len(fs)].op \in FilterOps
    BY <2>3, <2>4, <2>5, ElementOfSeq
  <2>7. QED
    BY <2>1, <2>2, <2>6
<1>4. Len(CallsOf("add_blocking")) = Len(builder.customBlocking)
  <2> DEFINE cs == CallsIn(calls, {"add_blocking"})
  <2>1. builder.customBlocking = Args(cs) /\ cs \in Seq(CallSet)
    BY CallsFound DEF IInv, Kept, Typed
  <2>2. CallsOf("add_blocking") = cs
    BY OpsAlone
  <2> HIDE DEF cs
  <2>3. Len(cs) \in Nat /\ DOMAIN cs = 1..Len(cs)
    BY <2>1, LenProperties
  <2>4. Len(Args(cs)) = Len(cs)
    BY <2>3 DEF Args
  <2>5. QED
    BY <2>1, <2>2, <2>4
<1> HIDE DEF h, part, wanted, filter
<1>5. /\ rest = Len(wanted)
      /\ \A i \in 1..rest : built.blocking[i].name = wanted[i]
  <2>1. /\ Len(part) \in Nat /\ Len(builder.customBlocking) \in Nat
        /\ Len(built.blocking) = Len(part) + Len(builder.customBlocking)
        /\ \A i \in 1..(Len(part) + Len(builder.customBlocking)) :
               built.blocking[i] = IF i <= Len(part) THEN part[i]
                                   ELSE builder.customBlocking[i - Len(part)]
    BY <1>1, LenProperties, ConcatProperties
  <2>2. rest = Len(wanted)
    BY <1>2, <1>4, <2>1
  <2>3. \A i \in 1..Len(wanted) :
            i \in 1..(Len(part) + Len(builder.customBlocking)) /\ i <= Len(part)
    BY <1>2, <2>1
  <2>4. \A i \in 1..Len(wanted) : built.blocking[i] = part[i]
    BY <2>1, <2>3
  <2>5. QED
    BY <1>2, <2>2, <2>4
<1>6. names = wanted
  <2>1. wanted = [i \in 1..Len(wanted) |-> wanted[i]]
    BY <1>2, LenProperties
  <2>2. names = [i \in 1..Len(wanted) |-> wanted[i]]
    BY <1>5
  <2>3. QED
    BY <2>1, <2>2
<1>7. CASE filter.op = "providers"
  <2>1. builder.filter = Select(filter.arg)
    BY <1>3, <1>7 DEF FilterOf
  <2>2. wanted = filter.arg
    BY <2>1 DEF wanted, Names, Select
  <2>3. QED
    BY <1>6, <1>7, <2>2 DEF LastFilterDecides, filter
<1>8. CASE filter.op = "protocols"
  <2>1. builder.filter = Protocols(filter.arg)
    BY <1>3, <1>8 DEF FilterOf
  <2>2. wanted = OfProtocols(filter.arg)
    BY <2>1 DEF wanted, Names, Protocols, OfProtocols
  <2>3. /\ ValuesOf(wanted) = {p \in Builtins : ProtocolOf(p) \in filter.arg}
        /\ InOrderOfAll(wanted, Len(wanted))
    BY <2>2, ByProtocol
  <2>4. /\ {names[i] : i \in 1..rest} = {p \in Builtins : ProtocolOf(p) \in filter.arg}
        /\ InOrderOfAll(names, rest)
    <3> HIDE DEF rest, names
    <3>1. ValuesOf(wanted) = {wanted[i] : i \in 1..rest}
      BY <1>2, <1>5, LenProperties DEF ValuesOf
    <3>2. QED
      BY <1>5, <1>6, <2>3, <3>1
  <2>5. filter.op # "providers"
    BY <1>8
  <2>6. QED
    BY <2>4, <2>5 DEF LastFilterDecides, filter, InOrderOfAll
<1>9. QED
  BY <1>3, <1>7, <1>8 DEF FilterOps
-----------------------------------------------------------------------------
(* What build returns are Configs as the resolvers' modules assume theirs,
   whatever calls led there, from a program, the command line or Node; min_agree
   is at least two in particular (ConfigBuilder::strategy's clamp).          *)
THEOREM BuilderMakesConfigs == Spec => []ResolversGetConfigs
BY AlwaysIInv, ListsMakeConfigs, PTL

(* The blocking and the asynchronous list begin with the same built-in
   providers, and each ends with the custom providers that were added for it,
   in the order of the add_provider calls (ConfigBuilder::build).            *)
THEOREM BuiltListsAreParallel == Spec => []ListsAreParallel
BY AlwaysIInv, PartsAreParallel, PTL

(* The built-in providers of a finished builder are those of the last of its
   protocols() and providers() calls, in ALL's order or the caller's, whatever
   calls were made before, between and after.                                *)
THEOREM LastFilterWins == Spec => []LastFilterDecides
BY AlwaysIInv, LastDecides, PTL
=============================================================================
