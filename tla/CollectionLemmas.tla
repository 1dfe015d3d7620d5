-------------------------- MODULE CollectionLemmas --------------------------
(* Facts about finite sets and sequences that the proofs about several modules
   rest on: how many votes there are, what the largest number of them is, what
   a sequence holds when an element was appended, and where the parts of a
   sequence lie that was put together from them.                             *)
EXTENDS Integers, SequencesExt, TLAPS, FiniteSetTheorems, SequenceTheorems,
        WellFoundedInduction

(* A nonempty set of bounded naturals has a greatest element, which Max finds. *)
LEMMA MaxOfBounded ==
    ASSUME NEW n \in Nat, NEW S \in SUBSET (0..n), S # {}
    PROVE  Max(S) \in S /\ \A x \in S : x <= Max(S)
<1> DEFINE T == {n - x : x \in S}
<1>1. T \in SUBSET Nat /\ T # {}
  <2>1. \A x \in S : x \in 0..n /\ n - x \in Nat
    OBVIOUS
  <2>2. T \subseteq Nat
    BY <2>1
  <2>3. PICK x : x \in S
    OBVIOUS
  <2>4. n - x \in T
    BY <2>3
  <2> HIDE DEF T
  <2>5. QED
    BY <2>2, <2>4
<1> DEFINE R == {ss \in Nat \X Nat : ss[1] < ss[2]}
<1>2. R = OpToRel(<, Nat)
  BY DEF OpToRel
<1>3. PICK t \in T : \A u \in T : t <= u
  <2>1. PICK t \in T : \A u \in T : <<u, t>> \notin R
    <3>1. IsWellFoundedOn(R, Nat)
      BY <1>2, NatLessThanWellFounded
    <3> HIDE DEF R, T
    <3>2. QED
      BY <1>1, <3>1, WFMin
  <2>2. \A u \in T : t \in Nat /\ u \in Nat /\ ~(u < t)
    BY <1>1, <2>1
  <2> HIDE DEF T
  <2>3. QED
    BY <2>2
<1>4. PICK m \in S : t = n - m
  OBVIOUS
<1>5. \A x \in S : m >= x
  <2>1. \A x \in S : x \in 0..n /\ n - m <= n - x
    BY <1>3, <1>4
  <2>2. QED
    BY <2>1
<1>6. QED
  BY <1>5 DEF Max

(* A map that takes no two elements to the same value keeps their number. *)
LEMMA ImageCounted ==
    ASSUME NEW I, IsFiniteSet(I), NEW f, NEW S, S = {f[i] : i \in I},
           \A i, j \in I : f[i] = f[j] => i = j
    PROVE  IsFiniteSet(S) /\ Cardinality(S) = Cardinality(I)
<1> DEFINE g == [i \in I |-> f[i]]
<1>1. g \in Bijection(I, S)
  BY DEF Bijection, Injection, Surjection, IsInjective
<1>2. ExistsBijection(I, S)
  BY <1>1 DEF ExistsBijection
<1>3. QED
  BY <1>2, FS_Bijection

(* A sequence without repetitions is as long as its set of values is large. *)
LEMMA OnceCounted ==
    ASSUME NEW n \in Nat, NEW f, NEW S, S = {f[i] : i \in 1..n},
           \A i, j \in 1..n : f[i] = f[j] => i = j
    PROVE  IsFiniteSet(S) /\ Cardinality(S) = n
<1>1. IsFiniteSet(1..n) /\ Cardinality(1..n) = n
  <2>1. IsFiniteSet(1..n) /\ Cardinality(1..n) = IF 1 > n THEN 0 ELSE n - 1 + 1
    BY FS_Interval
  <2>2. QED
    BY <2>1
<1>2. QED
  BY <1>1, ImageCounted

(* No two indices of a sequence hold the same value. *)
NoRepeats(seq) == \A i, j \in DOMAIN seq : seq[i] = seq[j] => i = j

(* What a sequence holds. *)
ValuesOf(seq) == {seq[i] : i \in DOMAIN seq}

(* What Append adds, to a sequence that does not hold the value yet. *)
LEMMA Appended ==
    ASSUME NEW S, NEW seq \in Seq(S), NEW x \in S
    PROVE  /\ Append(seq, x) \in Seq(S)
           /\ DOMAIN seq = 1..Len(seq) /\ Len(seq) \in Nat
           /\ DOMAIN Append(seq, x) = DOMAIN seq \cup {Len(seq) + 1}
           /\ Len(seq) + 1 \notin DOMAIN seq
           /\ \A i \in DOMAIN seq : Append(seq, x)[i] = seq[i]
           /\ Append(seq, x)[Len(seq) + 1] = x
<1>1. /\ DOMAIN seq = 1..Len(seq) /\ Len(seq) \in Nat
      /\ Append(seq, x) \in Seq(S)
      /\ DOMAIN Append(seq, x) = 1..(Len(seq) + 1)
      /\ \A i \in 1..Len(seq) : Append(seq, x)[i] = seq[i]
      /\ Append(seq, x)[Len(seq) + 1] = x
  BY LenProperties, AppendProperties
<1>2. QED
  BY <1>1

(* Appending what a sequence does not hold yet repeats nothing. *)
LEMMA AppendedOnce ==
    ASSUME NEW S, NEW seq \in Seq(S), NEW x \in S, NoRepeats(seq), x \notin ValuesOf(seq)
    PROVE  NoRepeats(Append(seq, x)) /\ ValuesOf(Append(seq, x)) = ValuesOf(seq) \cup {x}
<1> DEFINE t == Append(seq, x)
<1>1. /\ DOMAIN t = DOMAIN seq \cup {Len(seq) + 1} /\ Len(seq) + 1 \notin DOMAIN seq
      /\ t[Len(seq) + 1] = x /\ \A i \in DOMAIN seq : t[i] = seq[i] /\ seq[i] # x
  BY Appended DEF ValuesOf
<1> HIDE DEF t
<1>2. NoRepeats(t)
  BY <1>1 DEF NoRepeats
<1>3. ValuesOf(t) = ValuesOf(seq) \cup {x}
  BY <1>1 DEF ValuesOf
<1>4. QED
  BY <1>2, <1>3 DEF t

(* What is appended to a sequence of whatever it holds. *)
LEMMA AppendedValue ==
    ASSUME NEW seq, seq \in Seq(ValuesOf(seq)), NEW x
    PROVE  /\ Append(seq, x) \in Seq(ValuesOf(Append(seq, x)))
           /\ DOMAIN Append(seq, x) = DOMAIN seq \cup {Len(seq) + 1}
           /\ Len(seq) + 1 \notin DOMAIN seq
           /\ \A i \in DOMAIN seq : Append(seq, x)[i] = seq[i]
           /\ Append(seq, x)[Len(seq) + 1] = x
<1> DEFINE S == ValuesOf(seq) \cup {x}
           t == Append(seq, x)
<1>1. seq \in Seq(S) /\ x \in S
  BY SeqMonotonic
<1>2. /\ t \in Seq(S) /\ DOMAIN t = DOMAIN seq \cup {Len(seq) + 1}
      /\ Len(seq) + 1 \notin DOMAIN seq
      /\ \A i \in DOMAIN seq : t[i] = seq[i]
      /\ t[Len(seq) + 1] = x
  <2> HIDE DEF S
  <2>1. QED
    BY <1>1, Appended
<1> HIDE DEF t
<1>3. ValuesOf(t) = S
  BY <1>2 DEF ValuesOf
<1>4. QED
  BY <1>2, <1>3 DEF t

-----------------------------------------------------------------------------
(* Induction, and functions that are defined step by step. *)

(* A set of naturals that is not empty has a least element. *)
LEMMA LeastNatural ==
    ASSUME NEW T \in SUBSET Nat, T # {}
    PROVE  \E t \in T : \A u \in T : t <= u
<1> DEFINE R == {ss \in Nat \X Nat : ss[1] < ss[2]}
<1>1. R = OpToRel(<, Nat)
  BY DEF OpToRel
<1>2. IsWellFoundedOn(R, Nat)
  BY <1>1, NatLessThanWellFounded
<1>3. PICK t \in T : \A u \in T : <<u, t>> \notin R
  <2> HIDE DEF R
  <2>1. QED
    BY <1>2, WFMin
<1>4. \A u \in T : t \in Nat /\ u \in Nat /\ ~(u < t)
  BY <1>3
<1>5. QED
  BY <1>4

(* Induction, with the naturals that have the property as a set. *)
LEMMA SetInduction ==
    ASSUME NEW T, 0 \in T, \A n \in Nat : n \in T => n + 1 \in T
    PROVE  \A n \in Nat : n \in T
<1> DEFINE U == {n \in Nat : n \notin T}
<1>1. SUFFICES ASSUME U # {} PROVE FALSE
  OBVIOUS
<1>2. PICK t \in U : \A u \in U : t <= u
  <2>1. U \in SUBSET Nat
    OBVIOUS
  <2> HIDE DEF U
  <2>2. QED
    BY <1>1, <2>1, LeastNatural
<1>3. t \in Nat /\ t \notin T /\ t # 0 /\ t - 1 \in Nat /\ t - 1 + 1 = t
  <2>1. t \in Nat /\ t \notin T
    OBVIOUS
  <2>2. QED
    BY <2>1
<1>4. t - 1 \notin U
  <2>1. ~(t <= t - 1)
    BY <1>3
  <2> HIDE DEF U
  <2>2. QED
    BY <1>2, <2>1
<1>5. QED
  BY <1>3, <1>4

(* What each of n steps makes of a value. *)
Steps(n, S) == [1..n -> [S -> S]]

(* A function on 0..n is given by its first value and by what each step makes of
   the value before.                                                         *)
LEMMA StepByStep ==
    ASSUME NEW S, NEW n \in Nat, NEW z \in S, NEW step \in Steps(n, S)
    PROVE  \E f \in [0..n -> S] : f[0] = z /\ \A k \in 1..n : f[k] = step[k][f[k - 1]]
<1> DEFINE Upto(m, f) == f \in [0..m -> S] /\ f[0] = z /\ \A k \in 1..m : f[k] = step[k][f[k - 1]]
           T == {m \in Nat : m <= n => \E f : Upto(m, f)}
<1>1. 0 \in T
  <2> DEFINE f == [k \in 0..0 |-> z]
  <2>1. Upto(0, f)
    OBVIOUS
  <2>2. QED
    BY <2>1
<1>2. ASSUME NEW m \in Nat, m \in T PROVE m + 1 \in T
  <2>1. SUFFICES ASSUME m + 1 <= n PROVE \E f : Upto(m + 1, f)
    OBVIOUS
  <2>2. PICK f : Upto(m, f)
    BY <1>2, <2>1
  <2> DEFINE g == [k \in 0..m+1 |-> IF k = m + 1 THEN step[m + 1][f[m]] ELSE f[k]]
  <2>3. step[m + 1][f[m]] \in S
    BY <2>1, <2>2 DEF Steps
  <2>4. g \in [0..m+1 -> S]
    BY <2>2, <2>3
  <2>5. g[0] = z
    BY <2>2
  <2>6. ASSUME NEW k \in 1..m+1 PROVE g[k] = step[k][g[k - 1]]
    <3>1. CASE k = m + 1
      <4>1. g[k] = step[m + 1][f[m]] /\ g[m] = f[m] /\ k - 1 = m
        BY <3>1
      <4> HIDE DEF g
      <4>2. QED
        BY <3>1, <4>1
    <3>2. CASE k # m + 1
      <4>1. k \in 1..m /\ k - 1 \in 0..m /\ k \in 0..m+1 /\ k - 1 \in 0..m+1 /\ k - 1 # m + 1
        BY <2>6, <3>2
      <4>2. g[k] = f[k] /\ g[k - 1] = f[k - 1]
        BY <3>2, <4>1
      <4> HIDE DEF g
      <4>3. QED
        BY <2>2, <4>1, <4>2
    <3>3. QED
      BY <3>1, <3>2
  <2> HIDE DEF g
  <2>7. QED
    BY <2>4, <2>5, <2>6
<1>3. n \in T
  <2> HIDE DEF T
  <2>1. QED
    BY <1>1, <1>2, SetInduction
<1>4. PICK f : Upto(n, f)
  BY <1>3
<1>5. QED
  BY <1>4

(* Functions are equal that have a domain and their values in common. *)
LEMMA SameFunction ==
    ASSUME NEW D, NEW f, NEW g, f = [x \in D |-> f[x]], g = [x \in D |-> g[x]],
           \A x \in D : f[x] = g[x]
    PROVE  f = g
OBVIOUS

-----------------------------------------------------------------------------
(* Sequences that are equal, that begin others, and that are put together. *)

(* A function on 1..n is a sequence. *)
LEMMA FunctionIsSeq ==
    ASSUME NEW S, NEW n \in Nat, NEW f \in [1..n -> S]
    PROVE  f \in Seq(S) /\ Len(f) = n
<1>1. f \in Seq(S)
  OBVIOUS
<1>2. QED
  BY <1>1, LenProperties

(* Sequences are equal that have their length and their elements in common. *)
LEMMA SameSeq ==
    ASSUME NEW S, NEW s \in Seq(S), NEW t \in Seq(S), Len(s) = Len(t),
           \A p \in 1..Len(s) : s[p] = t[p]
    PROVE  s = t
<1> DEFINE n == Len(s)
<1>1. s \in [1..n -> S] /\ t \in [1..n -> S]
  BY LenProperties
<1>2. s = [p \in 1..n |-> s[p]] /\ t = [p \in 1..n |-> t[p]]
  BY <1>1
<1> HIDE DEF n
<1>3. \A p \in 1..n : s[p] = t[p]
  BY DEF n
<1>4. QED
  BY <1>2, <1>3, SameFunction

(* The beginning of a sequence, as SubSeq cuts it out. *)
LEMMA BeginsWith ==
    ASSUME NEW S, NEW s \in Seq(S), NEW t \in Seq(S), Len(s) <= Len(t),
           \A p \in 1..Len(s) : t[p] = s[p]
    PROVE  s = SubSeq(t, 1, Len(s))
<1> DEFINE k == Len(s)
           sub == SubSeq(t, 1, k)
<1>1. k \in Nat /\ k \in Int /\ Len(t) \in Nat /\ k <= Len(t)
  OBVIOUS
<1>2. \A i \in 1..k : t[i] \in S
  BY <1>1
<1> HIDE DEF k
<1>3. /\ sub \in Seq(S) /\ Len(sub) = (IF 1 <= k THEN k - 1 + 1 ELSE 0)
      /\ \A i \in 1..(k - 1 + 1) : sub[i] = t[1 + i - 1]
  BY <1>1, <1>2, SubSeqProperties
<1>4. k - 1 + 1 = k
  BY <1>1
<1>5. Len(sub) = k
  BY <1>1, <1>3, <1>4
<1>6. ASSUME NEW p \in 1..k PROVE s[p] = sub[p]
  <2>1. 1 + p - 1 = p /\ p \in 1..(k - 1 + 1)
    BY <1>1, <1>4
  <2>2. sub[p] = t[p]
    BY <1>3, <2>1
  <2>3. s[p] = t[p]
    BY DEF k
  <2>4. QED
    BY <2>2, <2>3
<1> HIDE DEF sub
<1>7. Len(s) = Len(sub) /\ \A p \in 1..Len(s) : s[p] = sub[p]
  BY <1>5, <1>6 DEF k
<1>8. s = sub
  BY <1>3, <1>7, SameSeq
<1>9. QED
  BY <1>8 DEF sub, k

(* Numbers are what a message is made of. *)
Concatenated(s, t, u) ==
    /\ u \in Seq(Int) /\ Len(s) \in Nat /\ Len(t) \in Nat /\ Len(u) \in Nat
    /\ Len(u) = Len(s) + Len(t)
    /\ \A p \in 1..Len(s) : u[p] = s[p]
    /\ \A p \in 1..Len(t) : u[Len(s) + p] = t[p]

(* A part lies where the parts before it end. *)
LiesAt(octets, at, all) ==
    /\ at \in Nat /\ Len(all) \in Nat /\ Len(octets) \in Nat
    /\ at + Len(octets) <= Len(all)
    /\ \A p \in 1..Len(octets) : all[at + p] = octets[p]

(* What lies in a part lies in the whole. *)
LEMMA LiesWithin ==
    ASSUME NEW x, NEW i, NEW y, NEW j, NEW z, LiesAt(x, i, y), LiesAt(y, j, z)
    PROVE  LiesAt(x, j + i, z)
<1>1. /\ i \in Nat /\ j \in Nat /\ Len(x) \in Nat /\ Len(y) \in Nat /\ Len(z) \in Nat
      /\ i + Len(x) <= Len(y) /\ j + Len(y) <= Len(z)
  BY DEF LiesAt
<1>2. j + i \in Nat /\ (j + i) + Len(x) <= Len(z)
  BY <1>1
<1>3. ASSUME NEW p \in 1..Len(x) PROVE z[(j + i) + p] = x[p]
  <2>1. i + p \in 1..Len(y) /\ j + (i + p) = (j + i) + p
    BY <1>1
  <2>2. y[i + p] = x[p] /\ z[j + (i + p)] = y[i + p]
    BY <2>1 DEF LiesAt
  <2>3. QED
    BY <2>1, <2>2
<1>4. QED
  BY <1>1, <1>2, <1>3 DEF LiesAt

(* Both parts lie in what they are put together to. *)
LEMMA ConcatLies ==
    ASSUME NEW S, NEW s \in Seq(S), NEW t \in Seq(S)
    PROVE  LiesAt(s, 0, s \o t) /\ LiesAt(t, Len(s), s \o t)
<1>1. /\ Len(s) \in Nat /\ Len(t) \in Nat /\ Len(s \o t) = Len(s) + Len(t)
      /\ \A i \in 1..Len(s) + Len(t) : (s \o t)[i] = IF i <= Len(s) THEN s[i] ELSE t[i - Len(s)]
  BY LenProperties, ConcatProperties
<1>2. LiesAt(s, 0, s \o t)
  BY <1>1 DEF LiesAt
<1>3. \A p \in 1..Len(t) : (s \o t)[Len(s) + p] = t[p]
  <2>1. ASSUME NEW p \in 1..Len(t)
        PROVE  Len(s) + p \in 1..Len(s) + Len(t) /\ ~(Len(s) + p <= Len(s)) /\ (Len(s) + p) - Len(s) = p
    BY <1>1
  <2>2. QED
    BY <1>1, <2>1
<1>4. QED
  BY <1>1, <1>2, <1>3 DEF LiesAt

(* Two sequences of numbers, one after the other. *)
LEMMA ConcatNumbers ==
    ASSUME NEW s \in Seq(Int), NEW t \in Seq(Int)
    PROVE  Concatenated(s, t, s \o t)
<1>1. s \o t \in Seq(Int) /\ Len(s \o t) = Len(s) + Len(t) /\ Len(s) \in Nat /\ Len(t) \in Nat
  BY ConcatProperties, LenProperties
<1>2. LiesAt(s, 0, s \o t) /\ LiesAt(t, Len(s), s \o t)
  BY ConcatLies
<1>3. \A p \in 1..Len(s) : (s \o t)[0 + p] = s[p] /\ 0 + p = p
  BY <1>2 DEF LiesAt
<1>4. QED
  BY <1>1, <1>2, <1>3 DEF LiesAt, Concatenated

-----------------------------------------------------------------------------
(* What FlattenSeq makes of a sequence of parts, and where each part lies. *)

(* The first n parts of a sequence of sequences, one after the other. *)
JoinOf(parts) ==
    LET J[n \in 0..Len(parts)] == IF n = 0 THEN <<>> ELSE J[n - 1] \o parts[n]
    IN  J

(* The recursion of JoinOf has a solution, the one that its first value and
   its steps determine, and CHOOSE finds it.                                 *)
LEMMA JoinedBy ==
    ASSUME NEW S, NEW parts \in Seq(Seq(S))
    PROVE  /\ JoinOf(parts) \in [0..Len(parts) -> Seq(S)]
           /\ JoinOf(parts)[0] = <<>>
           /\ \A n \in 1..Len(parts) : JoinOf(parts)[n] = JoinOf(parts)[n - 1] \o parts[n]
<1> DEFINE L == Len(parts)
           step == [k \in 1..L |-> [s \in Seq(S) |-> s \o parts[k]]]
           F(f) == [n \in 0..L |-> IF n = 0 THEN <<>> ELSE f[n - 1] \o parts[n]]
<1>1. L \in Nat /\ \A k \in 1..L : parts[k] \in Seq(S)
  BY LenProperties, ElementOfSeq
<1>2. \A k \in 1..L, s \in Seq(S) : step[k][s] = s \o parts[k] /\ step[k][s] \in Seq(S)
  BY <1>1, ConcatProperties
<1>3. <<>> \in Seq(S)
  OBVIOUS
<1>4. PICK f \in [0..L -> Seq(S)] : f[0] = <<>> /\ \A k \in 1..L : f[k] = step[k][f[k - 1]]
  <2> DEFINE Q == Seq(S)
             z == <<>>
  <2>1. L \in Nat /\ z \in Q /\ step \in Steps(L, Q)
    BY <1>1, <1>2, <1>3 DEF Steps
  <2> HIDE DEF L, step, Q, z
  <2>2. \E f \in [0..L -> Q] : f[0] = z /\ \A k \in 1..L : f[k] = step[k][f[k - 1]]
    BY <2>1, StepByStep
  <2>3. QED
    BY <2>2 DEF Q, z
<1>5. ASSUME NEW k \in 1..L PROVE f[k] = f[k - 1] \o parts[k]
  <2>1. k - 1 \in 0..L
    BY <1>1
  <2>2. f[k - 1] \in Seq(S)
    BY <2>1
  <2>3. QED
    BY <1>4, <2>2
<1> HIDE DEF L
<1>6. f = F(f)
  <2>1. DOMAIN f = 0..L /\ DOMAIN F(f) = 0..L
    OBVIOUS
  <2>2. ASSUME NEW n \in 0..L PROVE f[n] = F(f)[n]
    <3>1. CASE n = 0
      BY <1>4, <3>1
    <3>2. CASE n # 0
      <4>1. n \in 1..L
        BY <1>1, <3>2
      <4>2. QED
        BY <1>5, <3>2, <4>1
    <3>3. QED
      BY <3>1, <3>2
  <2>3. F(f) = [n \in 0..L |-> F(f)[n]] /\ f = [n \in 0..L |-> f[n]]
    BY <2>1
  <2> DEFINE h == F(f)
  <2> HIDE DEF F
  <2>4. h = [n \in 0..L |-> h[n]] /\ \A n \in 0..L : f[n] = h[n]
    BY <2>2, <2>3
  <2> HIDE DEF h
  <2>5. f = h
    BY <2>3, <2>4, SameFunction
  <2>6. QED
    BY <2>5 DEF h
<1> DEFINE g == CHOOSE g : g = F(g)
<1>7. g = F(g)
  <2> HIDE DEF F
  <2>1. QED
    BY <1>6
<1>8. JoinOf(parts) = g
  BY DEF JoinOf, L
<1> DEFINE T == {n \in Nat : n <= L => g[n] = f[n]}
<1>9. 0 \in T
  <2>1. g[0] = <<>>
    <3>1. 0 \in 0..L
      BY <1>1
    <3> HIDE DEF g
    <3>2. QED
      BY <1>7, <3>1
  <2> HIDE DEF g
  <2>2. QED
    BY <1>4, <2>1
<1> HIDE DEF g
<1>10. ASSUME NEW n \in Nat, n \in T PROVE n + 1 \in T
  <2>1. SUFFICES ASSUME n + 1 <= L PROVE g[n + 1] = f[n + 1]
    OBVIOUS
  <2>2. n + 1 \in 1..L /\ n + 1 \in 0..L /\ n + 1 # 0 /\ (n + 1) - 1 = n /\ n <= L
    BY <1>1, <2>1
  <2>3. g[n + 1] = g[n] \o parts[n + 1]
    <3>1. \A k \in 0..L : k # 0 => g[k] = g[k - 1] \o parts[k]
      BY <1>7
    <3>2. QED
      BY <2>2, <3>1
  <2>4. g[n] = f[n]
    BY <1>10, <2>2
  <2>5. QED
    BY <1>5, <2>2, <2>3, <2>4
<1>11. \A n \in Nat : n \in T
  <2> HIDE DEF T
  <2>1. QED
    BY <1>9, <1>10, SetInduction
<1>12. g = f
  <2>1. DOMAIN g = 0..L /\ DOMAIN f = 0..L
    BY <1>7
  <2>2. \A n \in 0..L : g[n] = f[n]
    BY <1>1, <1>11
  <2>3. g = [n \in 0..L |-> g[n]] /\ f = [n \in 0..L |-> f[n]]
    BY <1>7, <2>1
  <2>4. QED
    BY <2>2, <2>3, SameFunction
<1>13. QED
  BY <1>4, <1>5, <1>8, <1>12 DEF L

(* FlattenSeq joins all of them. *)
LEMMA Flattened ==
    ASSUME NEW S, NEW parts \in Seq(Seq(S))
    PROVE  FlattenSeq(parts) = JoinOf(parts)[Len(parts)]
<1> DEFINE L == Len(parts)
           J == JoinOf(parts)
<1>1. /\ L \in Nat /\ \A k \in 1..L : parts[k] \in Seq(S)
      /\ J \in [0..L -> Seq(S)] /\ J[0] = <<>>
      /\ \A n \in 1..L : J[n] = J[n - 1] \o parts[n]
  BY LenProperties, ElementOfSeq, JoinedBy
<1>2. CASE L = 0
  <2>1. parts = <<>>
    BY <1>2, EmptySeq
  <2>2. QED
    BY <1>1, <1>2, <2>1 DEF FlattenSeq
<1>3. CASE L # 0
  <2> DEFINE F(f) == [i \in 1..L |-> IF i = 1 THEN parts[i] ELSE f[i - 1] \o parts[i]]
             h == [i \in 1..L |-> J[i]]
             g == CHOOSE g : g = F(g)
  <2> HIDE DEF J
  <2>1. \A i \in 1..L : h[i] = IF i = 1 THEN parts[i] ELSE h[i - 1] \o parts[i]
    <3>1. 1 \in 1..L /\ J[1] = J[0] \o parts[1] /\ parts[1] \in Seq(S)
      <4>1. 1 \in 1..L /\ 1 - 1 = 0
        BY <1>1, <1>3
      <4>2. QED
        BY <1>1, <4>1
    <3>2. J[1] = parts[1]
      BY <1>1, <3>1, ConcatEmptySeq
    <3>3. \A i \in 1..L : i # 1 => i - 1 \in 1..L
      BY <1>1
    <3>4. QED
      BY <1>1, <3>2, <3>3
  <2> HIDE DEF L
  <2>2. h = F(h)
    BY <2>1
  <2>3. g = F(g)
    <3> HIDE DEF F, h
    <3>1. QED
      BY <2>2
  <2> DEFINE T == {n \in Nat : n + 1 <= L => g[n + 1] = h[n + 1]}
  <2>4. 1 \in 1..L
    BY <1>1, <1>3
  <2>5. \A i \in 1..L : g[i] = IF i = 1 THEN parts[i] ELSE g[i - 1] \o parts[i]
    <3> HIDE DEF g, h
    <3>1. QED
      BY <2>3
  <2> HIDE DEF g, h
  <2>6. 0 \in T
    BY <2>1, <2>4, <2>5
  <2>7. ASSUME NEW n \in Nat, n \in T PROVE n + 1 \in T
    <3>1. SUFFICES ASSUME n + 1 + 1 <= L PROVE g[n + 1 + 1] = h[n + 1 + 1]
      OBVIOUS
    <3>2. n + 1 + 1 \in 1..L /\ n + 1 + 1 # 1 /\ (n + 1 + 1) - 1 = n + 1 /\ n + 1 <= L
      BY <1>1, <3>1
    <3>3. g[n + 1] = h[n + 1]
      BY <2>7, <3>2
    <3>4. QED
      BY <2>1, <2>5, <3>2, <3>3
  <2>8. \A n \in Nat : n \in T
    <3> HIDE DEF T
    <3>1. QED
      BY <2>6, <2>7, SetInduction
  <2>9. g[L] = h[L]
    <3>1. L - 1 \in Nat /\ (L - 1) + 1 = L
      BY <1>1, <1>3
    <3>2. (L - 1) + 1 <= L => g[(L - 1) + 1] = h[(L - 1) + 1]
      BY <2>8, <3>1
    <3>3. L <= L
      BY <1>1
    <3>4. QED
      BY <3>1, <3>2, <3>3
  <2>10. FlattenSeq(parts) = g[L]
    BY <1>3 DEF FlattenSeq, g, L
  <2>11. L \in 1..L
    BY <1>1, <1>3
  <2>12. h[L] = J[L]
    BY <2>11 DEF h
  <2>13. QED
    BY <2>9, <2>10, <2>12 DEF L, J
<1>4. QED
  BY <1>2, <1>3

(* FlattenSeq joins sequences over a set to a sequence over it. *)
LEMMA FlattenTyped ==
    ASSUME NEW S, NEW parts \in Seq(Seq(S))
    PROVE  FlattenSeq(parts) \in Seq(S)
<1>1. Len(parts) \in Nat
  BY LenProperties
<1>2. Len(parts) \in 0..Len(parts)
  BY <1>1
<1>3. FlattenSeq(parts) = JoinOf(parts)[Len(parts)]
  BY Flattened
<1>4. JoinOf(parts) \in [0..Len(parts) -> Seq(S)]
  BY JoinedBy
<1> DEFINE J == JoinOf(parts)
           L == Len(parts)
<1> HIDE DEF J, L
<1>5. J[L] \in Seq(S)
  BY <1>2, <1>4 DEF J, L
<1>6. QED
  BY <1>3, <1>5 DEF J, L

(* The lengths of what was joined so far: where each part begins. *)
PartAdded(S, parts, n) ==
    LET before == JoinOf(parts)[n - 1]
        after  == JoinOf(parts)[n]
    IN  /\ n - 1 \in 0..Len(parts) /\ n \in 0..Len(parts)
        /\ parts[n] \in Seq(S) /\ Len(parts[n]) \in Nat
        /\ before \in Seq(S) /\ Len(before) \in Nat
        /\ after \in Seq(S) /\ Len(after) \in Nat
        /\ Len(after) = Len(before) + Len(parts[n])
        /\ \A p \in 1..Len(before) : after[p] = before[p]
        /\ \A p \in 1..Len(parts[n]) : after[Len(before) + p] = parts[n][p]

(* Each part is added behind those that were joined before. *)
LEMMA JoinedLen ==
    ASSUME NEW S, NEW parts \in Seq(Seq(S)), NEW n \in 1..Len(parts)
    PROVE  PartAdded(S, parts, n)
<1> DEFINE J == JoinOf(parts)
<1>1. /\ Len(parts) \in Nat /\ J \in [0..Len(parts) -> Seq(S)] /\ J[n] = J[n - 1] \o parts[n]
  BY LenProperties, JoinedBy
<1>2. n - 1 \in 0..Len(parts) /\ n \in 0..Len(parts)
  BY <1>1
<1> HIDE DEF J
<1>3. parts[n] \in Seq(S) /\ J[n - 1] \in Seq(S) /\ J[n] \in Seq(S)
  BY <1>1, <1>2, ElementOfSeq
<1> DEFINE a == J[n - 1]
           b == parts[n]
<1> HIDE DEF a, b
<1>4. a \in Seq(S) /\ b \in Seq(S) /\ Len(a) \in Nat /\ Len(b) \in Nat
  BY <1>3, LenProperties DEF a, b
<1>5. /\ Len(a \o b) = Len(a) + Len(b)
      /\ \A i \in 1..Len(a) + Len(b) : (a \o b)[i] = IF i <= Len(a) THEN a[i] ELSE b[i - Len(a)]
  BY <1>4, ConcatProperties
<1>6. \A p \in 1..Len(a) : (a \o b)[p] = a[p]
  BY <1>4, <1>5
<1>7. \A p \in 1..Len(b) : (a \o b)[Len(a) + p] = b[p]
  <2>1. ASSUME NEW p \in 1..Len(b)
        PROVE  Len(a) + p \in 1..Len(a) + Len(b) /\ ~(Len(a) + p <= Len(a)) /\ (Len(a) + p) - Len(a) = p
    BY <1>4
  <2>2. QED
    BY <1>5, <2>1
<1>8. J[n] = a \o b
  BY <1>1 DEF a, b
<1>9. Len(J[n]) \in Nat /\ Len(J[n - 1]) \in Nat /\ Len(parts[n]) \in Nat
  BY <1>3, LenProperties
<1>10. QED
  BY <1>2, <1>3, <1>5, <1>6, <1>7, <1>8, <1>9 DEF a, b, J, PartAdded

(* What was joined before begins what is joined after. *)
LEMMA JoinedGrows ==
    ASSUME NEW S, NEW parts \in Seq(Seq(S)), NEW m \in 0..Len(parts), NEW n \in m..Len(parts)
    PROVE  /\ JoinOf(parts)[m] \in Seq(S) /\ JoinOf(parts)[n] \in Seq(S)
           /\ Len(JoinOf(parts)[m]) \in Nat /\ Len(JoinOf(parts)[n]) \in Nat
           /\ Len(JoinOf(parts)[m]) <= Len(JoinOf(parts)[n])
           /\ \A p \in 1..Len(JoinOf(parts)[m]) : JoinOf(parts)[n][p] = JoinOf(parts)[m][p]
<1>0. \A j \in 1..Len(parts) : PartAdded(S, parts, j)
  BY JoinedLen
<1> DEFINE J == JoinOf(parts)
           L == Len(parts)
           Begins(a, b) == Len(a) <= Len(b) /\ \A p \in 1..Len(a) : b[p] = a[p]
           T == {k \in Nat : m + k <= L => Begins(J[m], J[m + k])}
<1>1. L \in Nat /\ m \in Nat /\ n \in Nat /\ J \in [0..L -> Seq(S)]
  <2>1. L \in Nat
    BY LenProperties
  <2>2. m \in Nat /\ n \in Nat
    BY <2>1
  <2>3. J \in [0..L -> Seq(S)]
    BY JoinedBy
  <2>4. QED
    BY <2>1, <2>2, <2>3
<1>2. \A k \in 0..L : J[k] \in Seq(S) /\ Len(J[k]) \in Nat
  BY <1>1, LenProperties
<1> HIDE DEF J, L, Begins
<1>3. 0 \in T
  <2>1. m + 0 = m /\ m \in 0..L
    BY <1>1 DEF L
  <2>2. Begins(J[m], J[m])
    BY <1>2, <2>1 DEF Begins
  <2>3. QED
    BY <2>1, <2>2
<1>4. ASSUME NEW k \in Nat, k \in T PROVE k + 1 \in T
  <2>1. SUFFICES ASSUME m + (k + 1) <= L PROVE Begins(J[m], J[m + (k + 1)])
    OBVIOUS
  <2> DEFINE i == m + (k + 1)
  <2>2. i \in 1..L /\ i - 1 = m + k /\ m + k <= L /\ m + k \in 0..L /\ m \in 0..L /\ i \in 0..L
    BY <1>1, <2>1 DEF L
  <2> HIDE DEF i
  <2>3. Begins(J[m], J[i - 1])
    BY <1>4, <2>2
  <2>4. /\ Len(J[i]) = Len(J[i - 1]) + Len(parts[i]) /\ Len(parts[i]) \in Nat
        /\ \A p \in 1..Len(J[i - 1]) : J[i][p] = J[i - 1][p]
    BY <1>0, <2>2 DEF L, J, PartAdded
  <2>5. Len(J[m]) \in Nat /\ Len(J[i - 1]) \in Nat
    BY <1>2, <2>2
  <2>6. \A p \in 1..Len(J[m]) : p \in 1..Len(J[i - 1])
    BY <2>3, <2>5 DEF Begins
  <2>7. Len(J[m]) <= Len(J[i])
    <3>1. \A x, y, z, w \in Nat : x <= y /\ w = y + z => x <= w
      OBVIOUS
    <3>2. Len(J[i]) \in Nat
      BY <1>2, <2>2
    <3>3. QED
      BY <2>3, <2>4, <2>5, <3>1, <3>2 DEF Begins
  <2>8. QED
    BY <2>3, <2>4, <2>6, <2>7 DEF i, Begins
<1>5. n - m \in Nat /\ m + (n - m) = n /\ n <= L /\ m \in 0..L /\ n \in 0..L
  BY <1>1 DEF L
<1>6. n - m \in T
  <2> HIDE DEF T
  <2>1. QED
    BY <1>3, <1>4, <1>5, SetInduction
<1>7. Begins(J[m], J[n])
  BY <1>5, <1>6
<1>8. QED
  BY <1>2, <1>5, <1>7 DEF J, Begins

(* Every part lies in the whole of FlattenSeq. *)
LEMMA PartWithin ==
    ASSUME NEW S, NEW parts \in Seq(Seq(S)), NEW n \in 1..Len(parts)
    PROVE  LiesAt(parts[n], Len(JoinOf(parts)[n - 1]), FlattenSeq(parts))
<1> DEFINE J == JoinOf(parts)
           L == Len(parts)
<1>1. L \in Nat /\ L \in 0..L /\ n \in 0..L /\ L \in n..L
  BY LenProperties
<1>2. FlattenSeq(parts) = J[L]
  BY Flattened
<1>3. /\ J[n - 1] \in Seq(S) /\ Len(J[n - 1]) \in Nat
      /\ parts[n] \in Seq(S) /\ Len(parts[n]) \in Nat
      /\ Len(J[n]) = Len(J[n - 1]) + Len(parts[n])
      /\ \A p \in 1..Len(parts[n]) : J[n][Len(J[n - 1]) + p] = parts[n][p]
  BY JoinedLen DEF PartAdded
<1>4. /\ J[n] \in Seq(S) /\ J[L] \in Seq(S) /\ Len(J[n]) \in Nat /\ Len(J[L]) \in Nat
      /\ Len(J[n]) <= Len(J[L])
      /\ \A p \in 1..Len(J[n]) : J[L][p] = J[n][p]
  BY <1>1, JoinedGrows
<1> HIDE DEF J, L
<1>5. ASSUME NEW p \in 1..Len(parts[n])
      PROVE  J[L][Len(J[n - 1]) + p] = parts[n][p]
  <2>1. Len(J[n - 1]) + p \in 1..Len(J[n])
    <3>1. \A x, y : x \in Nat /\ y \in Nat => \A q \in 1..y : x + q \in 1..(x + y)
      OBVIOUS
    <3>2. QED
      BY <1>3, <3>1
  <2>2. QED
    BY <1>3, <1>4, <2>1
<1>6. QED
  <2>1. Len(J[n - 1]) + Len(parts[n]) <= Len(J[L])
    BY <1>3, <1>4
  <2>2. QED
    BY <1>2, <1>3, <1>4, <1>5, <2>1 DEF J, LiesAt
=============================================================================
