--------------------------- MODULE SequenceLemmas ---------------------------
(***************************************************************************)
(* Lemmas about the data of the specifications, whatever the program:      *)
(* induction over the naturals and functions defined by recursion,         *)
(* flattened sequences, and the sorted arrangements of a finite set.  They *)
(* are first-order: sets stand where an induction theorem would take a     *)
(* predicate as its parameter, and functions where it would take an        *)
(* operator.                                                               *)
(***************************************************************************)
EXTENDS SequencesExt, SequenceTheorems, FiniteSetTheorems, TLAPS

(* A nonempty set of naturals has a least element.                         *)
LEMMA LeastElement ==
  ASSUME NEW T, T \subseteq Nat, T # {}
  PROVE  \E x \in T : \A y \in T : ~ (y < x)
<1> DEFINE R == {ss \in Nat \X Nat : ss[1] < ss[2]}
<1>1. IsWellFoundedOn(R, Nat)
  BY NatLessThanWellFounded DEF OpToRel
<1>2. \A x, y \in Nat : x < y => <<x, y>> \in R
  OBVIOUS
<1> HIDE DEF R
<1>3. \E x \in T : \A y \in T : ~ (<<y, x>> \in R)
  BY <1>1, WFMin
<1> QED
  BY <1>2, <1>3

(* Induction: a set with 0 and the successors of its elements has them all. *)
LEMMA NatSetInduction ==
  ASSUME NEW T, 0 \in T, \A n \in Nat : n \in T => n+1 \in T
  PROVE  Nat \subseteq T
<1> DEFINE U == Nat \ T
<1> SUFFICES ASSUME U # {} PROVE FALSE
  OBVIOUS
<1>1. PICK x \in U : \A y \in U : ~ (y < x)
  <2> U \subseteq Nat OBVIOUS
  <2> HIDE DEF U
  <2> QED BY LeastElement
<1>2. x # 0 /\ x \in Nat OBVIOUS
<1>3. x-1 \in Nat /\ x-1 < x /\ (x-1)+1 = x BY <1>2
<1>4. x-1 \in T BY <1>1, <1>3
<1> QED BY <1>4, <1>3

IsDefinedBy(g, S, b, F) ==
  /\ g \in [Nat -> S]
  /\ g[0] = b
  /\ \A n \in Nat : g[n+1] = F[<<n, g[n]>>]

(* A function on the naturals may be defined by its value at 0 and by a     *)
(* step.                                                                   *)
LEMMA Recursion ==
  ASSUME NEW S, NEW b \in S, NEW F \in [Nat \X S -> S]
  PROVE  \E g : IsDefinedBy(g, S, b, F)
<1> DEFINE Upto(n, g) == /\ g \in [0..n -> S]
                         /\ g[0] = b
                         /\ \A i \in 0..n-1 : g[i+1] = F[<<i, g[i]>>]
           E == {n \in Nat : \E g : Upto(n, g)}
<1>1. Nat \subseteq E
  <2>1. 0 \in E
    <3>1. Upto(0, [i \in 0..0 |-> b]) OBVIOUS
    <3> QED BY <3>1
  <2>2. \A n \in Nat : n \in E => n+1 \in E
    <3> SUFFICES ASSUME NEW n \in Nat, NEW g, Upto(n, g) PROVE \E h : Upto(n+1, h)
      OBVIOUS
    <3> DEFINE h == [i \in 0..n+1 |-> IF i = n+1 THEN F[<<n, g[n]>>] ELSE g[i]]
    <3>0. g[n] \in S OBVIOUS
    <3>1. F[<<n, g[n]>>] \in S BY <3>0
    <3>2. h \in [0..n+1 -> S] BY <3>1
    <3>3. \A i \in 0..n : h[i] = g[i] OBVIOUS
    <3>5. h[n+1] = F[<<n, g[n]>>] OBVIOUS
    <3>6. h[n] = g[n] BY <3>3
    <3>4. h[n+1] = F[<<n, h[n]>>] BY ONLY <3>5, <3>6
    <3>7. \A i \in 0..(n+1)-1 : h[i+1] = F[<<i, h[i]>>]
      <4> TAKE i \in 0..(n+1)-1
      <4>1. CASE i = n BY <4>1, <3>4
      <4>2. CASE i \in 0..n-1 BY <4>2
      <4> QED BY <4>1, <4>2
    <3> HIDE DEF h
    <3> QED BY <3>2, <3>3, <3>7
  <2> HIDE DEF E
  <2> QED BY <2>1, <2>2, NatSetInduction
<1>2. ASSUME NEW m \in Nat, NEW n \in Nat, NEW g, NEW h, Upto(m, g), Upto(n, h)
      PROVE  \A i \in Nat : i <= m /\ i <= n => g[i] = h[i]
  <2> DEFINE A == {i \in Nat : i <= m /\ i <= n => g[i] = h[i]}
  <2>1. 0 \in A BY <1>2
  <2>2. \A i \in Nat : i \in A => i+1 \in A
    <3> SUFFICES ASSUME NEW i \in Nat, i \in A, i+1 <= m, i+1 <= n PROVE g[i+1] = h[i+1]
      OBVIOUS
    <3>1. g[i] = h[i] /\ i \in 0..m-1 /\ i \in 0..n-1 OBVIOUS
    <3> QED BY <1>2, <3>1
  <2> HIDE DEF A
  <2>3. Nat \subseteq A BY <2>1, <2>2, NatSetInduction
  <2> QED BY <2>3 DEF A
<1> DEFINE H == [n \in Nat |-> CHOOSE g : Upto(n, g)]
<1>3. \A n \in Nat : Upto(n, H[n])
  <2> TAKE n \in Nat
  <2>1. \E g : Upto(n, g) BY <1>1
  <2> HIDE DEF Upto
  <2> QED BY <2>1
<1> DEFINE g == [n \in Nat |-> H[n][n]]
<1> HIDE DEF H
<1>4. g \in [Nat -> S] BY <1>3
<1>5. g[0] = b BY <1>3
<1>6. ASSUME NEW n \in Nat PROVE g[n+1] = F[<<n, g[n]>>]
  <2> HIDE DEF Upto
  <2>3. Upto(n+1, H[n+1]) /\ Upto(n, H[n]) /\ n+1 \in Nat /\ n <= n+1 /\ n <= n
    BY <1>3
  <2>1. H[n+1][n] = H[n][n] BY ONLY <1>2, <2>3, n \in Nat
  <2>2. H[n+1][n+1] = F[<<n, H[n+1][n]>>] 
    <3>1. n \in 0..(n+1)-1 OBVIOUS
    <3> QED BY <1>3, <3>1 DEF Upto
  <2> QED BY <2>1, <2>2
<1> HIDE DEF g
<1> QED BY <1>4, <1>5, <1>6 DEF IsDefinedBy

(* The same up to a bound.                                                 *)
LEMMA BoundedInduction ==
  ASSUME NEW n \in Nat, NEW T, 0 \in T, \A i \in 0..n-1 : i \in T => i+1 \in T
  PROVE  0..n \subseteq T
<1> DEFINE U == {i \in Nat : i <= n => i \in T}
<1>1. 0 \in U
  OBVIOUS
<1>2. \A i \in Nat : i \in U => i+1 \in U
  OBVIOUS
<1> HIDE DEF U
<1>3. Nat \subseteq U
  BY <1>1, <1>2, NatSetInduction
<1> QED
  BY <1>3 DEF U

-----------------------------------------------------------------------------
(* Where the blocks of a flattened sequence start: block i has length      *)
(* len[i] and lies behind off[i] elements.                                 *)
IsOffsets(off, len, n) ==
  /\ off \in [1..n+1 -> Nat]
  /\ off[1] = 0
  /\ \A i \in 1..n : off[i+1] = off[i] + len[i]

(* There are such offsets for any lengths.                                 *)
LEMMA OffsetsExist ==
  ASSUME NEW n \in Nat, NEW len \in [1..n -> Nat]
  PROVE  \E off : IsOffsets(off, len, n)
<1> DEFINE F == [x \in Nat \X Nat |-> IF x[1] + 1 <= n THEN x[2] + len[x[1] + 1] ELSE x[2]]
<1>1. F \in [Nat \X Nat -> Nat]
  OBVIOUS
<1>2. \A i, m \in Nat : i + 1 <= n => F[<<i, m>>] = m + len[i+1]
  OBVIOUS
<1> HIDE DEF F
<1>3. PICK g : IsDefinedBy(g, Nat, 0, F)
  BY <1>1, Recursion
<1> DEFINE off == [i \in 1..n+1 |-> g[i-1]]
<1>4. off \in [1..n+1 -> Nat] /\ off[1] = 0
  <2>1. g \in [Nat -> Nat] /\ g[0] = 0
    BY <1>3 DEF IsDefinedBy
  <2>2. 1 \in 1..n+1 /\ 1-1 = 0 /\ \A i \in 1..n+1 : i-1 \in Nat
    OBVIOUS
  <2> QED
    BY <2>1, <2>2
<1>5. ASSUME NEW i \in 1..n PROVE off[i+1] = off[i] + len[i]
  <2>1. off[i+1] = g[i] /\ off[i] = g[i-1]
    OBVIOUS
  <2>2. i-1 \in Nat /\ (i-1)+1 = i /\ g[i-1] \in Nat
    <3>1. i-1 \in Nat /\ (i-1)+1 = i
      OBVIOUS
    <3>2. g \in [Nat -> Nat]
      BY <1>3 DEF IsDefinedBy
    <3> QED
      BY <3>1, <3>2
  <2>3. g[i] = F[<<i-1, g[i-1]>>]
    BY <1>3, <2>2 DEF IsDefinedBy
  <2>4. F[<<i-1, g[i-1]>>] = g[i-1] + len[i]
    BY <1>2, <2>2
  <2> QED
    BY <2>1, <2>3, <2>4
<1> HIDE DEF off
<1> QED
  BY <1>4, <1>5 DEF IsOffsets

(* A block ends before the later ones start.                               *)
LEMMA OffsetsOrdered ==
  ASSUME NEW n \in Nat, NEW len \in [1..n -> Nat], NEW off, IsOffsets(off, len, n),
         NEW i \in 1..n, NEW k \in i+1..n+1
  PROVE  off[i] + len[i] <= off[k]
<1> DEFINE T == {m \in Nat : i + 1 + m <= n + 1 => off[i] + len[i] <= off[i+1+m]}
<1>1. 0 \in T
  BY DEF IsOffsets
<1>2. \A m \in Nat : m \in T => m+1 \in T
  <2> SUFFICES ASSUME NEW m \in Nat, m \in T, i+1+m+1 <= n+1
               PROVE  off[i] + len[i] <= off[i+1+m+1]
    OBVIOUS
  <2>1. i+1+m \in 1..n
    OBVIOUS
  <2>2. off[i+1+m+1] = off[i+1+m] + len[i+1+m]
    BY <2>1 DEF IsOffsets
  <2>3. off[i] \in Nat /\ len[i] \in Nat /\ off[i+1+m] \in Nat /\ len[i+1+m] \in Nat
    BY <2>1 DEF IsOffsets
  <2> QED
    BY <2>2, <2>3
<1> HIDE DEF T
<1>3. Nat \subseteq T
  BY <1>1, <1>2, NatSetInduction
<1>4. k-i-1 \in Nat /\ i+1+(k-i-1) = k
  OBVIOUS
<1>5. i+1+(k-i-1) <= n+1
  BY <1>4
<1>6. off[i] + len[i] <= off[i+1+(k-i-1)]
  BY <1>3, <1>4, <1>5 DEF T
<1> QED
  BY <1>4, <1>6

(* Every place of the whole belongs to a block.                            *)
LEMMA OffsetsCover ==
  ASSUME NEW n \in Nat, NEW len \in [1..n -> Nat], NEW off, IsOffsets(off, len, n),
         NEW m \in 1..off[n+1]
  PROVE  \E i \in 1..n : \E a \in 1..len[i] : m = off[i] + a
<1> DEFINE T == {k \in Nat : k <= n /\ m <= off[k+1] =>
                    \E i \in 1..n : \E a \in 1..len[i] : m = off[i] + a}
<1>1. 0 \in T
  BY DEF IsOffsets
<1>2. \A k \in Nat : k \in T => k+1 \in T
  <2> SUFFICES ASSUME NEW k \in Nat, k \in T, k+1 <= n, m <= off[k+1+1]
               PROVE  \E i \in 1..n : \E a \in 1..len[i] : m = off[i] + a
    OBVIOUS
  <2>1. k+1 \in 1..n /\ off[k+1] \in Nat /\ len[k+1] \in Nat
    <3>1. k+1 \in 1..n /\ k+1 \in 1..n+1
      OBVIOUS
    <3>2. off \in [1..n+1 -> Nat]
      BY DEF IsOffsets
    <3> QED
      BY <3>1, <3>2
  <2>2. off[k+1+1] = off[k+1] + len[k+1]
    BY <2>1 DEF IsOffsets
  <2>3. CASE m <= off[k+1]
    BY <2>3
  <2>4. CASE m > off[k+1]
    <3>1. m \in Nat
      BY DEF IsOffsets
    <3>2. m - off[k+1] \in 1..len[k+1] /\ m = off[k+1] + (m - off[k+1])
      <4>1. \A x, y, z \in Nat : y < x /\ x <= y + z => x - y \in 1..z /\ x = y + (x - y)
        OBVIOUS
      <4> QED
        BY <3>1, <2>1, <2>2, <2>4, <4>1
    <3> QED
      BY <2>1, <3>2
  <2> QED
    BY <2>1, <2>3, <2>4 DEF IsOffsets
<1> HIDE DEF T
<1>3. Nat \subseteq T
  BY <1>1, <1>2, NatSetInduction
<1> QED
  BY <1>3 DEF T, IsOffsets

-----------------------------------------------------------------------------
(* The loop of FlattenSeq is defined for every place.                      *)
LEMMA FlattenLoop ==
  ASSUME NEW T, NEW seqs \in Seq(Seq(T)), Len(seqs) # 0
  PROVE  \E f : /\ f \in [1..Len(seqs) -> Seq(T)]
                /\ f[1] = seqs[1]
                /\ \A i \in 1..Len(seqs)-1 : f[i+1] = f[i] \o seqs[i+1]
                /\ FlattenSeq(seqs) = f[Len(seqs)]
<1> DEFINE S == Seq(T)
           L == Len(seqs)
           F == [x \in Nat \X S |-> IF x[1] + 2 <= L THEN x[2] \o seqs[x[1] + 2] ELSE x[2]]
           IsLoop(f) == f = [i \in 1..L |-> IF i = 1 THEN seqs[i] ELSE f[i-1] \o seqs[i]]
<1>1. L \in Nat \ {0} /\ \A i \in 1..L : seqs[i] \in S
  OBVIOUS
<1>2. F \in [Nat \X S -> S]
  <2>1. \A x \in Nat \X S : x[1] + 2 <= L => x[2] \o seqs[x[1] + 2] \in S
    <3> SUFFICES ASSUME NEW k \in Nat, NEW s \in S, k + 2 <= L
                 PROVE  s \o seqs[k+2] \in S
      OBVIOUS
    <3>1. k + 2 \in 1..L
      BY <1>1
    <3> QED
      BY <1>1, <3>1, ConcatProperties
  <2> HIDE DEF S, L
  <2> QED
    BY <2>1
<1>3. \A k \in Nat, s \in S : k + 2 <= L => F[<<k, s>>] = s \o seqs[k+2]
  OBVIOUS
<1>4. seqs[1] \in S
  BY <1>1
<1> HIDE DEF F, S, L
<1>5. PICK g : IsDefinedBy(g, S, seqs[1], F)
  BY <1>2, <1>4, Recursion
<1> DEFINE f == [i \in 1..L |-> g[i-1]]
<1>6. f \in [1..L -> S]
  BY <1>5 DEF IsDefinedBy
<1>7. 1 \in 1..L /\ f[1] = seqs[1]
  BY <1>1, <1>5 DEF IsDefinedBy
<1>8. ASSUME NEW i \in 1..L, i # 1 PROVE f[i] = f[i-1] \o seqs[i]
  <2>1. i-2 \in Nat /\ (i-2)+1 = i-1 /\ (i-2)+2 = i /\ i <= L /\ i-1 \in 1..L
    BY <1>1, <1>8
  <2>2. g[i-1] = F[<<i-2, g[i-2]>>] /\ g[i-2] \in S
    BY <1>5, <2>1 DEF IsDefinedBy
  <2>3. F[<<i-2, g[i-2]>>] = g[i-2] \o seqs[i]
    BY <1>3, <2>1, <2>2
  <2>4. f[i] = g[i-1] /\ f[i-1] = g[i-2]
    BY <2>1
  <2> QED
    BY <2>2, <2>3, <2>4
<1>9. IsLoop(f)
  <2>1. \A i \in 1..L : f[i] = IF i = 1 THEN seqs[i] ELSE f[i-1] \o seqs[i]
    BY <1>7, <1>8
  <2>2. f = [i \in 1..L |-> f[i]]
    OBVIOUS
  <2> HIDE DEF f
  <2> QED
    BY <2>1, <2>2
<1> DEFINE h == CHOOSE h : IsLoop(h)
<1>10. IsLoop(h)
  <2> HIDE DEF f, IsLoop
  <2> QED
    BY <1>9
<1>11. FlattenSeq(seqs) = h[L]
  BY <1>1 DEF FlattenSeq, L
<1> HIDE DEF h, f
<1>12. \A i \in 1..L : h[i] = f[i]
  <2> DEFINE U == {i \in Nat : i + 1 <= L => h[i+1] = f[i+1]}
  <2>1. \A i \in 1..L : h[i] = IF i = 1 THEN seqs[i] ELSE h[i-1] \o seqs[i]
    BY <1>10
  <2>2. 0 \in U
    BY <2>1, <1>7
  <2>3. \A i \in Nat : i \in U => i+1 \in U
    <3> SUFFICES ASSUME NEW i \in Nat, h[i+1] = f[i+1], i+2 <= L
                 PROVE  h[i+2] = f[i+2]
      BY <1>1
    <3>1. i+2 \in 1..L /\ i+2 # 1 /\ (i+2)-1 = i+1
      BY <1>1
    <3>2. h[i+2] = h[i+1] \o seqs[i+2]
      BY <2>1, <3>1
    <3>3. f[i+2] = f[i+1] \o seqs[i+2]
      BY <1>8, <3>1
    <3> QED
      BY <3>2, <3>3
  <2> HIDE DEF U
  <2>4. Nat \subseteq U
    BY <2>2, <2>3, NatSetInduction
  <2>5. \A i \in 1..L : i-1 \in Nat /\ (i-1)+1 = i /\ (i-1)+1 <= L
    BY <1>1
  <2> QED
    BY <2>4, <2>5 DEF U
<1>13. \A i \in 1..L-1 : f[i+1] = f[i] \o seqs[i+1]
  <2> TAKE i \in 1..L-1
  <2>1. i+1 \in 1..L /\ i+1 # 1 /\ (i+1)-1 = i
    BY <1>1
  <2> QED
    BY <1>8, <2>1
<1>14. FlattenSeq(seqs) = f[L]
  BY <1>1, <1>11, <1>12
<1> QED
  BY <1>6, <1>7, <1>13, <1>14 DEF L, S

(* Two blocks.                                                             *)
LEMMA ConcatBlocks ==
  ASSUME NEW T, NEW s \in Seq(T), NEW t \in Seq(T)
  PROVE  /\ s \o t \in Seq(T)
         /\ Len(s \o t) = Len(s) + Len(t)
         /\ \A m \in 1..Len(s) : (s \o t)[m] = s[m]
         /\ \A a \in 1..Len(t) : (s \o t)[Len(s) + a] = t[a]
<1>1. Len(s) \in Nat /\ Len(t) \in Nat
  BY LenProperties
<1>2. /\ s \o t \in Seq(T)
      /\ Len(s \o t) = Len(s) + Len(t)
      /\ \A i \in 1 .. Len(s) + Len(t) : (s \o t)[i] =
           IF i <= Len(s) THEN s[i] ELSE t[i - Len(s)]
  BY ConcatProperties
<1>3. \A m \in 1..Len(s) : m \in 1 .. Len(s) + Len(t) /\ m <= Len(s)
  BY <1>1
<1>4. \A a \in 1..Len(t) : /\ Len(s) + a \in 1 .. Len(s) + Len(t)
                           /\ ~ (Len(s) + a <= Len(s))
                           /\ (Len(s) + a) - Len(s) = a
  BY <1>1
<1> QED
  BY <1>2, <1>3, <1>4

(* flat holds the blocks of seqs, each from the offset off gives it.       *)
Lengths(seqs) == [i \in 1..Len(seqs) |-> Len(seqs[i])]

IsFlattening(flat, T, seqs, off) ==
  /\ flat \in Seq(T)
  /\ Len(flat) = off[Len(seqs) + 1]
  /\ \A i \in 1..Len(seqs) : \A a \in 1..Len(seqs[i]) : flat[off[i] + a] = seqs[i][a]

(* A flattened sequence is its blocks, one after the other.                *)
LEMMA FlattenProperties ==
  ASSUME NEW T, NEW seqs \in Seq(Seq(T)), NEW off,
         IsOffsets(off, Lengths(seqs), Len(seqs))
  PROVE  IsFlattening(FlattenSeq(seqs), T, seqs, off)
<1> SUFFICES /\ FlattenSeq(seqs) \in Seq(T)
             /\ Len(FlattenSeq(seqs)) = off[Len(seqs) + 1]
             /\ \A i \in 1..Len(seqs) : \A a \in 1..Len(seqs[i]) :
                  FlattenSeq(seqs)[off[i] + a] = seqs[i][a]
  BY DEF IsFlattening
<1> DEFINE L == Len(seqs)
           len == [i \in 1..L |-> Len(seqs[i])]
<1>1. L \in Nat /\ \A i \in 1..L : seqs[i] \in Seq(T)
  OBVIOUS
<1>2. len \in [1..L -> Nat]
  BY <1>1, LenProperties
<1>3. IsOffsets(off, len, L) /\ off \in [1..L+1 -> Nat] /\ off[1] = 0
  BY DEF IsOffsets, Lengths
<1>4. CASE L = 0
  BY <1>3, <1>4 DEF FlattenSeq
<1>5. CASE L # 0
  <2>1. PICK f : /\ f \in [1..L -> Seq(T)]
                 /\ f[1] = seqs[1]
                 /\ \A i \in 1..L-1 : f[i+1] = f[i] \o seqs[i+1]
                 /\ FlattenSeq(seqs) = f[L]
    BY <1>5, FlattenLoop
  <2>2. \A i \in 1..L : len[i] = Len(seqs[i])
    OBVIOUS
  <2> HIDE DEF L, len
  <2> DEFINE Holds(i) ==
               /\ Len(f[i]) = off[i+1]
               /\ \A k \in 1..i : \A a \in 1..len[k] : f[i][off[k] + a] = seqs[k][a]
             U == {i \in Nat : i + 1 <= L => Holds(i+1)}
  <2>3. 0 \in U
    <3>1. 1 \in 1..L /\ off[1+1] = off[1] + len[1] /\ len[1] = Len(seqs[1])
      BY <1>1, <1>3, <1>5, <2>2 DEF IsOffsets
    <3>2. Len(seqs[1]) \in Nat
      BY <1>1, <3>1, LenProperties
    <3>3. Holds(1)
      BY <1>3, <3>1, <3>2, <2>1
    <3> HIDE DEF Holds
    <3> QED
      BY <3>3
  <2>4. \A i \in Nat : i \in U => i+1 \in U
    <3>1. SUFFICES ASSUME NEW i \in Nat, i + 2 <= L, Holds(i+1)
                   PROVE  Holds(i+2)
      BY <1>1
    <3>2. PICK n : n = i+1
      OBVIOUS
    <3>3. n \in 1..L-1 /\ n \in 1..L /\ n+1 \in 1..L /\ n+1 = i+2 /\ n+1 \in 1..L+1
      BY <1>1, <3>1, <3>2
    <3>4. PICK s : s = seqs[n+1]
      OBVIOUS
    <3>5. f[n] \in Seq(T) /\ s \in Seq(T) /\ f[n+1] = f[n] \o s
      BY <1>1, <2>1, <3>3, <3>4
    <3>6. off[n+1+1] = off[n+1] + len[n+1] /\ len[n+1] = Len(s) /\ off[n+1] \in Nat
      BY <1>3, <2>2, <3>3, <3>4 DEF IsOffsets
    <3>7. Len(f[n]) = off[n+1]
      BY <3>1, <3>2
    <3>8. /\ Len(f[n+1]) = off[n+1] + Len(s)
          /\ \A m \in 1..off[n+1] : f[n+1][m] = f[n][m]
          /\ \A a \in 1..Len(s) : f[n+1][off[n+1] + a] = s[a]
      <4>1. PICK g : g = f[n]
        OBVIOUS
      <4>2. g \in Seq(T) /\ s \in Seq(T)
        BY <3>5, <4>1
      <4>3. /\ Len(g \o s) = Len(g) + Len(s)
            /\ \A m \in 1..Len(g) : (g \o s)[m] = g[m]
            /\ \A a \in 1..Len(s) : (g \o s)[Len(g) + a] = s[a]
        BY <4>2, ConcatBlocks
      <4> QED
        BY <3>5, <3>7, <4>1, <4>3
    <3>9. ASSUME NEW k \in 1..n, NEW a \in 1..len[k]
          PROVE  f[n+1][off[k] + a] = seqs[k][a]
      <4>1. k \in 1..L /\ off[k] \in Nat /\ len[k] \in Nat /\ n+1 \in k+1..L+1
        BY <3>3, <1>1, <1>2, <1>3
      <4>2. off[k] + len[k] <= off[n+1]
        BY <1>1, <1>2, <1>3, <4>1, OffsetsOrdered
      <4>3. off[k] + a \in 1..off[n+1]
        <5>1. \A x, y, z \in Nat : \A b \in 1..y : x + y <= z => x + b \in 1..z
          OBVIOUS
        <5> QED
          BY <3>6, <4>1, <4>2, <5>1
      <4>4. f[n+1][off[k] + a] = f[n][off[k] + a]
        BY <3>8, <4>3
      <4>5. f[n][off[k] + a] = seqs[k][a]
        BY <3>1, <3>2
      <4> QED
        BY <4>4, <4>5
    <3>10. \A k \in 1..n+1 : k \in 1..n \/ k = n+1
      BY <3>3
    <3>11. Holds(n+1)
      BY <3>4, <3>6, <3>8, <3>9, <3>10
    <3> QED
      BY <3>3, <3>11
  <2> HIDE DEF U
  <2>5. Nat \subseteq U
    BY <2>3, <2>4, NatSetInduction
  <2>6. L-1 \in Nat /\ (L-1)+1 = L /\ L \in 1..L
    BY <1>1, <1>5
  <2>7. \A i \in Nat : i + 1 <= L => Holds(i+1)
    <3> HIDE DEF Holds
    <3> QED
      BY <2>5 DEF U
  <2>8. f[L] \in Seq(T) /\ Holds(L)
    <3>1. (L-1) + 1 <= L
      BY <1>1
    <3> HIDE DEF Holds
    <3>2. Holds((L-1)+1)
      BY <2>6, <2>7, <3>1
    <3>3. Holds(L)
      BY <2>6, <3>2
    <3> QED
      BY <2>1, <2>6, <3>3
  <2>9. f[L] \in Seq(T) /\ Len(f[L]) = off[L+1]
    BY <2>8
  <2>10. \A i \in 1..L : \A a \in 1..Len(seqs[i]) : f[L][off[i] + a] = seqs[i][a]
    BY <2>2, <2>8
  <2> HIDE DEF Holds
  <2> QED
    BY <2>1, <2>9, <2>10 DEF L
<1> QED
  BY <1>4, <1>5

-----------------------------------------------------------------------------
(* A set that finitely many finite sets cover is finite.                   *)
LEMMA FiniteCover ==
  ASSUME NEW S, IsFiniteSet(S), NEW T, NEW f \in [S -> T], \A x \in S : IsFiniteSet(f[x]),
         NEW R, \A r \in R : \E x \in S : r \in f[x]
  PROVE  IsFiniteSet(R)
<1> DEFINE Z == {f[x] : x \in S}
<1>1. f \in Surjection(S, Z)
  BY DEF Surjection
<1>2. IsFiniteSet(Z)
  BY <1>1, FS_Surjection
<1>3. (\A z \in Z : IsFiniteSet(z)) /\ R \subseteq UNION Z
  OBVIOUS
<1> HIDE DEF Z
<1>4. IsFiniteSet(UNION Z)
  BY <1>2, <1>3, FS_UNION
<1> QED
  BY <1>3, <1>4, FS_Subset

(* An arrangement of a finite set has each element at one place.           *)
LEMMA ArrangementProperties ==
  ASSUME NEW R, IsFiniteSet(R), NEW o \in SetToSeqs(R)
  PROVE  /\ Cardinality(R) \in Nat
         /\ o \in [1..Cardinality(R) -> R]
         /\ o \in Seq(R)
         /\ Len(o) = Cardinality(R)
         /\ \A m, n \in 1..Cardinality(R) : o[m] = o[n] => m = n
         /\ \A r \in R : \E n \in 1..Cardinality(R) : o[n] = r
<1> DEFINE c == Cardinality(R)
<1>1. c \in Nat
  BY FS_CardinalityType
<1>2. o \in [1..c -> R] /\ \A m, n \in 1..c : m # n => o[m] # o[n]
  BY DEF SetToSeqs
<1>3. o \in Seq(R) /\ Len(o) = c
  BY <1>1, <1>2
<1>4. IsFiniteSet(1..c) /\ Cardinality(1..c) = c
  BY <1>1, FS_Interval
<1> HIDE DEF c
<1>5. o \in Injection(1..c, R)
  BY <1>2 DEF Injection, IsInjective
<1>6. o \in Surjection(1..c, R)
  BY <1>4, <1>5, FS_Injection DEF c
<1> QED
  BY <1>1, <1>2, <1>3, <1>6 DEF Surjection, c

(* A nonempty finite set has a last element for a total order, which may   *)
(* have ties.                                                              *)
LEMMA LastElement ==
  ASSUME NEW R, IsFiniteSet(R), NEW Le,
         \A x, y \in R : <<x, y>> \in Le \/ <<y, x>> \in Le,
         \A x, y, z \in R : <<x, y>> \in Le /\ <<y, z>> \in Le => <<x, z>> \in Le,
         R # {}
  PROVE  \E x \in R : \A y \in R : <<y, x>> \in Le
<1> DEFINE HasLast(X) == \E x \in X : \A y \in X : <<y, x>> \in Le
           U == {n \in Nat : \A X \in SUBSET R : Cardinality(X) = n + 1 => HasLast(X)}
<1>1. 0 \in U
  <2> SUFFICES ASSUME NEW X \in SUBSET R, Cardinality(X) = 1 PROVE HasLast(X)
    OBVIOUS
  <2>1. \E x : X = {x}
    BY FS_Subset, FS_Singleton
  <2> QED
    BY <2>1
<1>2. \A n \in Nat : n \in U => n+1 \in U
  <2> SUFFICES ASSUME NEW n \in Nat, n \in U,
                      NEW X \in SUBSET R, Cardinality(X) = n+2
               PROVE  HasLast(X)
    OBVIOUS
  <2>1. IsFiniteSet(X)
    BY FS_Subset
  <2>2. PICK x : x \in X
    BY <2>1, FS_EmptySet
  <2>3. Cardinality(X \ {x}) = n+1
    <3>1. Cardinality(X \ {x}) = Cardinality(X) - 1
      BY ONLY <2>1, <2>2, FS_RemoveElement
    <3> QED
      BY <3>1
  <2>4. X \ {x} \in SUBSET R
    OBVIOUS
  <2>5. PICK z \in X \ {x} : \A y \in X \ {x} : <<y, z>> \in Le
    BY <2>3, <2>4
  <2>6. <<x, x>> \in Le /\ x \in R /\ z \in R /\ (<<x, z>> \in Le \/ <<z, x>> \in Le)
    BY <2>2, <2>5
  <2>7. CASE <<x, z>> \in Le
    BY <2>5, <2>7
  <2>8. CASE <<z, x>> \in Le
    BY <2>2, <2>5, <2>6, <2>8
  <2> QED
    BY <2>6, <2>7, <2>8
<1> HIDE DEF U
<1>3. Nat \subseteq U
  BY <1>1, <1>2, NatSetInduction
<1>4. Cardinality(R) \in Nat \ {0}
  BY FS_CardinalityType, FS_EmptySet
<1>5. Cardinality(R) - 1 \in U /\ (Cardinality(R) - 1) + 1 = Cardinality(R)
  BY <1>3, <1>4
<1> QED
  BY <1>5 DEF U

(* A finite set can be sorted.                                             *)
LEMMA SortedArrangement ==
  ASSUME NEW R, IsFiniteSet(R), NEW Le,
         \A x, y \in R : <<x, y>> \in Le \/ <<y, x>> \in Le,
         \A x, y, z \in R : <<x, y>> \in Le /\ <<y, z>> \in Le => <<x, z>> \in Le
  PROVE  \E o \in SetToSeqs(R) :
           \A m, n \in 1..Cardinality(R) : m < n => <<o[m], o[n]>> \in Le
<1> DEFINE Sorted(o, c) == \A m, n \in 1..c : m < n => <<o[m], o[n]>> \in Le
           U == {c \in Nat : \A X \in SUBSET R : Cardinality(X) = c =>
                   \E o \in SetToSeqs(X) : Sorted(o, c)}
<1>1. 0 \in U
  <2> SUFFICES ASSUME NEW X \in SUBSET R, Cardinality(X) = 0
               PROVE  \E o \in SetToSeqs(X) : Sorted(o, 0)
    OBVIOUS
  <2>1. <<>> \in [1..0 -> X]
    OBVIOUS
  <2>2. <<>> \in SetToSeqs(X)
    BY <2>1 DEF SetToSeqs
  <2> QED
    BY <2>2
<1>2. \A c \in Nat : c \in U => c+1 \in U
  <2>1. SUFFICES ASSUME NEW c \in Nat, c \in U,
                        NEW X \in SUBSET R, Cardinality(X) = c+1
                 PROVE  \E o \in SetToSeqs(X) : Sorted(o, c+1)
    OBVIOUS
  <2>2. IsFiniteSet(X) /\ X # {}
    BY <2>1, FS_Subset, FS_EmptySet
  <2>3. PICK z \in X : \A y \in X : <<y, z>> \in Le
    BY <2>2, LastElement
  <2>4. Cardinality(X \ {z}) = c /\ X \ {z} \in SUBSET R
    <3>1. Cardinality(X \ {z}) = Cardinality(X) - 1
      BY ONLY <2>2, z \in X, FS_RemoveElement
    <3> QED
      BY <2>1, <3>1
  <2>5. PICK o \in SetToSeqs(X \ {z}) : Sorted(o, c)
    BY <2>1, <2>4
  <2>6. o \in [1..c -> X \ {z}] /\ \A m, n \in 1..c : m # n => o[m] # o[n]
    BY <2>4, <2>5 DEF SetToSeqs
  <2> DEFINE p == [m \in 1..c+1 |-> IF m = c+1 THEN z ELSE o[m]]
  <2>7. p \in [1..c+1 -> X] /\ p[c+1] = z /\ \A m \in 1..c : p[m] = o[m] /\ p[m] # z
    BY <2>3, <2>6
  <2>8. \A m \in 1..c+1 : m \in 1..c \/ m = c+1
    OBVIOUS
  <2> HIDE DEF p
  <2>9. \A m, n \in 1..c+1 : m # n => p[m] # p[n]
    BY <2>6, <2>7, <2>8
  <2>10. p \in SetToSeqs(X)
    BY <2>1, <2>7, <2>9 DEF SetToSeqs
  <2>11. ASSUME NEW m \in 1..c+1, NEW n \in 1..c+1, m < n PROVE <<p[m], p[n]>> \in Le
    <3>1. m \in 1..c
      BY <2>11
    <3>2. CASE n = c+1
      BY <2>3, <2>7, <3>2
    <3>3. CASE n \in 1..c
      BY <2>5, <2>7, <2>11, <3>1, <3>3
    <3> QED
      BY <2>8, <3>2, <3>3
  <2> QED
    BY <2>10, <2>11
<1> HIDE DEF U
<1>3. Nat \subseteq U
  BY <1>1, <1>2, NatSetInduction
<1>4. Cardinality(R) \in U
  BY <1>3, FS_CardinalityType
<1> QED
  BY <1>4 DEF U

-----------------------------------------------------------------------------
(* Blocks of numbers, and pairs sorted by a number.                         *)

(* A set of places that has all smaller ones of each of its own is an      *)
(* initial segment.                                                        *)
LEMMA InitialSegment ==
  ASSUME NEW n \in Nat, NEW T, \A i, j \in 1..n : i \in T /\ j < i => j \in T
  PROVE  \E v \in 0..n : \A i \in 1..n : i \in T <=> i <= v
<1> DEFINE U == {m \in Nat : m <= n =>
                  \E v \in 0..m : \A i \in 1..m : i \in T <=> i <= v}
<1>1. 0 \in U
  OBVIOUS
<1>2. \A m \in Nat : m \in U => m+1 \in U
  <2> SUFFICES ASSUME NEW m \in Nat, m+1 <= n,
                      NEW v \in 0..m, \A i \in 1..m : i \in T <=> i <= v
               PROVE  \E w \in 0..m+1 : \A i \in 1..m+1 : i \in T <=> i <= w
    OBVIOUS
  <2>1. CASE m+1 \in T
    <3>1. \A i \in 1..m+1 : i \in T
      BY <2>1
    <3> QED
      BY <3>1
  <2>2. CASE m+1 \notin T
    <3>1. \A i \in 1..m+1 : i \in T <=> i <= v
      BY <2>2
    <3> QED
      BY <3>1
  <2> QED
    BY <2>1, <2>2
<1> HIDE DEF U
<1>3. Nat \subseteq U
  BY <1>1, <1>2, NatSetInduction
<1>4. n \in U /\ n <= n
  BY <1>3
<1> QED
  BY ONLY <1>4 DEF U

ArePairs(a, S, p, L) ==
  /\ a \in [1..L -> S \X (1..p)]
  /\ \A k, l \in 1..L : a[k] = a[l] => k = l
  /\ \A x \in S \X (1..p) : \E k \in 1..L : a[k] = x
  /\ \A k, l \in 1..L : k < l => a[k][2] <= a[l][2]

InBlocks(a, n, p, L) ==
  /\ L = n * p
  /\ \A i \in 1..p : \A b \in 1..n :
       n * (i-1) + b \in 1..L /\ a[n * (i-1) + b][2] = i

(* The pairs of n elements and the numbers up to p, each once and by the   *)
(* number: n with the first number, n with the second, and so on.          *)
LEMMA SortedPairs ==
  ASSUME NEW S, IsFiniteSet(S), NEW n, n = Cardinality(S), NEW p \in Nat, NEW L \in Nat,
         NEW a, ArePairs(a, S, p, L)
  PROVE  InBlocks(a, n, p, L)
<1> USE DEF ArePairs
<1>1. n \in Nat
  BY FS_CardinalityType
<1>2. ASSUME NEW q \in 0..p
      PROVE  n * q \in 0..L /\ \A k \in 1..L : a[k][2] <= q <=> k <= n * q
  <2> DEFINE T == {k \in 1..L : a[k][2] <= q}
  <2>1. \A k \in 1..L : a[k][1] \in S /\ a[k][2] \in 1..p /\ a[k] = <<a[k][1], a[k][2]>>
    OBVIOUS
  <2>2. \A k, l \in 1..L : k \in T /\ l < k => l \in T
    BY <2>1
  <2>3. \A k \in 1..L : k \in T <=> a[k][2] <= q
    OBVIOUS
  <2> HIDE DEF T
  <2>4. PICK v \in 0..L : \A k \in 1..L : k \in T <=> k <= v
    BY ONLY L \in Nat, <2>2, InitialSegment
  <2> DEFINE f == [k \in 1..v |-> a[k]]
             R == S \X (1..q)
  <2>5. f \in [1..v -> R]
    BY <2>1, <2>3, <2>4
  <2>6. \A k, l \in 1..v : f[k] = f[l] => k = l
    OBVIOUS
  <2>7. \A x \in R : \E k \in 1..v : f[k] = x
    <3> SUFFICES ASSUME NEW x \in R PROVE \E k \in 1..v : f[k] = x
      OBVIOUS
    <3>1. x \in S \X (1..p) /\ x[2] <= q
      OBVIOUS
    <3>2. PICK k \in 1..L : a[k] = x
      BY <3>1
    <3>3. k \in 1..v
      BY <2>3, <2>4, <3>1, <3>2
    <3> QED
      BY <3>2, <3>3
  <2> HIDE DEF f, R
  <2>8. f \in Bijection(1..v, R)
    BY <2>5, <2>6, <2>7 DEF Bijection, Injection, IsInjective, Surjection
  <2>9. IsFiniteSet(1..v) /\ Cardinality(1..v) = v
    BY FS_Interval
  <2>10. Cardinality(R) = v
    <3>1. ExistsBijection(1..v, R)
      BY <2>8 DEF ExistsBijection
    <3> QED
      BY <2>9, <3>1, FS_Bijection
  <2>11. Cardinality(R) = n * q
    <3>1. IsFiniteSet(1..q) /\ Cardinality(1..q) = q
      BY FS_Interval
    <3> QED
      <4>1. PICK I : I = 1..q
        OBVIOUS
      <4>2. IsFiniteSet(I) /\ Cardinality(I) = q
        BY <3>1, <4>1
      <4>3. Cardinality(S \X I) = Cardinality(S) * Cardinality(I)
        BY ONLY IsFiniteSet(S), <4>2, FS_Product
      <4> QED
        BY <4>1, <4>2, <4>3 DEF R
  <2> QED
    BY <2>3, <2>4, <2>10, <2>11
<1>3. L = n * p
  <2>1. p \in 0..p /\ \A k \in 1..L : a[k][2] <= p
    OBVIOUS
  <2>2. n * p \in 0..L /\ \A k \in 1..L : k <= n * p
    BY <1>2, <2>1
  <2>3. PICK m : m = n * p
    OBVIOUS
  <2>4. m \in 0..L /\ \A k \in 1..L : k <= m
    BY <2>2, <2>3
  <2>5. L = m
    <3>1. L = 0 \/ L \in 1..L
      OBVIOUS
    <3> QED
      BY <2>4, <3>1
  <2> QED
    BY <2>3, <2>5
<1>4. ASSUME NEW i \in 1..p, NEW b \in 1..n
      PROVE  n * (i-1) + b \in 1..L /\ a[n * (i-1) + b][2] = i
  <2>1. n * i = n * (i-1) + n
    BY <1>1
  <2>2. PICK m : m = n * (i-1)
    OBVIOUS
  <2>3. /\ m \in 0..L /\ m + n \in 0..L
        /\ \A k \in 1..L : (a[k][2] <= i-1 <=> k <= m) /\ (a[k][2] <= i <=> k <= m + n)
    <3>1. PICK h : h = i-1
      OBVIOUS
    <3>2. h \in 0..p /\ i \in 0..p
      BY <3>1
    <3>3. n * h = m /\ n * i = m + n
      BY <2>1, <2>2, <3>1
    <3>4. m \in 0..L /\ \A k \in 1..L : a[k][2] <= h <=> k <= m
      BY ONLY <1>2, <3>2, <3>3
    <3>5. m + n \in 0..L /\ \A k \in 1..L : a[k][2] <= i <=> k <= m + n
      BY ONLY <1>2, <3>2, <3>3
    <3> QED
      BY <3>1, <3>4, <3>5
  <2>4. m + b \in 1..L /\ ~ (m + b <= m) /\ m + b <= m + n
    BY <1>1, <2>3
  <2>5. a[m + b][2] \in 1..p /\ ~ (a[m + b][2] <= i-1) /\ a[m + b][2] <= i
    BY <2>3, <2>4
  <2>6. a[m + b][2] = i
    BY <2>5
  <2> QED
    BY <2>2, <2>4, <2>6
<1> QED
  BY <1>1, <1>3, <1>4 DEF InBlocks

(* The numbers up to n * p, p blocks of n.                                 *)
LEMMA BlocksCover ==
  ASSUME NEW n \in Nat, NEW p \in Nat, NEW k \in 1..n * p
  PROVE  \E i \in 1..p : \E b \in 1..n : k = n * (i-1) + b
<1> DEFINE len == [i \in 1..p |-> n]
           off == [i \in 1..p+1 |-> n * (i-1)]
<1>1. \A i \in Nat : n * i \in Nat /\ n * (i+1) = n * i + n
  OBVIOUS
<1>2. n * 0 = 0
  OBVIOUS
<1>3. \A i \in 1..p+1 : i-1 \in Nat
  OBVIOUS
<1>4. off \in [1..p+1 -> Nat] /\ off[1] = 0 /\ off[p+1] = n * p
  BY <1>1, <1>2, <1>3
<1>5. ASSUME NEW i \in 1..p PROVE off[i] = n * (i-1) /\ off[i+1] = off[i] + len[i]
  <2>1. i \in 1..p+1 /\ i+1 \in 1..p+1 /\ (i+1)-1 = (i-1)+1 /\ i-1 \in Nat
    OBVIOUS
  <2>2. off[i] = n * (i-1) /\ off[i+1] = n * ((i-1)+1) /\ len[i] = n
    BY <2>1
  <2> QED
    BY <1>1, <2>1, <2>2
<1>6. len \in [1..p -> Nat] /\ \A i \in 1..p : len[i] = n
  OBVIOUS
<1> HIDE DEF len, off
<1>7. IsOffsets(off, len, p)
  BY <1>4, <1>5 DEF IsOffsets
<1>8. k \in 1..off[p+1]
  BY <1>4
<1>9. \E i \in 1..p : \E b \in 1..len[i] : k = off[i] + b
  BY ONLY p \in Nat, <1>6, <1>7, <1>8, OffsetsCover
<1> QED
  BY <1>5, <1>6, <1>9
=============================================================================
