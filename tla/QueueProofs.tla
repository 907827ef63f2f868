------------------------------ MODULE QueueProofs ------------------------------
(***************************************************************************)
(* Lemmas about sequences built by recursion, the parser of the MCU link   *)
(* and kfifos, which the proofs of McuReceive, McuSend, HalComm and        *)
(* UeventShell rest on.  Recursive functions are reasoned about with       *)
(* NatInd, a form of induction over a set, which follows from the minimal  *)
(* element every nonempty set of naturals has (WFMin of                    *)
(* WellFoundedInduction).                                                  *)
(***************************************************************************)
EXTENDS McuWire, SequenceTheorems, WellFoundedInduction, TLAPS

----------------------------------------------------------------------------
(* Induction, and FlattenSeq. *)

(* A nonempty set of naturals has a least element. *)
LEMMA NatMin ==
    ASSUME NEW T, T \subseteq Nat, T # {}
    PROVE  \E x \in T : \A y \in T : x <= y
<1> DEFINE R == OpToRel(<, Nat)
<1>1. IsWellFoundedOn(R, Nat)
  BY NatLessThanWellFounded
<1>3. \A x, y \in Nat : <<x, y>> \in R <=> x < y
  BY DEF OpToRel
<1> HIDE DEF R
<1>2. \E x \in T : \A y \in T : ~(<<y, x>> \in R)
  BY <1>1, WFMin
<1>4. PICK x \in T : \A y \in T : ~(<<y, x>> \in R)
  BY <1>2
<1>5. \A y \in T : x <= y
  <2> TAKE y \in T
  <2>1. x \in Nat /\ y \in Nat
    OBVIOUS
  <2>2. ~(y < x)
    BY <1>3, <1>4, <2>1
  <2> QED
    BY <2>1, <2>2
<1> QED
  BY <1>5

(* What holds of 0 and is handed on to the next holds of all naturals. *)
LEMMA NatInd ==
    ASSUME NEW S, 0 \in S, \A n \in Nat : n \in S => n + 1 \in S
    PROVE  \A n \in Nat : n \in S
<1> SUFFICES ASSUME Nat \ S # {} PROVE FALSE
  OBVIOUS
<1>1. PICK x \in Nat \ S : \A y \in Nat \ S : x <= y
  BY NatMin
<1>2. x - 1 \in Nat /\ x - 1 \in S
  BY <1>1
<1> QED
  BY <1>1, <1>2

(* What holds of the empty sequence, and is kept by Append, holds of all. *)
LEMMA SeqInd ==
    ASSUME NEW S, NEW T, <<>> \in T,
           \A s \in Seq(S), e \in S : s \in T => Append(s, e) \in T
    PROVE  \A s \in Seq(S) : s \in T
<1> DEFINE N == {n \in Nat : \A s \in Seq(S) : Len(s) = n => s \in T}
<1>1. 0 \in N
  <2>1. \A s \in Seq(S) : Len(s) = 0 => s = <<>>
    BY EmptySeq
  <2> QED
    BY <2>1
<1>2. ASSUME NEW n \in Nat, n \in N PROVE n + 1 \in N
  <2>1. ASSUME NEW s \in Seq(S), Len(s) = n + 1 PROVE s \in T
    <3>1. s # <<>>
      BY <1>2, <2>1
    <3>2. PICK t \in Seq(S), e \in S : s = Append(t, e)
      BY <3>1, SequenceEmptyOrAppend
    <3>3. Len(t) = n
      <4>1. Len(s) = Len(t) + 1 /\ Len(t) \in Nat
        BY <3>2, AppendProperties, LenProperties
      <4> QED
        BY <2>1, <4>1
    <3> QED
      BY <1>2, <3>2, <3>3
  <2> QED
    BY <2>1
<1> HIDE DEF N
<1>3. \A n \in Nat : n \in N
  BY <1>1, <1>2, NatInd
<1> QED
  BY <1>3, LenProperties DEF N

(* The recursion of FlattenSeq. *)
IsFlat(f, s, n) == f = [i \in 1 .. n |-> IF i = 1 THEN s[i] ELSE f[i-1] \o s[i]]

(* One value of the recursion. *)
LEMMA IsFlatAt ==
    ASSUME NEW s, NEW n \in Nat, NEW f, IsFlat(f, s, n), NEW i \in 1 .. n
    PROVE  f[i] = IF i = 1 THEN s[i] ELSE f[i-1] \o s[i]
BY DEF IsFlat

(* It goes on for one more element, so it exists, and FlattenSeq is it. *)
LEMMA FlatGrows ==
    ASSUME NEW s, NEW n \in Nat, NEW f, IsFlat(f, s, n)
    PROVE  \E g : IsFlat(g, s, n + 1)
<1> DEFINE e == IF n = 0 THEN s[1] ELSE f[n] \o s[n + 1]
           g == [i \in 1 .. n + 1 |-> IF i = n + 1 THEN e ELSE f[i]]
<1>1. ASSUME NEW i \in 1 .. n + 1
      PROVE  g[i] = IF i = 1 THEN s[i] ELSE g[i-1] \o s[i]
  <2>1. CASE i = n + 1
    BY <2>1
  <2>2. CASE i # n + 1
    <3>1. i \in 1 .. n /\ (i # 1 => i - 1 \in 1 .. n)
      BY <2>2
    <3>2. g[i] = f[i] /\ (i # 1 => g[i-1] = f[i-1])
      BY <3>1
    <3>3. f[i] = IF i = 1 THEN s[i] ELSE f[i-1] \o s[i]
      BY <3>1 DEF IsFlat
    <3> QED
      BY <3>2, <3>3
  <2> QED
    BY <2>1, <2>2
<1>2. IsFlat(g, s, n + 1)
  BY <1>1 DEF IsFlat
<1> HIDE DEF g
<1> QED
  BY <1>2, Zenon

LEMMA FlatExists ==
    ASSUME NEW s
    PROVE  \A n \in Nat : \E f : IsFlat(f, s, n)
<1> DEFINE N == {n \in Nat : \E f : IsFlat(f, s, n)}
<1>1. 0 \in N
  <2> DEFINE f == [i \in 1 .. 0 |-> 0]
  <2>1. f = [i \in 1 .. 0 |-> IF i = 1 THEN s[i] ELSE f[i-1] \o s[i]]
    OBVIOUS
  <2>2. IsFlat(f, s, 0)
    BY <2>1 DEF IsFlat
  <2> HIDE DEF f
  <2>3. \E ff : IsFlat(ff, s, 0)
    BY <2>2, Zenon
  <2>4. 0 \in Nat
    OBVIOUS
  <2> QED
    BY <2>3, <2>4, Zenon
<1>2. \A n \in Nat : n \in N => n + 1 \in N
  <2> SUFFICES ASSUME NEW n \in Nat, n \in N PROVE n + 1 \in N
    BY Zenon
  <2>1. PICK f : IsFlat(f, s, n)
    BY Zenon
  <2>2. \E g : IsFlat(g, s, n + 1)
    BY <2>1, FlatGrows, Zenon
  <2>3. n + 1 \in Nat
    OBVIOUS
  <2> QED
    BY <2>2, <2>3, Zenon
<1> HIDE DEF N
<1>3. \A n \in Nat : n \in N
  BY <1>1, <1>2, NatInd
<1> QED
  BY <1>3, Zenon DEF N

LEMMA FlatOf ==
    ASSUME NEW S, NEW s \in Seq(S), s # <<>>
    PROVE  \E f : IsFlat(f, s, Len(s)) /\ FlattenSeq(s) = f[Len(s)]
<1> DEFINE f == CHOOSE f : f = [i \in 1 .. Len(s) |-> IF i = 1 THEN s[i] ELSE f[i-1] \o s[i]]
<1>0. Len(s) \in Nat /\ Len(s) # 0
  BY EmptySeq
<1>1. \E ff : ff = [i \in 1 .. Len(s) |-> IF i = 1 THEN s[i] ELSE ff[i-1] \o s[i]]
  BY <1>0, FlatExists, Zenon DEF IsFlat
<1>2. f = [i \in 1 .. Len(s) |-> IF i = 1 THEN s[i] ELSE f[i-1] \o s[i]]
  BY <1>1, Zenon
<1>3. FlattenSeq(s) = f[Len(s)]
  BY <1>0 DEF FlattenSeq
<1> HIDE DEF f
<1>4. IsFlat(f, s, Len(s))
  BY <1>2, Zenon DEF IsFlat
<1> QED
  BY <1>3, <1>4, Zenon

(* Two rows that begin alike are flattened alike up to there. *)
LEMMA FlatUnique ==
    ASSUME NEW s, NEW t, NEW n \in Nat, NEW m \in Nat, NEW f, NEW g,
           IsFlat(f, s, n), IsFlat(g, t, m), n <= m,
           \A i \in 1 .. n : s[i] = t[i]
    PROVE  \A i \in 1 .. n : f[i] = g[i]
<1> DEFINE N == {i \in Nat : i \in 1 .. n => f[i] = g[i]}
<1>1. 0 \in N
  OBVIOUS
<1>2. ASSUME NEW i \in Nat, i \in N PROVE i + 1 \in N
  <2> SUFFICES ASSUME i + 1 \in 1 .. n PROVE f[i + 1] = g[i + 1]
    OBVIOUS
  <2>1. f[i + 1] = IF i + 1 = 1 THEN s[i + 1] ELSE f[i + 1 - 1] \o s[i + 1]
    BY IsFlatAt
  <2>2. i + 1 \in 1 .. m
    OBVIOUS
  <2>3. g[i + 1] = IF i + 1 = 1 THEN t[i + 1] ELSE g[i + 1 - 1] \o t[i + 1]
    BY <2>2, IsFlatAt
  <2>4. i + 1 # 1 => f[i] = g[i]
    BY <1>2
  <2>5. i + 1 - 1 = i /\ s[i + 1] = t[i + 1]
    OBVIOUS
  <2> QED
    BY <2>1, <2>3, <2>4, <2>5
<1> HIDE DEF N
<1>3. \A i \in Nat : i \in N
  BY <1>1, <1>2, NatInd
<1> QED
  BY <1>3 DEF N

(* FlattenSeq of no row, of one more at the end, its type, and of one
   more in front. *)
LEMMA FlattenEmpty == FlattenSeq(<<>>) = <<>>
BY DEF FlattenSeq

LEMMA FlattenAppend ==
    ASSUME NEW S, NEW s \in Seq(Seq(S)), NEW e \in Seq(S)
    PROVE  FlattenSeq(Append(s, e)) = FlattenSeq(s) \o e
<1>n. PICK n \in Nat : n = Len(s)
  BY LenProperties
<1>m. PICK m \in Nat : m = n + 1
  OBVIOUS
<1>t. PICK t \in Seq(Seq(S)) : t = Append(s, e)
  BY AppendProperties
<1>1. /\ t # <<>> /\ Len(t) = m
      /\ \A i \in 1 .. n : t[i] = s[i]
      /\ t[m] = e
  BY <1>n, <1>m, <1>t, AppendProperties
<1>2. PICK g : IsFlat(g, t, m) /\ FlattenSeq(t) = g[m]
  BY <1>1, FlatOf, Zenon
<1>3. g[m] = IF m = 1 THEN t[m] ELSE g[m - 1] \o t[m]
  <2>1. m \in 1 .. m
    BY <1>m
  <2> QED
    BY <1>2, <2>1, IsFlatAt
<1>4. CASE s = <<>>
  <2>1. m = 1
    BY <1>4, <1>n, <1>m
  <2>2. g[m] = e
    BY <1>1, <1>3, <2>1
  <2>3. <<>> \o e = e
    BY ConcatEmptySeq
  <2>4. FlattenSeq(s) = <<>>
    BY <1>4, FlattenEmpty
  <2> QED
    BY <1>2, <1>t, <2>2, <2>3, <2>4
<1>5. CASE s # <<>>
  <2>1. m # 1 /\ m - 1 = n /\ n \in 1 .. n /\ n <= m
    BY <1>5, <1>n, <1>m, EmptySeq
  <2>2. PICK f : IsFlat(f, s, n) /\ FlattenSeq(s) = f[n]
    BY <1>5, <1>n, FlatOf, Zenon
  <2>3. \A i \in 1 .. n : s[i] = t[i]
    BY <1>1
  <2>4. \A i \in 1 .. n : f[i] = g[i]
    <3>1. IsFlat(f, s, n) /\ IsFlat(g, t, m) /\ n <= m
      BY <1>2, <2>1, <2>2
    <3> QED
      BY <2>3, <3>1, FlatUnique, SMTT(60)
  <2> QED
    BY <1>1, <1>2, <1>3, <1>t, <2>1, <2>2, <2>4
<1> QED
  BY <1>4, <1>5

LEMMA FlattenType ==
    ASSUME NEW S
    PROVE  \A s \in Seq(Seq(S)) : FlattenSeq(s) \in Seq(S)
<1> DEFINE T == {s \in Seq(Seq(S)) : FlattenSeq(s) \in Seq(S)}
<1>1. <<>> \in T
  BY FlattenEmpty, EmptySeq
<1>2. ASSUME NEW s \in Seq(Seq(S)), NEW e \in Seq(S), s \in T PROVE Append(s, e) \in T
  BY <1>2, FlattenAppend, AppendProperties, ConcatProperties
<1> HIDE DEF T
<1>3. \A s \in Seq(Seq(S)) : s \in T
  BY <1>1, <1>2, SeqInd
<1> QED
  BY <1>3 DEF T

LEMMA FlattenHead ==
    ASSUME NEW S, NEW e \in Seq(S)
    PROVE  \A s \in Seq(Seq(S)) : FlattenSeq(<<e>> \o s) = e \o FlattenSeq(s)
<1> DEFINE T == {s \in Seq(Seq(S)) : FlattenSeq(<<e>> \o s) = e \o FlattenSeq(s)}
<1>1. <<>> \in T
  <2>1. <<e>> \o <<>> = Append(<<>>, e)
    OBVIOUS
  <2>2. FlattenSeq(Append(<<>>, e)) = FlattenSeq(<<>>) \o e
    BY FlattenAppend, EmptySeq
  <2>3. <<>> \o e = e /\ e \o <<>> = e
    BY ConcatEmptySeq
  <2>4. <<>> \in Seq(Seq(S))
    OBVIOUS
  <2> QED
    BY <2>1, <2>2, <2>3, <2>4, FlattenEmpty
<1>2. ASSUME NEW s \in Seq(Seq(S)), NEW x \in Seq(S), s \in T PROVE Append(s, x) \in T
  <2>1. /\ <<e>> \in Seq(Seq(S)) /\ <<e>> \o s \in Seq(Seq(S))
    BY ConcatProperties
  <2>2. <<e>> \o Append(s, x) = Append(<<e>> \o s, x)
    <3>1. Append(s, x) = s \o <<x>> /\ Append(<<e>> \o s, x) = (<<e>> \o s) \o <<x>>
      BY <2>1, AppendIsConcat
    <3>2. <<x>> \in Seq(Seq(S))
      OBVIOUS
    <3> QED
      BY <2>1, <3>1, <3>2, ConcatAssociative
  <2>3. FlattenSeq(Append(<<e>> \o s, x)) = FlattenSeq(<<e>> \o s) \o x
    BY <2>1, FlattenAppend
  <2>4. FlattenSeq(Append(s, x)) = FlattenSeq(s) \o x
    BY FlattenAppend
  <2>5. (e \o FlattenSeq(s)) \o x = e \o (FlattenSeq(s) \o x)
    BY FlattenType, ConcatAssociative
  <2>6. Append(s, x) \in Seq(Seq(S))
    BY AppendProperties
  <2> QED
    BY <1>2, <2>2, <2>3, <2>4, <2>5, <2>6
<1> HIDE DEF T
<1>3. \A s \in Seq(Seq(S)) : s \in T
  BY <1>1, <1>2, SeqInd
<1> QED
  BY <1>3 DEF T

----------------------------------------------------------------------------
(* Rows: what a function `form' makes of each element of a sequence, one
   after another. *)

Images(form, ss) == [i \in DOMAIN ss |-> form[ss[i]]]
RowOf(form, ss) == FlattenSeq(Images(form, ss))

LEMMA OneElement ==
    ASSUME NEW S, NEW x \in S
    PROVE  <<x>> \in Seq(S) /\ Len(<<x>>) = 1 /\ <<x>>[1] = x
OBVIOUS

LEMMA ImagesType ==
    ASSUME NEW S, NEW T, NEW form \in [S -> Seq(T)], NEW ss \in Seq(S)
    PROVE  Images(form, ss) \in Seq(Seq(T)) /\ Len(Images(form, ss)) = Len(ss)
BY LenProperties DEF Images

LEMMA RowOfType ==
    ASSUME NEW S, NEW T, NEW form \in [S -> Seq(T)], NEW ss \in Seq(S)
    PROVE  RowOf(form, ss) \in Seq(T)
BY ImagesType, FlattenType DEF RowOf

LEMMA RowOfNothing == \A form : RowOf(form, <<>>) = <<>>
<1> TAKE form
<1>1. Images(form, <<>>) = <<>>
  BY DEF Images
<1> QED
  BY <1>1, FlattenEmpty DEF RowOf

(* One more at the end, and one more in front. *)
LEMMA RowOfAppend ==
    ASSUME NEW S, NEW T, NEW form \in [S -> Seq(T)], NEW ss \in Seq(S), NEW x \in S
    PROVE  RowOf(form, Append(ss, x)) = RowOf(form, ss) \o form[x]
<1>1. PICK n \in Nat : n = Len(ss)
  BY LenProperties
<1>2. PICK tt \in Seq(S) : tt = Append(ss, x)
  BY AppendProperties
<1>3. Len(tt) = n + 1 /\ (\A i \in 1 .. n : tt[i] = ss[i]) /\ tt[n + 1] = x
  BY <1>1, <1>2, AppendProperties
<1>4. PICK r \in Seq(T) : r = form[x]
  OBVIOUS
<1>5. PICK u \in Seq(Seq(T)) : u = Images(form, tt) /\ Len(u) = n + 1
                               /\ \A i \in 1 .. n + 1 : u[i] = form[tt[i]]
  <2>1. Images(form, tt) \in Seq(Seq(T)) /\ Len(Images(form, tt)) = n + 1
    BY <1>3, LenProperties DEF Images
  <2>2. \A i \in 1 .. n + 1 : Images(form, tt)[i] = form[tt[i]]
    BY <1>3, LenProperties DEF Images
  <2> QED
    BY <2>1, <2>2, Zenon
<1>6. PICK v \in Seq(Seq(T)) : v = Images(form, ss) /\ Len(v) = n
                               /\ \A i \in 1 .. n : v[i] = form[ss[i]]
  <2>1. Images(form, ss) \in Seq(Seq(T)) /\ Len(Images(form, ss)) = n
    BY <1>1, LenProperties DEF Images
  <2>2. \A i \in 1 .. n : Images(form, ss)[i] = form[ss[i]]
    BY <1>1, LenProperties DEF Images
  <2> QED
    BY <2>1, <2>2, Zenon
<1>7. PICK w \in Seq(Seq(T)) : w = Append(v, r)
  BY AppendProperties
<1>8. Len(w) = n + 1 /\ (\A i \in 1 .. n : w[i] = v[i]) /\ w[n + 1] = r
  BY <1>6, <1>7, AppendProperties
<1>9. \A i \in 1 .. n + 1 : u[i] = w[i]
  <2> TAKE i \in 1 .. n + 1
  <2>1. CASE i = n + 1
    BY <1>3, <1>4, <1>5, <1>8, <2>1
  <2>2. CASE i \in 1 .. n
    <3>1. u[i] = form[tt[i]] /\ tt[i] = ss[i]
      BY <1>3, <1>5, <2>2
    <3>2. v[i] = form[ss[i]] /\ w[i] = v[i]
      BY <1>6, <1>8, <2>2
    <3> QED
      BY <3>1, <3>2
  <2> QED
    BY <2>1, <2>2
<1>10. u = w
  BY <1>5, <1>8, <1>9, SeqEqual
<1>11. FlattenSeq(Append(v, r)) = FlattenSeq(v) \o r
  BY FlattenAppend
<1>12. RowOf(form, tt) = FlattenSeq(u) /\ RowOf(form, ss) = FlattenSeq(v)
  BY <1>5, <1>6 DEF RowOf
<1> QED
  BY <1>2, <1>4, <1>7, <1>10, <1>11, <1>12

LEMMA RowOfHead ==
    ASSUME NEW S, NEW T, NEW form \in [S -> Seq(T)], NEW ss \in Seq(S), NEW x \in S
    PROVE  RowOf(form, <<x>> \o ss) = form[x] \o RowOf(form, ss)
<1>1. PICK n \in Nat : n = Len(ss)
  BY LenProperties
<1>2. PICK h \in Seq(S) : h = <<x>> /\ Len(h) = 1 /\ h[1] = x
  <2>1. <<x>> \in Seq(S) /\ Len(<<x>>) = 1 /\ <<x>>[1] = x
    BY OneElement
  <2> QED
    BY <2>1
<1>3. PICK tt \in Seq(S) : tt = h \o ss
  BY ConcatProperties
<1>4. Len(tt) = n + 1 /\ \A i \in 1 .. n + 1 : tt[i] = IF i <= 1 THEN h[i] ELSE ss[i - 1]
  BY <1>1, <1>2, <1>3, ConcatProperties
<1>5. PICK r \in Seq(T) : r = form[x]
  OBVIOUS
<1>6. PICK u \in Seq(Seq(T)) : u = Images(form, tt) /\ Len(u) = n + 1
                               /\ \A i \in 1 .. n + 1 : u[i] = form[tt[i]]
  <2>1. Images(form, tt) \in Seq(Seq(T)) /\ Len(Images(form, tt)) = n + 1
    BY <1>4, LenProperties DEF Images
  <2>2. \A i \in 1 .. n + 1 : Images(form, tt)[i] = form[tt[i]]
    BY <1>4, LenProperties DEF Images
  <2> QED
    BY <2>1, <2>2, Zenon
<1>7. PICK v \in Seq(Seq(T)) : v = Images(form, ss) /\ Len(v) = n
                               /\ \A i \in 1 .. n : v[i] = form[ss[i]]
  <2>1. Images(form, ss) \in Seq(Seq(T)) /\ Len(Images(form, ss)) = n
    BY <1>1, LenProperties DEF Images
  <2>2. \A i \in 1 .. n : Images(form, ss)[i] = form[ss[i]]
    BY <1>1, LenProperties DEF Images
  <2> QED
    BY <2>1, <2>2, Zenon
<1>8. PICK g \in Seq(Seq(T)) : g = <<r>> /\ Len(g) = 1 /\ g[1] = r
  <2>1. <<r>> \in Seq(Seq(T)) /\ Len(<<r>>) = 1 /\ <<r>>[1] = r
    BY OneElement
  <2> QED
    BY <2>1
<1>9. PICK w \in Seq(Seq(T)) : w = g \o v
  BY ConcatProperties
<1>10. Len(w) = n + 1 /\ \A i \in 1 .. n + 1 : w[i] = IF i <= 1 THEN g[i] ELSE v[i - 1]
  BY <1>7, <1>8, <1>9, ConcatProperties
<1>11. \A i \in 1 .. n + 1 : u[i] = w[i]
  <2> TAKE i \in 1 .. n + 1
  <2>1. CASE i = 1
    BY <1>2, <1>4, <1>5, <1>6, <1>8, <1>10, <2>1
  <2>2. CASE i # 1
    <3>1. i - 1 \in 1 .. n /\ ~(i <= 1)
      BY <2>2
    <3>2. u[i] = form[ss[i - 1]] /\ w[i] = v[i - 1]
      BY <1>4, <1>6, <1>10, <3>1
    <3> QED
      BY <1>7, <3>1, <3>2
  <2> QED
    BY <2>1, <2>2
<1>12. u = w
  BY <1>6, <1>10, <1>11, SeqEqual
<1>13. FlattenSeq(<<r>> \o v) = r \o FlattenSeq(v)
  BY FlattenHead
<1>14. RowOf(form, tt) = FlattenSeq(u) /\ RowOf(form, ss) = FlattenSeq(v)
  BY <1>6, <1>7 DEF RowOf
<1> QED
  BY <1>2, <1>3, <1>5, <1>8, <1>9, <1>12, <1>13, <1>14

----------------------------------------------------------------------------
(* Bytes, records and the parser: types. *)

(* The two bytes of a length. *)
LEMMA ByteOfNat ==
    ASSUME NEW n \in Nat
    PROVE  /\ n % 256 \in Byte
           /\ n < 65536 => n \div 256 \in Byte
BY DEF Byte

(* The arithmetic of a payload and its length byte. *)
LEMMA PayloadArithmetic ==
    /\ \A m \in Byte, n \in Nat : m # 0 /\ n < m - 1 => n + 1 < m
    /\ \A m \in Byte, n \in Nat : n < m => n < 255
    /\ \A c, b \in Byte : AddByte(c, b) \in Byte
<1>1. \A m \in Byte, n \in Nat : m # 0 /\ n < m - 1 => n + 1 < m
  BY DEF Byte
<1>2. \A m \in Byte, n \in Nat : n < m => n < 255
  BY DEF Byte
<1>3. \A c, b \in Byte : AddByte(c, b) \in Byte
  BY DEF Byte, AddByte
<1> QED
  BY <1>1, <1>2, <1>3, Zenon

(* Bytes put together. *)
LEMMA ConcatBytes ==
    ASSUME NEW s \in Seq(Byte), NEW t \in Seq(Byte)
    PROVE  s \o t \in Seq(Byte) /\ Len(s \o t) = Len(s) + Len(t)
BY ConcatProperties

(* A byte keeps the parser's state within its bounds. *)
LEMMA FeedType ==
    ASSUME NEW p \in ParserStates, NEW b \in Byte
    PROVE  Feed(p, b) \in ParserStates
<1> DEFINE R == [at : 0 .. 3, max : Byte, crc : Byte, buf : Seq(Byte)]
<1>1. p \in R /\ (p.max # 0 => Len(p.buf) < p.max)
  BY DEF ParserStates
<1>2. ASSUME NEW i \in 0 .. 3
      PROVE  [p EXCEPT !.at = i] \in ParserStates
  <2>1. [p EXCEPT !.at = i] \in R
    BY <1>1
  <2>2. [p EXCEPT !.at = i].max = p.max /\ [p EXCEPT !.at = i].buf = p.buf
    BY <1>1
  <2> QED
    BY <1>1, <2>1, <2>2, Zenon DEF ParserStates
<1>3. CASE p.at = 0
  <2> DEFINE i == IF b = 255 THEN 1 ELSE 0
  <2>1. Feed(p, b) = [p EXCEPT !.at = i]
    BY <1>3 DEF Feed
  <2>2. i \in 0 .. 3
    OBVIOUS
  <2> HIDE DEF i
  <2> QED
    BY <1>2, <2>1, <2>2, Zenon
<1>4. CASE p.at = 1
  <2> DEFINE i == CASE b = 255 -> 1 [] b = 85 -> 2 [] OTHER -> 0
  <2>1. Feed(p, b) = [p EXCEPT !.at = i]
    BY <1>4 DEF Feed, Sync
  <2>2. i \in 0 .. 3
    OBVIOUS
  <2> HIDE DEF i
  <2> QED
    BY <1>2, <2>1, <2>2, Zenon
<1>5. CASE p.at = 2
  <2> DEFINE q == [at |-> 3, max |-> b, crc |-> b, buf |-> <<>>]
  <2>1. Feed(p, b) = q
    BY <1>5 DEF Feed
  <2>2. q \in R
    BY DEF Byte
  <2>3. q.max # 0 => Len(q.buf) < q.max
    BY DEF Byte
  <2> QED
    BY <2>1, <2>2, <2>3, Zenon DEF ParserStates
<1>6. CASE p.at = 3 /\ Filling(p)
  <2> DEFINE q == [p EXCEPT !.crc = AddByte(@, b), !.buf = Append(@, b)]
  <2>1. Feed(p, b) = q
    BY <1>6 DEF Feed
  <2>2. p.buf \in Seq(Byte) /\ p.crc \in Byte /\ p.max \in Byte
    BY <1>1
  <2>3. Append(p.buf, b) \in Seq(Byte) /\ Len(Append(p.buf, b)) = Len(p.buf) + 1
    BY <2>2
  <2>4. AddByte(p.crc, b) \in Byte
    BY <2>2, PayloadArithmetic, Zenon
  <2>5. q \in R
    BY <1>1, <2>3, <2>4
  <2>6. q.max = p.max /\ q.buf = Append(p.buf, b)
    BY <1>1
  <2>7. Len(p.buf) \in Nat
    BY <2>2, LenProperties
  <2>8. p.max # 0 => Len(p.buf) < p.max - 1
    BY <1>6 DEF Filling
  <2>9. p.max # 0 => Len(p.buf) + 1 < p.max
    BY <2>2, <2>7, <2>8, PayloadArithmetic, Zenon
  <2> QED
    BY <2>1, <2>3, <2>5, <2>6, <2>9, Zenon DEF ParserStates
<1>7. CASE p.at = 3 /\ ~Filling(p)
  <2>1. Feed(p, b) = [p EXCEPT !.at = 0]
    BY <1>7 DEF Feed
  <2>2. 0 \in 0 .. 3
    OBVIOUS
  <2> QED
    BY <1>2, <2>1, <2>2, Zenon
<1>8. p.at \in 0 .. 3
  BY <1>1
<1> QED
  BY <1>3, <1>4, <1>5, <1>6, <1>7, <1>8

(* What the parser delivers is shorter than a length byte can say. *)
LEMMA DeliversShort ==
    ASSUME NEW p \in ParserStates, NEW b \in Byte, Delivers(p, b)
    PROVE  p.buf \in Seq(Byte) /\ Len(p.buf) < 255
<1>1. p.buf \in Seq(Byte) /\ p.max \in Byte /\ (p.max # 0 => Len(p.buf) < p.max)
  BY DEF ParserStates
<1>2. p.max # 0
  BY DEF Delivers, Filling
<1>3. Len(p.buf) \in Nat
  BY <1>1, LenProperties
<1> QED
  BY <1>1, <1>2, <1>3, PayloadArithmetic, Zenon

(* A record is bytes, two more than its data. *)
LEMMA RecordType ==
    ASSUME NEW s \in Seq(Byte), Len(s) < 65536
    PROVE  Record(s) \in Seq(Byte) /\ Len(Record(s)) = Len(s) + 2
<1>1. ASSUME NEW a \in Byte, NEW b \in Byte
      PROVE  <<a, b>> \o s \in Seq(Byte) /\ Len(<<a, b>> \o s) = Len(s) + 2
  OBVIOUS
<1>2. Len(s) \in Nat
  BY LenProperties
<1>3. Len(s) % 256 \in Byte /\ Len(s) \div 256 \in Byte
  BY <1>2, ByteOfNat
<1> QED
  <2>1. PICK a \in Byte : a = Len(s) % 256
    BY <1>3
  <2>2. PICK b \in Byte : b = Len(s) \div 256
    BY <1>3
  <2>3. Record(s) = <<a, b>> \o s
    BY <2>1, <2>2 DEF Record
  <2> QED
    BY <1>1, <2>3

(* A record, whole or cut, leaves the queue within its size, and no        *)
(* shorter than it was.                                                    *)
LEMMA EnqueueType ==
    ASSUME NEW size \in Nat, NEW q \in Seq(Byte), Len(q) <= size,
           NEW s \in Seq(Byte), Len(s) < 65536
    PROVE  /\ Enqueue(q, s, size) \in Seq(Byte)
           /\ Len(Enqueue(q, s, size)) <= size
           /\ Len(q) <= Len(Enqueue(q, s, size))
<1>1. CASE Len(q) = size
  BY <1>1 DEF Enqueue
<1>2. CASE Len(q) # size
  <2> DEFINE r == Record(s)
             k == Least(Len(r), size - Len(q))
             t == SubSeq(r, 1, k)
  <2>1. r \in Seq(Byte)
    BY RecordType
  <2>2. Enqueue(q, s, size) = Insert(q, r, size)
    BY <1>2 DEF Enqueue
  <2>3. Enqueue(q, s, size) = q \o t
    BY <2>2 DEF Insert
  <2>4. Len(q) \in Nat /\ Len(r) \in Nat
    BY <2>1, LenProperties
  <2> HIDE DEF r
  <2>5. k \in Int /\ k <= Len(r) /\ k <= size - Len(q)
    BY <2>4 DEF Least
  <2> HIDE DEF k
  <2>6. \A i \in 1 .. k : i \in 1 .. Len(r)
    BY <2>4, <2>5
  <2>7. \A i \in 1 .. k : r[i] \in Byte
    BY <2>1, <2>6, ElementOfSeq
  <2>8. t \in Seq(Byte) /\ Len(t) = IF 1 <= k THEN k ELSE 0
    BY <2>5, <2>7, SubSeqProperties
  <2> HIDE DEF t
  <2>9. q \o t \in Seq(Byte) /\ Len(q \o t) = Len(q) + Len(t)
    BY <2>8, ConcatBytes
  <2>10. Len(q) + Len(t) <= size
    BY <2>4, <2>5, <2>8, <1>2
  <2>11. Len(q) <= Len(q) + Len(t)
    BY <2>4, <2>5, <2>8
  <2> QED
    BY <2>3, <2>9, <2>10, <2>11
<1> QED
  BY <1>1, <1>2

(* length_buf is a short, also when a part of it is old. *)
LEMMA ReadLengthType ==
    ASSUME NEW q \in Seq(Byte), NEW old \in Short
    PROVE  ReadLength(q, old) \in Short
<1>1. ASSUME NEW a \in Byte, NEW b \in Byte
      PROVE  AsShort(a + 256 * b) \in Short
  BY DEF Byte, Short, AsShort
<1>2. ASSUME NEW a \in Byte
      PROVE  ByteAt(q, 1, a) \in Byte /\ ByteAt(q, 2, a) \in Byte
  BY DEF ByteAt
<1>3. old \in Int
  BY DEF Short
<1>4. old % 256 \in Byte /\ (old % 65536) \div 256 \in Byte
  <2>1. old % 256 \in Byte
    BY <1>3 DEF Byte
  <2>2. (old % 65536) \div 256 \in Byte
    BY <1>3 DEF Byte
  <2> QED
    BY <2>1, <2>2
<1> QED
  <2>1. PICK lo \in Byte, hi \in Byte : ReadLength(q, old) = AsShort(lo + 256 * hi)
    BY <1>2, <1>4 DEF ReadLength
  <2> QED
    BY <1>1, <2>1

(* Taking a record out leaves a shorter queue. *)
LEMMA AfterRecordType ==
    ASSUME NEW q \in Seq(Byte), NEW n \in Short
    PROVE  /\ AfterRecord(q, n) \in Seq(Byte)
           /\ Len(AfterRecord(q, n)) <= Len(q)
<1>1. ASSUME NEW m \in Int, m >= 3
      PROVE  SubSeq(q, m, Len(q)) \in Seq(Byte) /\ Len(SubSeq(q, m, Len(q))) <= Len(q)
  <2>1. SubSeq(q, m, Len(q)) \in Seq(Byte)
    BY <1>1
  <2>2. Len(SubSeq(q, m, Len(q))) <= Len(q)
    BY <1>1
  <2> QED
    BY <2>1, <2>2
<1>2. CASE n > 0
  <2>1. 3 + n \in Int /\ 3 + n >= 3
    BY <1>2 DEF Short
  <2> QED
    BY <1>1, <1>2, <2>1 DEF AfterRecord
<1>3. CASE ~(n > 0)
  BY <1>1, <1>3 DEF AfterRecord
<1> QED
  BY <1>2, <1>3

----------------------------------------------------------------------------
(* The checksum. *)

(* The checksum. *)
IsSum(f, a, s, n) == f = [i \in 0 .. n |-> IF i = 0 THEN a ELSE AddByte(f[i-1], s[i])]

(* One value of the recursion of CheckSum. *)
LEMMA IsSumAt ==
    ASSUME NEW a, NEW s, NEW n \in Nat, NEW f, IsSum(f, a, s, n), NEW i \in 0 .. n
    PROVE  (i = 0 => f[i] = a) /\ (i # 0 => f[i] = AddByte(f[i-1], s[i]))
BY DEF IsSum

(* It goes on for one more byte, so it exists. *)
LEMMA SumGrows ==
    ASSUME NEW a, NEW s, NEW n \in Nat, NEW f, IsSum(f, a, s, n)
    PROVE  \E g : IsSum(g, a, s, n + 1)
<1> DEFINE g == [i \in 0 .. n + 1 |-> IF i = n + 1 THEN AddByte(f[n], s[i]) ELSE f[i]]
<1>1. ASSUME NEW i \in 0 .. n + 1
      PROVE  g[i] = IF i = 0 THEN a ELSE AddByte(g[i-1], s[i])
  <2>1. CASE i = n + 1
    BY <2>1
  <2>2. CASE i # n + 1
    <3>1. i \in 0 .. n /\ (i # 0 => i - 1 \in 0 .. n)
      BY <2>2
    <3>2. g[i] = f[i] /\ (i # 0 => g[i-1] = f[i-1])
      BY <3>1
    <3>3. (i = 0 => f[i] = a) /\ (i # 0 => f[i] = AddByte(f[i-1], s[i]))
      BY <3>1, IsSumAt
    <3> QED
      BY <3>2, <3>3
  <2> QED
    BY <2>1, <2>2
<1>2. IsSum(g, a, s, n + 1)
  BY <1>1 DEF IsSum
<1> HIDE DEF g
<1> QED
  BY <1>2, Zenon

LEMMA SumExists ==
    ASSUME NEW a, NEW s
    PROVE  \A n \in Nat : \E f : IsSum(f, a, s, n)
<1> DEFINE N == {n \in Nat : \E f : IsSum(f, a, s, n)}
<1>1. 0 \in N
  <2> DEFINE f == [i \in 0 .. 0 |-> a]
  <2>1. f = [i \in 0 .. 0 |-> IF i = 0 THEN a ELSE AddByte(f[i-1], s[i])]
    OBVIOUS
  <2>2. IsSum(f, a, s, 0)
    BY <2>1 DEF IsSum
  <2> HIDE DEF f
  <2>3. \E ff : IsSum(ff, a, s, 0)
    BY <2>2, Zenon
  <2>4. 0 \in Nat
    OBVIOUS
  <2> QED
    BY <2>3, <2>4, Zenon
<1>2. \A n \in Nat : n \in N => n + 1 \in N
  <2> SUFFICES ASSUME NEW n \in Nat, n \in N PROVE n + 1 \in N
    BY Zenon
  <2>1. PICK f : IsSum(f, a, s, n)
    BY Zenon
  <2>2. \E g : IsSum(g, a, s, n + 1)
    BY <2>1, SumGrows, Zenon
  <2>3. n + 1 \in Nat
    OBVIOUS
  <2> QED
    BY <2>2, <2>3, Zenon
<1> HIDE DEF N
<1>3. \A n \in Nat : n \in N
  BY <1>1, <1>2, NatInd
<1> QED
  BY <1>3, Zenon DEF N

(* What the recursion says of its values. *)
Sums(f, a, s, n) == f[0] = a /\ \A i \in 1 .. n : f[i] = AddByte(f[i-1], s[i])

(* Sums of data that begin alike are equal up to there. *)
LEMMA SumUnique ==
    ASSUME NEW a, NEW s, NEW t, NEW n \in Nat, NEW m \in Nat, n <= m,
           \A i \in 1 .. n : s[i] = t[i],
           NEW f, Sums(f, a, s, n), NEW g, Sums(g, a, t, m)
    PROVE  f[n] = g[n]
<1> DEFINE N == {i \in Nat : i \in 0 .. n => f[i] = g[i]}
<1>1. 0 \in N
  BY DEF Sums
<1>2. ASSUME NEW i \in Nat, i \in N PROVE i + 1 \in N
  <2> SUFFICES ASSUME i + 1 \in 0 .. n PROVE f[i + 1] = g[i + 1]
    OBVIOUS
  <2>1. i + 1 \in 1 .. n /\ i + 1 \in 1 .. m /\ i + 1 - 1 = i
    OBVIOUS
  <2>2. f[i + 1] = AddByte(f[i], s[i + 1]) /\ g[i + 1] = AddByte(g[i], t[i + 1])
    BY <2>1 DEF Sums
  <2>3. f[i] = g[i] /\ s[i + 1] = t[i + 1]
    BY <1>2, <2>1
  <2> QED
    BY <2>2, <2>3
<1> HIDE DEF N
<1>3. \A i \in Nat : i \in N
  BY <1>1, <1>2, NatInd
<1> QED
  BY <1>3 DEF N

(* CheckSum is the last of them. *)
LEMMA SumOf ==
    ASSUME NEW S, NEW s \in Seq(S), NEW a
    PROVE  \E f : Sums(f, a, s, Len(s)) /\ CheckSum(a, s) = f[Len(s)]
<1> DEFINE f == CHOOSE f : f = [i \in 0 .. Len(s) |-> IF i = 0 THEN a ELSE AddByte(f[i-1], s[i])]
<1>0. Len(s) \in Nat
  BY LenProperties
<1>1. \E ff : ff = [i \in 0 .. Len(s) |-> IF i = 0 THEN a ELSE AddByte(ff[i-1], s[i])]
  <2>1. \E ff : IsSum(ff, a, s, Len(s))
    BY <1>0, SumExists, Zenon
  <2> QED
    BY <2>1, Zenon DEF IsSum
<1>2. f = [i \in 0 .. Len(s) |-> IF i = 0 THEN a ELSE AddByte(f[i-1], s[i])]
  BY <1>1, Zenon
<1>3. CheckSum(a, s) = f[Len(s)]
  BY DEF CheckSum
<1> HIDE DEF f
<1>4. Sums(f, a, s, Len(s))
  BY <1>0, <1>2 DEF Sums
<1> QED
  BY <1>3, <1>4, Zenon

(* CheckSum of no byte, of one more, and its type. *)
LEMMA CheckSumEmpty == \A a : CheckSum(a, <<>>) = a
<1> TAKE a
<1>1. <<>> \in Seq({}) /\ Len(<<>>) = 0
  BY EmptySeq
<1>2. PICK f : Sums(f, a, <<>>, 0) /\ CheckSum(a, <<>>) = f[0]
  BY <1>1, SumOf
<1> QED
  BY <1>2 DEF Sums

LEMMA CheckSumAppend ==
    ASSUME NEW a, NEW s \in Seq(Byte), NEW b \in Byte
    PROVE  CheckSum(a, Append(s, b)) = AddByte(CheckSum(a, s), b)
<1>n. PICK n \in Nat : n = Len(s)
  BY LenProperties
<1>m. PICK m \in Nat : m = n + 1
  OBVIOUS
<1>t. PICK t \in Seq(Byte) : t = Append(s, b)
  BY AppendProperties
<1>1. /\ Len(t) = m /\ t[m] = b
      /\ \A i \in 1 .. n : s[i] = t[i]
  BY <1>n, <1>m, <1>t, AppendProperties
<1>2. PICK g : Sums(g, a, t, m) /\ CheckSum(a, t) = g[m]
  BY <1>1, SumOf, Zenon
<1>3. PICK f : Sums(f, a, s, n) /\ CheckSum(a, s) = f[n]
  BY <1>n, SumOf, Zenon
<1>4. g[m] = AddByte(g[n], b)
  <2>1. m \in 1 .. m /\ m - 1 = n
    BY <1>m
  <2> QED
    BY <1>1, <1>2, <2>1 DEF Sums
<1>5. f[n] = g[n]
  <2>1. n <= m /\ \A i \in 1 .. n : s[i] = t[i]
    BY <1>1, <1>m
  <2>2. Sums(f, a, s, n) /\ Sums(g, a, t, m)
    BY <1>2, <1>3
  <2> HIDE <1>1, <1>2
  <2> QED
    BY <2>1, <2>2, SumUnique
<1> QED
  BY <1>2, <1>3, <1>4, <1>5, <1>t

LEMMA CheckSumType ==
    ASSUME NEW a \in Byte
    PROVE  \A s \in Seq(Byte) : CheckSum(a, s) \in Byte
<1> DEFINE T == {s \in Seq(Byte) : CheckSum(a, s) \in Byte}
<1>1. <<>> \in T
  BY CheckSumEmpty, EmptySeq
<1>2. ASSUME NEW s \in Seq(Byte), NEW b \in Byte, s \in T PROVE Append(s, b) \in T
  <2>1. \A c \in Byte : AddByte(c, b) \in Byte
    BY DEF Byte, AddByte
  <2>2. CheckSum(a, s) \in Byte
    BY <1>2
  <2>3. AddByte(CheckSum(a, s), b) \in Byte
    BY <2>1, <2>2
  <2> QED
    BY <2>3, CheckSumAppend, AppendProperties
<1> HIDE DEF T
<1>3. \A s \in Seq(Byte) : s \in T
  BY <1>1, <1>2, SeqInd
<1> QED
  BY <1>3 DEF T

----------------------------------------------------------------------------
(* The parser over a stream of bytes. *)

(* The parser over a stream. *)
Turn(r, b) == CHOOSE x \in {Step(a, b) : a \in {r}} : TRUE

IsRun(f, a, s, n) == f = [i \in 0 .. n |-> IF i = 0 THEN a ELSE Turn(f[i-1], s[i])]

(* One value of the recursion of Parse. *)
LEMMA IsRunAt ==
    ASSUME NEW a, NEW s, NEW n \in Nat, NEW f, IsRun(f, a, s, n), NEW i \in 0 .. n
    PROVE  (i = 0 => f[i] = a) /\ (i # 0 => f[i] = Turn(f[i-1], s[i]))
BY DEF IsRun

(* It goes on for one more byte, so it exists. *)
LEMMA RunGrows ==
    ASSUME NEW a, NEW s, NEW n \in Nat, NEW f, IsRun(f, a, s, n)
    PROVE  \E g : IsRun(g, a, s, n + 1)
<1> DEFINE g == [i \in 0 .. n + 1 |-> IF i = n + 1 THEN Turn(f[n], s[i]) ELSE f[i]]
<1>1. ASSUME NEW i \in 0 .. n + 1
      PROVE  g[i] = IF i = 0 THEN a ELSE Turn(g[i-1], s[i])
  <2>1. CASE i = n + 1
    BY <2>1
  <2>2. CASE i # n + 1
    <3>1. i \in 0 .. n /\ (i # 0 => i - 1 \in 0 .. n)
      BY <2>2
    <3>2. g[i] = f[i] /\ (i # 0 => g[i-1] = f[i-1])
      BY <3>1
    <3>3. (i = 0 => f[i] = a) /\ (i # 0 => f[i] = Turn(f[i-1], s[i]))
      BY <3>1 DEF IsRun
    <3> QED
      BY <3>2, <3>3
  <2> QED
    BY <2>1, <2>2
<1>2. IsRun(g, a, s, n + 1)
  BY <1>1 DEF IsRun
<1> HIDE DEF g
<1> QED
  BY <1>2, Zenon

LEMMA RunExists ==
    ASSUME NEW a, NEW s
    PROVE  \A n \in Nat : \E f : IsRun(f, a, s, n)
<1> DEFINE N == {n \in Nat : \E f : IsRun(f, a, s, n)}
<1>1. 0 \in N
  <2> DEFINE f == [i \in 0 .. 0 |-> a]
  <2>1. f = [i \in 0 .. 0 |-> IF i = 0 THEN a ELSE Turn(f[i-1], s[i])]
    OBVIOUS
  <2>2. IsRun(f, a, s, 0)
    BY <2>1 DEF IsRun
  <2> HIDE DEF f
  <2>3. \E ff : IsRun(ff, a, s, 0)
    BY <2>2, Zenon
  <2>4. 0 \in Nat
    OBVIOUS
  <2> QED
    BY <2>3, <2>4, Zenon
<1>2. \A n \in Nat : n \in N => n + 1 \in N
  <2> SUFFICES ASSUME NEW n \in Nat, n \in N PROVE n + 1 \in N
    BY Zenon
  <2>1. PICK f : IsRun(f, a, s, n)
    BY Zenon
  <2>2. \E g : IsRun(g, a, s, n + 1)
    BY <2>1, RunGrows, Zenon
  <2>3. n + 1 \in Nat
    OBVIOUS
  <2> QED
    BY <2>2, <2>3, Zenon
<1> HIDE DEF N
<1>3. \A n \in Nat : n \in N
  BY <1>1, <1>2, NatInd
<1> QED
  BY <1>3, Zenon DEF N

(* What the recursion says of its values. *)
Runs(f, a, s, n) == f[0] = a /\ \A i \in 1 .. n : f[i] = Turn(f[i-1], s[i])

(* Runs over streams that begin alike are equal up to there. *)
LEMMA RunUnique ==
    ASSUME NEW a, NEW s, NEW t, NEW n \in Nat, NEW m \in Nat, n <= m,
           \A i \in 1 .. n : s[i] = t[i],
           NEW f, Runs(f, a, s, n), NEW g, Runs(g, a, t, m)
    PROVE  f[n] = g[n]
<1> DEFINE N == {i \in Nat : i \in 0 .. n => f[i] = g[i]}
<1>1. 0 \in N
  BY DEF Runs
<1>2. ASSUME NEW i \in Nat, i \in N PROVE i + 1 \in N
  <2> SUFFICES ASSUME i + 1 \in 0 .. n PROVE f[i + 1] = g[i + 1]
    OBVIOUS
  <2>1. i + 1 \in 1 .. n /\ i + 1 \in 1 .. m /\ i + 1 - 1 = i
    OBVIOUS
  <2>2. f[i + 1] = Turn(f[i], s[i + 1]) /\ g[i + 1] = Turn(g[i], t[i + 1])
    BY <2>1 DEF Runs
  <2>3. f[i] = g[i] /\ s[i + 1] = t[i + 1]
    BY <1>2, <2>1
  <2> QED
    BY <2>2, <2>3
<1> HIDE DEF N
<1>3. \A i \in Nat : i \in N
  BY <1>1, <1>2, NatInd
<1> QED
  BY <1>3 DEF N

(* Parse is the last of them. *)
LEMMA RunOf ==
    ASSUME NEW S, NEW s \in Seq(S), NEW a
    PROVE  \E f : Runs(f, a, s, Len(s)) /\ Parse(a, s) = f[Len(s)]
<1> DEFINE f == CHOOSE f : f = [i \in 0 .. Len(s) |-> IF i = 0 THEN a ELSE Turn(f[i-1], s[i])]
<1>0. Len(s) \in Nat
  BY LenProperties
<1>1. \E ff : ff = [i \in 0 .. Len(s) |-> IF i = 0 THEN a ELSE Turn(ff[i-1], s[i])]
  <2>1. \E ff : IsRun(ff, a, s, Len(s))
    BY <1>0, RunExists, Zenon
  <2> QED
    BY <2>1, Zenon DEF IsRun
<1>2. f = [i \in 0 .. Len(s) |-> IF i = 0 THEN a ELSE Turn(f[i-1], s[i])]
  BY <1>1, Zenon
<1>3. Parse(a, s) = f[Len(s)]
  BY Zenon DEF Parse, Turn
<1> HIDE DEF f
<1>4. Runs(f, a, s, Len(s))
  BY <1>0, <1>2 DEF Runs
<1> QED
  BY <1>3, <1>4, Zenon

(* Parse of no byte, and of one more. *)
LEMMA ParseEmpty == \A a : Parse(a, <<>>) = a
<1> TAKE a
<1>1. <<>> \in Seq({}) /\ Len(<<>>) = 0
  BY EmptySeq
<1>2. PICK f : Runs(f, a, <<>>, 0) /\ Parse(a, <<>>) = f[0]
  BY <1>1, RunOf
<1> QED
  BY <1>2 DEF Runs

LEMMA ParseAppend ==
    ASSUME NEW a, NEW s \in Seq(Byte), NEW b \in Byte
    PROVE  Parse(a, Append(s, b)) = Turn(Parse(a, s), b)
<1>n. PICK n \in Nat : n = Len(s)
  BY LenProperties
<1>m. PICK m \in Nat : m = n + 1
  OBVIOUS
<1>t. PICK t \in Seq(Byte) : t = Append(s, b)
  BY AppendProperties
<1>1. /\ Len(t) = m /\ t[m] = b
      /\ \A i \in 1 .. n : s[i] = t[i]
  BY <1>n, <1>m, <1>t, AppendProperties
<1>2. PICK g : Runs(g, a, t, m) /\ Parse(a, t) = g[m]
  BY <1>1, RunOf, Zenon
<1>3. PICK f : Runs(f, a, s, n) /\ Parse(a, s) = f[n]
  BY <1>n, RunOf, Zenon
<1>4. g[m] = Turn(g[n], b)
  <2>1. m \in 1 .. m /\ m - 1 = n
    BY <1>m
  <2> QED
    BY <1>1, <1>2, <2>1 DEF Runs
<1>5. f[n] = g[n]
  <2>1. n <= m /\ \A i \in 1 .. n : s[i] = t[i]
    BY <1>1, <1>m
  <2>2. Runs(f, a, s, n) /\ Runs(g, a, t, m)
    BY <1>2, <1>3
  <2> HIDE <1>1, <1>2
  <2> QED
    BY <2>1, <2>2, RunUnique
<1> QED
  BY <1>2, <1>3, <1>4, <1>5, <1>t

(* A turn of the loop is Step, which keeps the types. *)
LEMMA TurnIsStep == \A r, b : Turn(r, b) = Step(r, b)
BY DEF Turn

Results == [parser : ParserStates, out : Seq(Seq(Byte))]

LEMMA StepType ==
    ASSUME NEW r \in Results, NEW b \in Byte
    PROVE  Step(r, b) \in Results
<1>1. r.parser \in ParserStates /\ r.out \in Seq(Seq(Byte))
  BY DEF Results
<1>2. Feed(r.parser, b) \in ParserStates
  BY <1>1, FeedType
<1>3. r.parser.buf \in Seq(Byte)
  BY <1>1 DEF ParserStates
<1>4. (IF Delivers(r.parser, b) THEN Append(r.out, r.parser.buf) ELSE r.out) \in Seq(Seq(Byte))
  BY <1>1, <1>3, AppendProperties
<1> QED
  BY <1>2, <1>4 DEF Step, Results

LEMMA ParseType ==
    ASSUME NEW r \in Results
    PROVE  \A s \in Seq(Byte) : Parse(r, s) \in Results
<1> DEFINE T == {s \in Seq(Byte) : Parse(r, s) \in Results}
<1>1. <<>> \in T
  BY ParseEmpty, EmptySeq
<1>2. ASSUME NEW s \in Seq(Byte), NEW b \in Byte, s \in T PROVE Append(s, b) \in T
  <2>1. Parse(r, s) \in Results
    BY <1>2
  <2>2. Parse(r, Append(s, b)) = Step(Parse(r, s), b)
    BY ParseAppend, TurnIsStep
  <2>3. Parse(r, Append(s, b)) \in Results
    BY <2>1, <2>2, StepType
  <2> QED
    BY <2>3, AppendProperties
<1> HIDE DEF T
<1>3. \A s \in Seq(Byte) : s \in T
  BY <1>1, <1>2, SeqInd
<1> QED
  BY <1>3 DEF T

(* Bytes can be parsed in parts. *)
LEMMA ParseConcat ==
    ASSUME NEW r, NEW s \in Seq(Byte)
    PROVE  \A t \in Seq(Byte) : Parse(r, s \o t) = Parse(Parse(r, s), t)
<1> DEFINE T == {t \in Seq(Byte) : Parse(r, s \o t) = Parse(Parse(r, s), t)}
<1>1. <<>> \in T
  BY ParseEmpty, ConcatEmptySeq, EmptySeq
<1>2. ASSUME NEW t \in Seq(Byte), NEW b \in Byte, t \in T PROVE Append(t, b) \in T
  <2>1. s \o t \in Seq(Byte)
    BY ConcatProperties
  <2>2. s \o Append(t, b) = Append(s \o t, b)
    <3>1. Append(t, b) = t \o <<b>> /\ Append(s \o t, b) = (s \o t) \o <<b>>
      BY <2>1, AppendIsConcat
    <3>2. <<b>> \in Seq(Byte)
      OBVIOUS
    <3> QED
      BY <3>1, <3>2, ConcatAssociative
  <2>3. Parse(r, Append(s \o t, b)) = Turn(Parse(r, s \o t), b)
    BY <2>1, ParseAppend
  <2>4. Parse(Parse(r, s), Append(t, b)) = Turn(Parse(Parse(r, s), t), b)
    BY ParseAppend
  <2> QED
    BY <1>2, <2>2, <2>3, <2>4, AppendProperties
<1> HIDE DEF T
<1>3. \A t \in Seq(Byte) : t \in T
  BY <1>1, <1>2, SeqInd
<1> QED
  BY <1>3 DEF T

(* The first byte is parsed first. *)
LEMMA ParseHead ==
    ASSUME NEW r, NEW b \in Byte, NEW t \in Seq(Byte)
    PROVE  Parse(r, <<b>> \o t) = Parse(Step(r, b), t)
<1>1. <<b>> \in Seq(Byte) /\ <<b>> = Append(<<>>, b) /\ <<>> \in Seq(Byte)
  OBVIOUS
<1>2. Parse(r, <<b>>) = Step(r, b)
  <2>1. Parse(r, Append(<<>>, b)) = Turn(Parse(r, <<>>), b)
    BY <1>1, ParseAppend, Zenon
  <2>2. Turn(r, b) = Step(r, b) /\ Parse(r, <<>>) = r
    BY TurnIsStep, ParseEmpty, Zenon
  <2> QED
    BY <1>1, <2>1, <2>2
<1>3. Parse(r, <<b>> \o t) = Parse(Parse(r, <<b>>), t)
  BY <1>1, ParseConcat
<1> QED
  BY <1>2, <1>3

----------------------------------------------------------------------------
(* One frame. *)

(* Short tuples. *)
LEMMA Tuples ==
    ASSUME NEW S, NEW a \in S, NEW b \in S, NEW c \in S
    PROVE  /\ <<a>> \in Seq(S) /\ <<a, b>> \in Seq(S)
           /\ Len(<<a>>) = 1 /\ Len(<<a, b>>) = 2
           /\ <<a, b>> = <<a>> \o <<b>>
           /\ <<a, b, c>> = <<a>> \o <<b, c>>
           /\ <<a>> \o <<>> = <<a>>
           /\ \A s \in Seq(S) : Len(<<a>> \o s) = Len(s) + 1
<1>1. <<a>> \in Seq(S)
  OBVIOUS
<1>2. <<a, b>> \in Seq(S)
  OBVIOUS
<1>3. Len(<<a>>) = 1 
  OBVIOUS
<1>4. Len(<<a, b>>) = 2
  OBVIOUS
<1>5. <<a, b>> = <<a>> \o <<b>>
  <2>1. <<a, b>> = Append(<<a>>, b)
    OBVIOUS
  <2>2. Append(<<a>>, b) = <<a>> \o <<b>>
    BY <1>1, AppendIsConcat
  <2> QED
    BY <2>1, <2>2
<1>6. <<a, b, c>> = <<a>> \o <<b, c>>
  OBVIOUS
<1>7. <<a>> \o <<>> = <<a>>
  BY <1>1, ConcatEmptySeq
<1>8. \A s \in Seq(S) : Len(<<a>> \o s) = Len(s) + 1
  BY <1>1, <1>3, ConcatProperties, LenProperties
<1> QED
  BY <1>1, <1>2, <1>3, <1>4, <1>5, <1>6, <1>7, <1>8, Zenon

LEMMA ByteTuples ==
    \A a, b, c \in Byte :
       /\ <<a>> \in Seq(Byte) /\ <<a, b>> \in Seq(Byte)
       /\ Len(<<a>>) = 1 /\ Len(<<a, b>>) = 2
       /\ <<a, b>> = <<a>> \o <<b>>
       /\ <<a, b, c>> = <<a>> \o <<b, c>>
       /\ <<a>> \o <<>> = <<a>>
<1> TAKE a, b, c \in Byte
<1>1. <<a>> \in Seq(Byte) /\ <<a, b>> \in Seq(Byte)
  BY Tuples
<1>5. Len(<<a>>) = 1 /\ Len(<<a, b>>) = 2
  <2>1. Len(<<a>>) = 1
    OBVIOUS
  <2>2. Len(<<a, b>>) = 2
    OBVIOUS
  <2> QED
    BY <2>1, <2>2, Zenon
<1>2. <<a, b>> = <<a>> \o <<b>>
  <2>1. <<a, b>> = Append(<<a>>, b)
    OBVIOUS
  <2>2. Append(<<a>>, b) = <<a>> \o <<b>>
    BY <1>1, AppendIsConcat
  <2> QED
    BY <2>1, <2>2
<1>3. <<a, b, c>> = <<a>> \o <<b, c>>
  OBVIOUS
<1>4. <<a>> \o <<>> = <<a>>
  BY <1>1, ConcatEmptySeq
<1> QED
  BY <1>1, <1>2, <1>3, <1>4, <1>5, Zenon

(* Front takes off what Append has put on. *)
LEMMA FrontAppend ==
    ASSUME NEW S, NEW s \in Seq(S), NEW e \in S
    PROVE  Front(Append(s, e)) = s
<1>1. PICK t \in Seq(S) : t = Append(s, e)
  BY AppendProperties
<1>2. PICK n \in Nat : n = Len(s)
  BY LenProperties
<1>3. Len(t) = n + 1 /\ \A i \in 1 .. n : t[i] = s[i]
  BY <1>1, <1>2, AppendProperties
<1>4. \A i \in 1 .. n : t[i] \in S
  BY <1>2, <1>3, ElementOfSeq
<1>5. /\ SubSeq(t, 1, n) \in Seq(S) /\ Len(SubSeq(t, 1, n)) = n
      /\ \A i \in 1 .. n : SubSeq(t, 1, n)[i] = t[i]
  BY <1>4, SubSeqProperties
<1>6. SubSeq(t, 1, n) = s
  BY <1>2, <1>3, <1>5, SeqEqual
<1>7. Len(t) - 1 = n
  BY <1>3
<1> QED
  BY <1>1, <1>6, <1>7 DEF Front

(* The length byte of a frame does not wrap around. *)
LEMMA LengthByte ==
    ASSUME NEW k \in Nat, k < 255
    PROVE  (k + 1) % 256 = k + 1 /\ k + 1 \in Byte /\ k + 1 # 0
BY DEF Byte
LEMMA SmallBytes == 255 \in Byte /\ 85 \in Byte /\ 0 \in Byte
BY DEF Byte

(* The parser inside a frame of length byte n, after the bytes s of it. *)
Inside(n, s) == [at |-> 3, max |-> n, crc |-> CheckSum(n, s), buf |-> s]

(* A byte of the payload, and the payload as a whole. *)
LEMMA PayloadStep ==
    ASSUME NEW n \in Byte, NEW o, NEW s \in Seq(Byte), NEW b \in Byte,
           n = 0 \/ Len(s) < n - 1
    PROVE  Step([parser |-> Inside(n, s), out |-> o], b)
             = [parser |-> Inside(n, Append(s, b)), out |-> o]
<1> DEFINE p == Inside(n, s)
<1>1. /\ p.at = 3 /\ p.max = n /\ p.crc = CheckSum(n, s) /\ p.buf = s
      /\ p = [at |-> 3, max |-> n, crc |-> CheckSum(n, s), buf |-> s]
  BY DEF Inside
<1> HIDE DEF p
<1>2. Filling(p)
  BY <1>1 DEF Filling
<1>3. ~Delivers(p, b)
  BY <1>2 DEF Delivers
<1>4. Feed(p, b) = [p EXCEPT !.crc = AddByte(@, b), !.buf = Append(@, b)]
  BY <1>1, <1>2 DEF Feed
<1>5. CheckSum(n, Append(s, b)) = AddByte(CheckSum(n, s), b)
  BY CheckSumAppend
<1>6. Feed(p, b) = Inside(n, Append(s, b))
  BY <1>1, <1>4, <1>5 DEF Inside
<1> QED
  BY <1>3, <1>6 DEF Step, p

LEMMA PayloadParse ==
    ASSUME NEW n \in Byte, NEW o
    PROVE  \A s \in Seq(Byte) :
             n = 0 \/ Len(s) < n =>
                Parse([parser |-> Inside(n, <<>>), out |-> o], s)
                  = [parser |-> Inside(n, s), out |-> o]
<1> DEFINE r == [parser |-> Inside(n, <<>>), out |-> o]
           Q(s) == n = 0 \/ Len(s) < n => Parse(r, s) = [parser |-> Inside(n, s), out |-> o]
           T == {s \in Seq(Byte) : Q(s)}
<1>1. <<>> \in T
  BY ParseEmpty, EmptySeq
<1>2. ASSUME NEW s \in Seq(Byte), NEW b \in Byte, s \in T PROVE Append(s, b) \in T
  <2> SUFFICES ASSUME n = 0 \/ Len(Append(s, b)) < n
               PROVE  Parse(r, Append(s, b)) = [parser |-> Inside(n, Append(s, b)), out |-> o]
    BY AppendProperties
  <2>1. Len(s) \in Nat /\ Len(Append(s, b)) = Len(s) + 1
    BY AppendProperties, LenProperties
  <2>2. n \in Nat /\ (n = 0 \/ Len(s) < n - 1) /\ (n = 0 \/ Len(s) < n)
    BY <2>1 DEF Byte
  <2>3. Parse(r, s) = [parser |-> Inside(n, s), out |-> o]
    BY <1>2, <2>2
  <2>4. Parse(r, Append(s, b)) = Step(Parse(r, s), b)
    BY ParseAppend, TurnIsStep
  <2> HIDE DEF r
  <2> QED
    BY <2>2, <2>3, <2>4, PayloadStep
<1> HIDE DEF T
<1>3. \A s \in Seq(Byte) : s \in T
  BY <1>1, <1>2, SeqInd
<1> QED
  BY <1>3 DEF T

(* FF outside a frame, then the two bytes that begin one. *)
LEMMA SyncStep ==
    ASSUME NEW r \in Results, r.parser.at \in {0, 1}
    PROVE  Step(r, 255) = [parser |-> [r.parser EXCEPT !.at = 1], out |-> r.out]
<1>1. ~Delivers(r.parser, 255)
  BY DEF Delivers
<1>2. Feed(r.parser, 255) = [r.parser EXCEPT !.at = 1]
  BY DEF Feed, Sync
<1> QED
  BY <1>1, <1>2 DEF Step

LEMMA HeaderParse ==
    ASSUME NEW r \in Results, r.parser.at = 1, NEW n \in Byte
    PROVE  Parse(r, <<85, n>>) = [parser |-> Inside(n, <<>>), out |-> r.out]
<1> DEFINE p == r.parser
           q == [p EXCEPT !.at = 2]
<1>0. p \in [at : 0 .. 3, max : Byte, crc : Byte, buf : Seq(Byte)] /\ p.at = 1
  BY DEF Results, ParserStates
<1>1. Step(r, 85) = [parser |-> q, out |-> r.out]
  <2>1. ~Delivers(p, 85) /\ Feed(p, 85) = q
    BY <1>0 DEF Delivers, Feed, Sync
  <2> QED
    BY <2>1 DEF Step
<1>2. Step([parser |-> q, out |-> r.out], n) = [parser |-> Inside(n, <<>>), out |-> r.out]
  <2>1. q.at = 2
    BY <1>0
  <2> HIDE DEF q
  <2>2. ~Delivers(q, n) /\ Feed(q, n) = [at |-> 3, max |-> n, crc |-> n, buf |-> <<>>]
    BY <2>1 DEF Delivers, Feed
  <2>3. CheckSum(n, <<>>) = n
    BY CheckSumEmpty
  <2> QED
    BY <2>2, <2>3 DEF Step, Inside
<1>3. 85 \in Byte /\ <<n>> \in Seq(Byte) /\ <<>> \in Seq(Byte)
      /\ <<85, n>> = <<85>> \o <<n>> /\ <<n>> \o <<>> = <<n>>
  <2>1. 85 \in Byte
    BY SmallBytes, Zenon
  <2>2. <<>> \in Seq(Byte)
    BY EmptySeq
  <2>3. <<n>> \in Seq(Byte) /\ <<85, n>> = <<85>> \o <<n>> /\ <<n>> \o <<>> = <<n>>
    BY <2>1, ByteTuples, Zenon
  <2> QED
    BY <2>1, <2>2, <2>3, Zenon
<1>4. Parse(r, <<85, n>>) = Parse(Step(r, 85), <<n>>)
  <2>1. Parse(r, <<85>> \o <<n>>) = Parse(Step(r, 85), <<n>>)
    BY <1>3, ParseHead
  <2> QED
    BY <1>3, <2>1, Zenon
<1>5. \A x : Parse(x, <<n>>) = Step(x, n)
  <2> TAKE x
  <2>1. Parse(x, <<n>> \o <<>>) = Parse(Step(x, n), <<>>)
    BY <1>3, ParseHead
  <2>2. Parse(Step(x, n), <<>>) = Step(x, n)
    BY ParseEmpty
  <2> QED
    BY <1>3, <2>1, <2>2
<1> QED
  BY <1>1, <1>2, <1>4, <1>5

(* What a frame of length byte n and payload s delivers, of last byte b. *)
Good(n, s, b) == IF b = CheckSum(n, s) THEN <<s>> ELSE <<>>

(* Its two cases. *)
LEMMA GoodType ==
    ASSUME NEW n, NEW s \in Seq(Byte), NEW b
    PROVE  /\ Good(n, s, b) \in Seq(Seq(Byte))
           /\ b = CheckSum(n, s) => Good(n, s, b) = <<s>>
           /\ b # CheckSum(n, s) => Good(n, s, b) = <<>>
<1>1. <<s>> \in Seq(Seq(Byte)) /\ <<>> \in Seq(Seq(Byte))
  BY Tuples, EmptySeq
<1> QED
  BY <1>1 DEF Good

(* The end of a frame. *)
LEMMA LastByte ==
    ASSUME NEW n \in Byte, n # 0, NEW o \in Seq(Seq(Byte)),
           NEW s \in Seq(Byte), Len(s) = n - 1, NEW b \in Byte
    PROVE  Step([parser |-> Inside(n, s), out |-> o], b)
             = [parser |-> [Inside(n, s) EXCEPT !.at = 0], out |-> o \o Good(n, s, b)]
<1> DEFINE p == Inside(n, s)
<1>1. /\ p.at = 3 /\ p.max = n /\ p.crc = CheckSum(n, s) /\ p.buf = s
  BY DEF Inside
<1> HIDE DEF p
<1>2. ~Filling(p)
  BY <1>1 DEF Filling, Byte
<1>3. Feed(p, b) = [p EXCEPT !.at = 0]
  BY <1>1, <1>2 DEF Feed
<1>4. Delivers(p, b) <=> b = CheckSum(n, s)
  BY <1>1, <1>2 DEF Delivers
<1>5. (IF Delivers(p, b) THEN Append(o, p.buf) ELSE o) = o \o Good(n, s, b)
  <2>1. Append(o, s) = o \o <<s>> /\ o \o <<>> = o
    BY AppendIsConcat, ConcatEmptySeq
  <2>2. CASE b = CheckSum(n, s)
    BY <1>1, <1>4, <2>1, <2>2, GoodType
  <2>3. CASE b # CheckSum(n, s)
    BY <1>1, <1>4, <2>1, <2>3, GoodType
  <2> QED
    BY <2>2, <2>3
<1> QED
  BY <1>3, <1>5 DEF Step, p

(* The parts of a frame the driver builds. *)
LEMMA FrameType ==
    ASSUME NEW m \in Seq(Byte), Len(m) < 255
    PROVE  LET n == Len(m) + 1
               h == <<85, n>> \o m
               c == CheckSum(n, m)
           IN  /\ n \in Byte /\ n # 0 /\ c \in Byte /\ h \in Seq(Byte)
               /\ <<255>> \o h \in Seq(Byte)
               /\ Frame(m) = Append(<<255>> \o h, c)
               /\ Frame(m) \in Seq(Byte) /\ Len(Frame(m)) = Len(m) + 4
<1>0. Len(m) \in Nat
  BY LenProperties
<1>1. PICK n \in Byte : n = Len(m) + 1
  BY <1>0, LengthByte
<1>2. Len(m) \in Nat /\ n # 0 /\ (Len(m) + 1) % 256 = n
  BY <1>0, <1>1, LengthByte
<1>3. PICK c \in Byte : c = CheckSum(n, m)
  BY CheckSumType
<1>b. 255 \in Byte /\ 85 \in Byte
  BY SmallBytes
<1>5. /\ <<255>> \in Seq(Byte) /\ <<c>> \in Seq(Byte) /\ <<85, n>> \in Seq(Byte)
      /\ <<255, 85, n>> = <<255>> \o <<85, n>>
  BY <1>b, ByteTuples
<1>4. PICK h \in Seq(Byte) : h = <<85, n>> \o m
  <2>1. <<85, n>> \o m \in Seq(Byte)
    BY <1>5, ConcatProperties
  <2> QED
    BY <2>1
<1>6. <<255, 85, n>> \o m = <<255>> \o h
  <2>1. (<<255>> \o <<85, n>>) \o m = <<255>> \o (<<85, n>> \o m)
    BY <1>5, ConcatAssociative
  <2> QED
    BY <1>4, <1>5, <2>1, Zenon
<1>7. PICK g \in Seq(Byte) : g = <<255>> \o h
  BY <1>5, ConcatProperties
<1>8. Frame(m) = g \o <<c>>
  BY <1>2, <1>3, <1>6, <1>7 DEF Frame
<1>9. g \o <<c>> = Append(g, c)
  BY AppendIsConcat
<1>10. Len(h) = Len(m) + 2 /\ Len(g) = Len(h) + 1
  <2>1. Len(<<85, n>>) = 2 /\ Len(<<255>>) = 1
    OBVIOUS
  <2> QED
    BY <1>4, <1>5, <1>7, <2>1, ConcatProperties, LenProperties
<1>11. Append(g, c) \in Seq(Byte) /\ Len(Append(g, c)) = Len(m) + 4
  <2>1. Append(g, c) \in Seq(Byte) /\ Len(Append(g, c)) = Len(g) + 1
    BY AppendProperties
  <2> QED
    BY <1>2, <1>10, <2>1
<1> QED
  BY <1>1, <1>2, <1>3, <1>4, <1>7, <1>8, <1>9, <1>11

(* A frame is taken in whole, at its last byte and not before.  This and what
   follows is about Feed, which is the driver's parser as long as no byte
   overruns buffFromMCU: what holds of the driver is said, with that limit, by
   ParserDeliversFrames and FramesRoundTrip of McuReceiveProofs. *)
LEMMA FrameParse ==
    ASSUME NEW r \in Results, r.parser.at \in {0, 1},
           NEW m \in Seq(Byte), Len(m) < 255
    PROVE  /\ Parse(r, Frame(m)).parser.at = 0
           /\ Parse(r, Frame(m)).out = Append(r.out, m)
           /\ Parse(r, Front(Frame(m))).out = r.out
<1>1. PICK n \in Byte : n = Len(m) + 1
  BY FrameType
<1>2. PICK c \in Byte : c = CheckSum(n, m)
  BY <1>1, FrameType
<1>3. PICK h \in Seq(Byte) : h = <<85, n>> \o m
  BY <1>1, FrameType
<1>4. PICK g \in Seq(Byte) : g = <<255>> \o h
  BY <1>1, <1>3, FrameType
<1>5. Frame(m) = Append(g, c) /\ n # 0
  BY <1>1, <1>2, <1>3, <1>4, FrameType
<1>6. PICK a \in Results : a = Step(r, 255) /\ a.parser.at = 1 /\ a.out = r.out
  <2>1. 255 \in Byte
    BY DEF Byte
  <2>2. Step(r, 255) \in Results
    BY <2>1, StepType
  <2>3. Step(r, 255) = [parser |-> [r.parser EXCEPT !.at = 1], out |-> r.out]
    BY SyncStep
  <2>4. r.parser \in [at : 0 .. 3, max : Byte, crc : Byte, buf : Seq(Byte)]
    BY DEF Results, ParserStates
  <2> QED
    BY <2>2, <2>3, <2>4
<1>7. Parse(r, g) = Parse(a, h)
  <2>1. 255 \in Byte
    BY DEF Byte
  <2> QED
    BY <1>4, <1>6, <2>1, ParseHead
<1>8. Parse(a, h) = Parse(Parse(a, <<85, n>>), m)
  <2>1. <<85, n>> \in Seq(Byte)
    BY SmallBytes, ByteTuples
  <2>2. Parse(a, <<85, n>> \o m) = Parse(Parse(a, <<85, n>>), m)
    BY <2>1, ParseConcat
  <2> QED
    BY <1>3, <2>2
<1>9. Parse(a, <<85, n>>) = [parser |-> Inside(n, <<>>), out |-> r.out]
  BY <1>6, HeaderParse
<1>10. Parse(r, g) = [parser |-> Inside(n, m), out |-> r.out]
  <2>1. Len(m) < n
    BY <1>1, LenProperties
  <2> QED
    BY <1>7, <1>8, <1>9, <2>1, PayloadParse
<1>11. Parse(r, Frame(m)) = Step(Parse(r, g), c)
  BY <1>5, ParseAppend, TurnIsStep
<1>12. Step([parser |-> Inside(n, m), out |-> r.out], c)
         = [parser |-> [Inside(n, m) EXCEPT !.at = 0], out |-> Append(r.out, m)]
  <2>1. Len(m) = n - 1 /\ n # 0 /\ r.out \in Seq(Seq(Byte))
    BY <1>1, <1>5, LenProperties DEF Results
  <2>2. Step([parser |-> Inside(n, m), out |-> r.out], c)
          = [parser |-> [Inside(n, m) EXCEPT !.at = 0], out |-> r.out \o Good(n, m, c)]
    BY <2>1, LastByte
  <2>3. r.out \o Good(n, m, c) = Append(r.out, m)
    <3>1. Good(n, m, c) = <<m>>
      BY <1>2, GoodType
    <3> QED
      BY <2>1, <3>1, AppendIsConcat
  <2> QED
    BY <2>2, <2>3
<1>13. [Inside(n, m) EXCEPT !.at = 0].at = 0
  BY DEF Inside
<1>14. Front(Frame(m)) = g
  <2>1. Front(Append(g, c)) = g
    BY FrontAppend
  <2> QED
    BY <1>5, <2>1
<1>15. Parse(r, Frame(m)) = [parser |-> [Inside(n, m) EXCEPT !.at = 0],
                             out    |-> Append(r.out, m)]
  BY <1>10, <1>11, <1>12
<1>16. Parse(r, Frame(m)).parser.at = 0 /\ Parse(r, Frame(m)).out = Append(r.out, m)
  <2> DEFINE x == Parse(r, Frame(m))
             p == [Inside(n, m) EXCEPT !.at = 0]
  <2>1. x = [parser |-> p, out |-> Append(r.out, m)] /\ p.at = 0
    BY <1>13, <1>15, Zenon
  <2> HIDE DEF x, p
  <2>2. x.parser.at = 0 /\ x.out = Append(r.out, m)
    BY <2>1
  <2> QED
    BY <2>2 DEF x
<1>17. Parse(r, Front(Frame(m))).out = r.out
  BY <1>10, <1>14
<1> QED
  BY <1>16, <1>17, Zenon

(* Zeros between frames change nothing. *)
LEMMA ZerosParse ==
    ASSUME NEW r \in Results, r.parser.at = 0
    PROVE  \A s \in Seq(Byte) : (\A i \in 1 .. Len(s) : s[i] = 0) => Parse(r, s) = r
<1> DEFINE T == {s \in Seq(Byte) : (\A i \in 1 .. Len(s) : s[i] = 0) => Parse(r, s) = r}
<1>0. r.parser \in [at : 0 .. 3, max : Byte, crc : Byte, buf : Seq(Byte)]
  BY DEF Results, ParserStates
<1>1. <<>> \in T
  BY ParseEmpty, EmptySeq
<1>2. ASSUME NEW s \in Seq(Byte), NEW b \in Byte, s \in T PROVE Append(s, b) \in T
  <2> SUFFICES ASSUME \A i \in 1 .. Len(Append(s, b)) : Append(s, b)[i] = 0
               PROVE  Parse(r, Append(s, b)) = r
    BY AppendProperties
  <2>1. /\ Len(s) \in Nat /\ Len(Append(s, b)) = Len(s) + 1
        /\ Append(s, b)[Len(s) + 1] = b /\ \A i \in 1 .. Len(s) : Append(s, b)[i] = s[i]
    BY AppendProperties, LenProperties
  <2>2. b = 0 /\ \A i \in 1 .. Len(s) : s[i] = 0
    BY <2>1
  <2>3. Parse(r, s) = r
    BY <1>2, <2>2
  <2>4. Parse(r, Append(s, b)) = Step(Parse(r, s), b)
    BY ParseAppend, TurnIsStep
  <2>5. Step(r, 0) = r
    <3>1. ~Delivers(r.parser, 0) /\ Feed(r.parser, 0) = [r.parser EXCEPT !.at = 0]
      BY DEF Delivers, Feed
    <3>2. [r.parser EXCEPT !.at = 0] = r.parser
      BY <1>0
    <3> QED
      BY <3>1, <3>2 DEF Step, Results
  <2> QED
    BY <2>2, <2>3, <2>4, <2>5
<1> HIDE DEF T
<1>3. \A s \in Seq(Byte) : s \in T
  BY <1>1, <1>2, SeqInd
<1> QED
  BY <1>3 DEF T

----------------------------------------------------------------------------
(* The good frames of a stream, as FramesOf finds them. *)

From(s, i) == SubSeq(s, i, Len(s))

(* What remains of a sequence from i on, its head, and a slice of it. *)
LEMMA FromType ==
    ASSUME NEW S, NEW s \in Seq(S), NEW i \in 1 .. Len(s) + 1
    PROVE  From(s, i) \in Seq(S) /\ Len(From(s, i)) = Len(s) + 1 - i
<1>1. PICK n \in Nat : n = Len(s)
  BY LenProperties
<1>2. \A j \in i .. n : s[j] \in S
  BY <1>1, ElementOfSeq
<1>3. i \in Int /\ n \in Int
  BY <1>1
<1>4. SubSeq(s, i, n) \in Seq(S) /\ Len(SubSeq(s, i, n)) = IF i <= n THEN n - i + 1 ELSE 0
  BY <1>2, <1>3, SubSeqProperties
<1>5. (IF i <= n THEN n - i + 1 ELSE 0) = n + 1 - i
  BY <1>1
<1> QED
  BY <1>1, <1>4, <1>5 DEF From

LEMMA FromHead ==
    ASSUME NEW S, NEW s \in Seq(S), NEW i \in 1 .. Len(s)
    PROVE  From(s, i) = <<s[i]>> \o From(s, i + 1)
<1>1. PICK n \in Nat : n = Len(s)
  BY LenProperties
<1>2. n \in i .. n
  BY <1>1
<1>3. SubSeq(s, i, n) = <<s[i]>> \o SubSeq(s, i + 1, n)
  BY <1>1, <1>2, SubSeqRecursiveFirst
<1> QED
  BY <1>1, <1>3 DEF From

LEMMA FromSplit ==
    ASSUME NEW S, NEW s \in Seq(S), NEW i \in 1 .. Len(s) + 1, NEW k \in i - 1 .. Len(s)
    PROVE  From(s, i) = SubSeq(s, i, k) \o From(s, k + 1)
<1>1. PICK n \in Nat : n = Len(s)
  BY LenProperties
<1>2. n \in k .. n
  BY <1>1
<1>3. SubSeq(s, i, k) \o SubSeq(s, k + 1, n) = SubSeq(s, i, n)
  BY <1>1, <1>2, ConcatAdjacentSubSeq
<1> QED
  BY <1>1, <1>3 DEF From

LEMMA SliceType ==
    ASSUME NEW S, NEW s \in Seq(S), NEW i \in 1 .. Len(s) + 1, NEW k \in i - 1 .. Len(s)
    PROVE  SubSeq(s, i, k) \in Seq(S) /\ Len(SubSeq(s, i, k)) = k + 1 - i
<1>1. PICK n \in Nat : n = Len(s)
  BY LenProperties
<1>2. \A j \in i .. k : s[j] \in S
  <2> TAKE j \in i .. k
  <2>1. j \in 1 .. Len(s)
    BY <1>1
  <2> QED
    BY <2>1, ElementOfSeq
<1>3. i \in Int /\ k \in Int
  BY <1>1
<1>4. SubSeq(s, i, k) \in Seq(S) /\ Len(SubSeq(s, i, k)) = IF i <= k THEN k - i + 1 ELSE 0
  BY <1>2, <1>3, SubSeqProperties
<1>5. (IF i <= k THEN k - i + 1 ELSE 0) = k + 1 - i
  BY <1>1
<1> QED
  BY <1>4, <1>5

(* The recursion of FramesOf: what follows a start at j, and from i on. *)
FirstStart(s, i) == CHOOSE j \in Starts(s, i) : \A k \in Starts(s, i) : j <= k

FrameAt(f, s, j) ==
    LET n == s[j + 2]
        m == SubSeq(s, j + 3, j + n + 1)
    IN  IF n = 0 \/ j + n + 2 > Len(s) THEN <<>>
        ELSE Good(n, m, s[j + n + 2]) \o f[j + n + 3]

ScanAt(f, s, i) == IF Starts(s, i) = {} THEN <<>> ELSE FrameAt(f, s, FirstStart(s, i))

(* The first start is one. *)
LEMMA FirstIsStart ==
    ASSUME NEW s \in Seq(Byte), NEW i \in 1 .. Len(s) + 1, Starts(s, i) # {}
    PROVE  /\ FirstStart(s, i) \in Starts(s, i)
           /\ \A k \in Starts(s, i) : FirstStart(s, i) <= k
<1>1. PICK n \in Nat : n = Len(s)
  BY LenProperties
<1>2. Starts(s, i) \subseteq Nat
  BY <1>1 DEF Starts
<1>3. \E j \in Starts(s, i) : \A k \in Starts(s, i) : j <= k
  BY <1>2, NatMin
<1> QED
  BY <1>3 DEF FirstStart

(* A place that is no start is passed over; a start is where its frame is. *)
LEMMA NotAStart ==
    ASSUME NEW s \in Seq(Byte), NEW i \in 1 .. Len(s), NEW f,
           ~(i + 3 <= Len(s) /\ s[i] = 255 /\ s[i + 1] = 85)
    PROVE  ScanAt(f, s, i) = ScanAt(f, s, i + 1)
<1>1. PICK n \in Nat : n = Len(s)
  BY LenProperties
<1>2. Starts(s, i) = Starts(s, i + 1)
  BY <1>1 DEF Starts
<1> QED
  BY <1>2 DEF ScanAt, FirstStart

LEMMA AtStart ==
    ASSUME NEW s \in Seq(Byte), NEW i \in 1 .. Len(s), NEW f,
           i + 3 <= Len(s), s[i] = 255, s[i + 1] = 85
    PROVE  ScanAt(f, s, i) = FrameAt(f, s, i)
<1>1. PICK n \in Nat : n = Len(s)
  BY LenProperties
<1>2. i \in Starts(s, i) /\ \A k \in Starts(s, i) : i <= k /\ k \in Nat
  BY <1>1 DEF Starts
<1>3. FirstStart(s, i) \in Starts(s, i) /\ FirstStart(s, i) <= i
  <2>1. i \in 1 .. Len(s) + 1
    BY <1>1
  <2> QED
    BY <1>2, <2>1, FirstIsStart
<1>4. FirstStart(s, i) = i
  BY <1>2, <1>3
<1> QED
  BY <1>2, <1>4 DEF ScanAt

(* There is no frame in the last three bytes. *)
LEMMA NoRoom ==
    ASSUME NEW s \in Seq(Byte), NEW i \in 1 .. Len(s) + 1, i + 3 > Len(s), NEW f
    PROVE  ScanAt(f, s, i) = <<>>
<1>1. PICK n \in Nat : n = Len(s)
  BY LenProperties
<1>2. Starts(s, i) = {}
  BY <1>1 DEF Starts
<1> QED
  BY <1>2 DEF ScanAt

(* f satisfies the recursion from i on. *)
IsScan(f, s, i) ==
    /\ DOMAIN f = 1 .. Len(s) + 1
    /\ \A k \in i .. Len(s) + 1 : f[k] = ScanAt(f, s, k)

(* It only looks ahead. *)
LEMMA ScanLooksAhead ==
    ASSUME NEW s \in Seq(Byte), NEW k \in 1 .. Len(s) + 1, NEW f, NEW g,
           \A i \in k + 1 .. Len(s) + 1 : f[i] = g[i]
    PROVE  ScanAt(f, s, k) = ScanAt(g, s, k)
<1>1. PICK l \in Nat : l = Len(s)
  BY LenProperties
<1>2. CASE Starts(s, k) = {}
  BY <1>2 DEF ScanAt
<1>3. CASE Starts(s, k) # {}
  <2>1. PICK j \in Starts(s, k) : j = FirstStart(s, k)
    BY <1>3, FirstIsStart
  <2>2. j \in k .. l - 3
    BY <1>1, <2>1 DEF Starts
  <2>3. PICK n \in Byte : n = s[j + 2]
    <3>1. j + 2 \in 1 .. Len(s)
      BY <1>1, <2>2
    <3>2. s[j + 2] \in Byte
      BY <3>1, ElementOfSeq
    <3> QED
      BY <3>2
  <2>4. n # 0 /\ j + n + 2 <= l => j + n + 3 \in k + 1 .. l + 1
    BY <1>1, <2>2 DEF Byte
  <2>5. n = 0 \/ j + n + 2 > l \/ f[j + n + 3] = g[j + n + 3]
    BY <1>1, <2>2, <2>4 DEF Byte
  <2>6. FrameAt(f, s, j) = FrameAt(g, s, j)
    BY <1>1, <2>3, <2>5 DEF FrameAt
  <2> QED
    BY <1>3, <2>1, <2>6 DEF ScanAt
<1> QED
  BY <1>2, <1>3

(* It goes on downwards, so it exists, and FramesOf is its first value. *)
LEMMA ScanGrows ==
    ASSUME NEW s \in Seq(Byte), NEW i \in 1 .. Len(s) + 1, NEW f, IsScan(f, s, i + 1)
    PROVE  \E g : IsScan(g, s, i)
<1>1. PICK l \in Nat : l = Len(s)
  BY LenProperties
<1> DEFINE g == [f EXCEPT ![i] = ScanAt(f, s, i)]
<1>2. DOMAIN f = 1 .. l + 1 /\ \A k \in i + 1 .. l + 1 : f[k] = ScanAt(f, s, k)
  BY <1>1 DEF IsScan
<1>3. DOMAIN g = 1 .. l + 1
  BY <1>2
<1>4. \A k \in 1 .. l + 1 : k # i => g[k] = f[k]
  BY <1>2
<1>5. g[i] = ScanAt(f, s, i)
  BY <1>1, <1>2
<1> HIDE DEF g
<1>6. ASSUME NEW k \in i .. l + 1 PROVE g[k] = ScanAt(g, s, k)
  <2>1. k \in 1 .. Len(s) + 1
    BY <1>1
  <2>2. \A h \in k + 1 .. Len(s) + 1 : f[h] = g[h]
    BY <1>1, <1>4
  <2>3. ScanAt(f, s, k) = ScanAt(g, s, k)
    BY <2>1, <2>2, ScanLooksAhead
  <2>4. CASE k = i
    BY <1>5, <2>3, <2>4
  <2>5. CASE k # i
    <3>1. k \in i + 1 .. l + 1 /\ k \in 1 .. l + 1
      BY <1>1, <2>5
    <3> QED
      BY <1>2, <1>4, <2>3, <2>5, <3>1
  <2> QED
    BY <2>4, <2>5
<1>7. IsScan(g, s, i)
  BY <1>1, <1>3, <1>6 DEF IsScan
<1> QED
  BY <1>7, Zenon

LEMMA ScanExists ==
    ASSUME NEW s \in Seq(Byte)
    PROVE  \E f : IsScan(f, s, 1)
<1>1. PICK l \in Nat : l = Len(s)
  BY LenProperties
<1> DEFINE N == {d \in Nat : d <= l + 1 => \E f : IsScan(f, s, l + 2 - d)}
<1>2. 0 \in N
  <2> DEFINE f == [i \in 1 .. l + 1 |-> <<>>]
  <2>1. IsScan(f, s, l + 2)
    BY <1>1 DEF IsScan
  <2> HIDE DEF f
  <2>2. \E g : IsScan(g, s, l + 2)
    BY <2>1, Zenon
  <2>3. l + 2 - 0 = l + 2
    OBVIOUS
  <2> QED
    BY <2>2, <2>3
<1>3. ASSUME NEW d \in Nat, d \in N PROVE d + 1 \in N
  <2> SUFFICES ASSUME d + 1 <= l + 1 PROVE \E f : IsScan(f, s, l + 2 - (d + 1))
    OBVIOUS
  <2>0. l + 1 - d \in 1 .. Len(s) + 1
    BY <1>1
  <2>1. PICK i \in 1 .. Len(s) + 1 : i = l + 1 - d
    BY <2>0
  <2>2. l + 2 - d = i + 1 /\ l + 2 - (d + 1) = i /\ d <= l + 1
    BY <2>1
  <2>3. PICK f : IsScan(f, s, i + 1)
    BY <1>3, <2>2
  <2>4. \E g : IsScan(g, s, i)
    BY <2>3, ScanGrows
  <2> QED
    BY <2>2, <2>4
<1> HIDE DEF N
<1>4. \A d \in Nat : d \in N
  BY <1>2, <1>3, NatInd
<1>5. l + 1 \in Nat /\ l + 1 <= l + 1 /\ l + 2 - (l + 1) = 1
  OBVIOUS
<1>6. l + 1 \in N
  BY <1>4, <1>5
<1>7. \E f : IsScan(f, s, l + 2 - (l + 1))
  BY <1>5, <1>6 DEF N
<1> QED
  BY <1>5, <1>7

LEMMA FramesOfScan ==
    ASSUME NEW s \in Seq(Byte)
    PROVE  \E f : IsScan(f, s, 1) /\ FramesOf(s) = f[1]
<1> DEFINE f == CHOOSE f : f = [i \in 1 .. Len(s) + 1 |-> ScanAt(f, s, i)]
<1>2. FramesOf(s) = f[1]
  BY DEF FramesOf, ScanAt, FrameAt, FirstStart, Good
<1>1. \E g : g = [i \in 1 .. Len(s) + 1 |-> ScanAt(g, s, i)]
  <2>1. PICK f0 : IsScan(f0, s, 1)
    BY ScanExists
  <2> DEFINE g == [i \in 1 .. Len(s) + 1 |-> f0[i]]
  <2>2. ASSUME NEW i \in 1 .. Len(s) + 1 PROVE ScanAt(f0, s, i) = ScanAt(g, s, i)
    <3>1. \A k \in i + 1 .. Len(s) + 1 : f0[k] = g[k]
      BY LenProperties
    <3> QED
      BY <3>1, ScanLooksAhead
  <2>3. \A i \in 1 .. Len(s) + 1 : g[i] = ScanAt(g, s, i)
    BY <2>1, <2>2 DEF IsScan
  <2>4. g = [i \in 1 .. Len(s) + 1 |-> ScanAt(g, s, i)]
    BY <2>3
  <2> HIDE DEF g
  <2> QED
    BY <2>4, Zenon
<1>3. f = [i \in 1 .. Len(s) + 1 |-> ScanAt(f, s, i)]
  BY <1>1, Zenon
<1> HIDE DEF f
<1>4. IsScan(f, s, 1)
  BY <1>3 DEF IsScan
<1> QED
  BY <1>2, <1>4, Zenon

----------------------------------------------------------------------------
(* The parser delivers the good frames. *)

(* The parser outside a frame, on what remains of s from i on. *)
ScanAgrees(f, s, i) ==
    /\ f[i] \in Seq(Seq(Byte))
    /\ \A r \in Results : r.parser.at = 0 => Parse(r, From(s, i)).out = r.out \o f[i]

(* The parts of what Parse returns. *)
LEMMA ResultParts ==
    ASSUME NEW r \in Results
    PROVE  /\ r.out \in Seq(Seq(Byte))
           /\ r.parser \in [at : 0 .. 3, max : Byte, crc : Byte, buf : Seq(Byte)]
           /\ r.out \o <<>> = r.out
BY ConcatEmptySeq DEF Results, ParserStates

(* A parser set back to the start of a frame. *)
LEMMA OutsideType ==
    ASSUME NEW r \in Results, NEW i \in {0, 1}
    PROVE  [parser |-> [r.parser EXCEPT !.at = i], out |-> r.out] \in Results
BY DEF Results, ParserStates

(* A byte that is not FF leaves the parser outside a frame. *)
LEMMA OtherByte ==
    ASSUME NEW r \in Results, r.parser.at = 0, NEW b \in Byte, b # 255
    PROVE  Step(r, b) = r
<1>0. r = [parser |-> r.parser, out |-> r.out]
  BY DEF Results
<1>1. ~Delivers(r.parser, b) /\ Feed(r.parser, b) = [r.parser EXCEPT !.at = 0]
  BY DEF Delivers, Feed
<1>2. [r.parser EXCEPT !.at = 0] = r.parser
  BY ResultParts
<1> QED
  BY <1>0, <1>1, <1>2 DEF Step

(* After FF, every byte but 55 is taken as it is outside a frame. *)
LEMMA AfterFF ==
    ASSUME NEW r \in Results, r.parser.at = 1, NEW b \in Byte, b # 85
    PROVE  Step(r, b) = Step([parser |-> [r.parser EXCEPT !.at = 0], out |-> r.out], b)
<1> DEFINE p == r.parser
           q == [p EXCEPT !.at = 0]
<1>1. p \in [at : 0 .. 3, max : Byte, crc : Byte, buf : Seq(Byte)] /\ p.at = 1
  BY ResultParts
<1>2. q.at = 0
  BY <1>1
<1>e. PICK i : i = IF b = 255 THEN 1 ELSE 0
  OBVIOUS
<1>3. Feed(p, b) = [p EXCEPT !.at = i]
  BY <1>1, <1>e DEF Feed, Sync
<1>4. Feed(q, b) = [q EXCEPT !.at = i]
  BY <1>2, <1>e DEF Feed
<1>5. Feed(p, b) = Feed(q, b)
  BY <1>1, <1>3, <1>4
<1>6. ~Delivers(p, b) /\ ~Delivers(q, b)
  BY <1>1, <1>2 DEF Delivers
<1> QED
  BY <1>5, <1>6 DEF Step

(* Bytes that are all of the payload, or none, deliver nothing. *)
LEMMA Unfinished ==
    ASSUME NEW n \in Byte, NEW o, NEW s \in Seq(Byte), n = 0 \/ Len(s) < n
    PROVE  Parse([parser |-> Inside(n, <<>>), out |-> o], s).out = o
<1> DEFINE r == [parser |-> Inside(n, <<>>), out |-> o]
<1>1. Parse(r, s) = [parser |-> Inside(n, s), out |-> o]
  BY PayloadParse
<1> HIDE DEF r
<1> QED
  BY <1>1 DEF r

(* A frame that is complete. *)
EndsFrame(n, o, m, b, t) ==
    \E r \in Results :
       /\ r.parser.at = 0 /\ r.out = o \o Good(n, m, b)
       /\ Parse([parser |-> Inside(n, <<>>), out |-> o], m \o (<<b>> \o t)) = Parse(r, t)

(* The bytes of a whole frame end it. *)
LEMMA Finished ==
    ASSUME NEW n \in Byte, n # 0, NEW o \in Seq(Seq(Byte)),
           NEW m \in Seq(Byte), Len(m) = n - 1, NEW b \in Byte, NEW t \in Seq(Byte)
    PROVE  EndsFrame(n, o, m, b, t)
<1> DEFINE p == [parser |-> Inside(n, <<>>), out |-> o]
           x == Step(Parse(p, m), b)
<1>1. p \in Results
  <2>1. Inside(n, <<>>) \in ParserStates
    <3>1. /\ <<>> \in Seq(Byte) /\ Len(<<>>) = 0 /\ CheckSum(n, <<>>) = n
      BY EmptySeq, CheckSumEmpty
    <3>2. n # 0 => 0 < n
      BY DEF Byte
    <3> QED
      BY <3>1, <3>2 DEF Inside, ParserStates
  <2> QED
    BY <2>1 DEF Results
<1> HIDE DEF p
<1>2. Parse(p, m) \in Results
  BY <1>1, ParseType
<1>3. x \in Results
  BY <1>2, StepType
<1>4. <<b>> \o t \in Seq(Byte)
  <2>1. <<b>> \in Seq(Byte)
    BY ByteTuples
  <2> QED
    BY <2>1, ConcatProperties
<1>5. Parse(p, m \o (<<b>> \o t)) = Parse(x, t)
  <2>1. Parse(p, m \o (<<b>> \o t)) = Parse(Parse(p, m), <<b>> \o t)
    BY <1>4, ParseConcat
  <2>2. Parse(Parse(p, m), <<b>> \o t) = Parse(x, t)
    BY ParseHead
  <2> QED
    BY <2>1, <2>2
<1>6. x = [parser |-> [Inside(n, m) EXCEPT !.at = 0], out |-> o \o Good(n, m, b)]
  <2>1. Len(m) < n
    BY LenProperties DEF Byte
  <2>2. Parse(p, m) = [parser |-> Inside(n, m), out |-> o]
    BY <2>1, PayloadParse DEF p
  <2> QED
    BY <2>2, LastByte
<1>7. [Inside(n, m) EXCEPT !.at = 0].at = 0
  BY DEF Inside
<1> HIDE DEF x
<1>8. x.parser.at = 0 /\ x.out = o \o Good(n, m, b)
  BY <1>6, <1>7
<1> QED
  BY <1>3, <1>5, <1>8 DEF p, EndsFrame

(* Nothing is left: nothing is delivered. *)
LEMMA AgreesAtEnd ==
    ASSUME NEW s \in Seq(Byte), NEW f, IsScan(f, s, 1)
    PROVE  ScanAgrees(f, s, Len(s) + 1)
<1>1. PICK l \in Nat : l = Len(s)
  BY LenProperties
<1>2. l + 1 \in 1 .. Len(s) + 1 /\ l + 1 + 3 > Len(s)
  BY <1>1
<1>3. f[l + 1] = <<>>
  BY <1>1, <1>2, NoRoom DEF IsScan
<1>4. From(s, l + 1) = <<>>
  BY <1>1, SubSeqEmpty DEF From
<1>5. <<>> \in Seq(Seq(Byte))
  BY EmptySeq
<1> QED
  BY <1>1, <1>3, <1>4, <1>5, ParseEmpty, ResultParts DEF ScanAgrees

(* The bytes 55 and n that follow FF. *)
LEMMA FrameShort ==
    ASSUME NEW s \in Seq(Byte), NEW i \in Nat, 0 < i, i + 1 = Len(s), s[i + 1] = 85,
           NEW a \in Results, a.parser.at = 1
    PROVE  Parse(a, From(s, i + 1)).out = a.out
<1>1. <<85>> \o <<>> = <<85>> /\ 85 \in Byte /\ <<>> \in Seq(Byte)
  BY SmallBytes, ByteTuples, EmptySeq, Zenon
<1>2. From(s, i + 1) = <<85>> \o <<>>
  <2>1. From(s, i + 1) = <<s[i + 1]>> \o From(s, i + 1 + 1)
    <3>1. i + 1 \in 1 .. Len(s)
      OBVIOUS
    <3> QED
      BY <3>1, FromHead
  <2>2. From(s, i + 1 + 1) = <<>>
    <3>1. i + 1 + 1 \in Int /\ Len(s) \in Int /\ Len(s) < i + 1 + 1
      OBVIOUS
    <3> QED
      BY <3>1, SubSeqEmpty DEF From
  <2> QED
    BY <2>1, <2>2
<1>3. Parse(a, <<85>> \o <<>>) = Parse(Step(a, 85), <<>>)
  BY <1>1, ParseHead
<1>4. Parse(Step(a, 85), <<>>) = Step(a, 85)
  BY ParseEmpty
<1>5. Step(a, 85).out = a.out
  <2>1. ~Delivers(a.parser, 85)
    BY DEF Delivers
  <2> QED
    BY <2>1 DEF Step
<1> QED
  BY <1>2, <1>3, <1>4, <1>5, Zenon

(* The length byte, and what is behind it. *)
LEMMA FrameHeader ==
    ASSUME NEW s \in Seq(Byte), NEW i \in Nat, 0 < i, i + 2 <= Len(s), s[i + 1] = 85,
           NEW a \in Results, a.parser.at = 1
    PROVE  /\ s[i + 2] \in Byte
           /\ From(s, i + 3) \in Seq(Byte) /\ Len(From(s, i + 3)) = Len(s) - i - 2
           /\ Parse(a, From(s, i + 1))
                = Parse([parser |-> Inside(s[i + 2], <<>>), out |-> a.out], From(s, i + 3))
<1>1. PICK l \in Nat : l = Len(s)
  BY LenProperties
<1>2. /\ i + 1 \in 1 .. l /\ i + 2 \in 1 .. l /\ i + 3 \in 1 .. l + 1
      /\ i + 1 + 1 = i + 2 /\ i + 2 + 1 = i + 3 /\ l + 1 - (i + 3) = l - i - 2
  BY <1>1
<1>3. PICK n \in Byte : n = s[i + 2]
  BY <1>1, <1>2, ElementOfSeq
<1>4. PICK t \in Seq(Byte) : t = From(s, i + 3) /\ Len(t) = l - i - 2
  BY <1>1, <1>2, FromType
<1>5. From(s, i + 1) = <<85>> \o From(s, i + 2)
  <2>1. From(s, i + 1) = <<s[i + 1]>> \o From(s, i + 1 + 1)
    BY <1>1, <1>2, FromHead
  <2> QED
    BY <1>2, <2>1
<1>6. From(s, i + 2) = <<n>> \o t
  <2>1. From(s, i + 2) = <<s[i + 2]>> \o From(s, i + 2 + 1)
    BY <1>1, <1>2, FromHead
  <2> QED
    BY <1>2, <1>3, <1>4, <2>1
<1>7. /\ <<85>> \in Seq(Byte) /\ <<n>> \in Seq(Byte) /\ <<85, n>> \in Seq(Byte)
      /\ <<85, n>> = <<85>> \o <<n>>
  <2>1. 85 \in Byte
    BY SmallBytes
  <2> QED
    BY <2>1, ByteTuples, Zenon
<1>8. From(s, i + 1) = <<85, n>> \o t
  <2>1. (<<85>> \o <<n>>) \o t = <<85>> \o (<<n>> \o t)
    BY <1>7, ConcatAssociative
  <2> QED
    BY <1>5, <1>6, <1>7, <2>1, Zenon
<1>9. Parse(a, <<85, n>> \o t) = Parse(Parse(a, <<85, n>>), t)
  <2>1. <<85, n>> \in Seq(Byte)
    BY <1>7
  <2> QED
    BY <2>1, ParseConcat
<1>10. Parse(a, <<85, n>>) = [parser |-> Inside(n, <<>>), out |-> a.out]
  BY HeaderParse
<1>11. Parse(a, From(s, i + 1)) = Parse([parser |-> Inside(n, <<>>), out |-> a.out], t)
  BY <1>8, <1>9, <1>10, Zenon
<1> QED
  BY <1>1, <1>3, <1>4, <1>11

(* A frame that is whole: its payload, its last byte, and what follows. *)
WholeAt(s, i, n) ==
    /\ i + n + 3 \in i + 1 .. Len(s) + 1
    /\ SubSeq(s, i + 3, i + n + 1) \in Seq(Byte)
    /\ Len(SubSeq(s, i + 3, i + n + 1)) = n - 1
    /\ s[i + n + 2] \in Byte /\ From(s, i + n + 3) \in Seq(Byte)
    /\ From(s, i + 3) = SubSeq(s, i + 3, i + n + 1)
                          \o (<<s[i + n + 2]>> \o From(s, i + n + 3))

LEMMA FrameWhole ==
    ASSUME NEW s \in Seq(Byte), NEW i \in Nat, 0 < i,
           NEW n \in Byte, n # 0, i + n + 2 <= Len(s)
    PROVE  WholeAt(s, i, n)
<1>1. PICK l \in Nat : l = Len(s)
  BY LenProperties
<1>2. n \in Nat /\ n > 0
  BY DEF Byte
<1>3. /\ i + n + 2 \in 1 .. l /\ i + n + 3 \in i + 1 .. l + 1 /\ i + n + 3 \in 1 .. l + 1
      /\ i + 3 \in 1 .. l + 1 /\ i + n + 1 \in i + 3 - 1 .. l
      /\ i + n + 1 + 1 = i + n + 2 /\ i + n + 2 + 1 = i + n + 3
      /\ i + n + 1 + 1 - (i + 3) = n - 1
  BY <1>1, <1>2
<1>4. From(s, i + 3) = SubSeq(s, i + 3, i + n + 1) \o From(s, i + n + 1 + 1)
  <2>1. PICK j \in 1 .. Len(s) + 1 : j = i + 3
    BY <1>1, <1>3
  <2>2. PICK k \in j - 1 .. Len(s) : k = i + n + 1
    BY <1>1, <1>3, <2>1
  <2>3. From(s, j) = SubSeq(s, j, k) \o From(s, k + 1)
    BY FromSplit
  <2> QED
    BY <2>1, <2>2, <2>3, Zenon
<1>5. From(s, i + n + 2) = <<s[i + n + 2]>> \o From(s, i + n + 2 + 1)
  BY <1>1, <1>3, FromHead
<1>6. /\ SubSeq(s, i + 3, i + n + 1) \in Seq(Byte)
      /\ Len(SubSeq(s, i + 3, i + n + 1)) = i + n + 1 + 1 - (i + 3)
  BY <1>1, <1>3, SliceType
<1>7. s[i + n + 2] \in Byte
  BY <1>1, <1>3, ElementOfSeq
<1>8. From(s, i + n + 3) \in Seq(Byte)
  BY <1>1, <1>3, FromType
<1>9. /\ From(s, i + n + 1 + 1) = From(s, i + n + 2)
      /\ From(s, i + n + 2 + 1) = From(s, i + n + 3)
  BY <1>3
<1>10. From(s, i + 3) = SubSeq(s, i + 3, i + n + 1)
                                 \o (<<s[i + n + 2]>> \o From(s, i + n + 3))
  BY <1>4, <1>5, <1>9, Zenon
<1>11. i + n + 3 \in i + 1 .. Len(s) + 1
  BY <1>1, <1>3, Zenon
<1>12. Len(SubSeq(s, i + 3, i + n + 1)) = n - 1
  BY <1>3, <1>6, Zenon
<1> QED
  BY <1>6, <1>7, <1>8, <1>10, <1>11, <1>12, Zenon DEF WholeAt

(* Rows put together. *)
LEMMA ConcatRows ==
    \A o, h, g \in Seq(Seq(Byte)) :
       h \o g \in Seq(Seq(Byte)) /\ (o \o h) \o g = o \o (h \o g)
BY ConcatProperties, ConcatAssociative

(* The frame at i is parsed as it is scanned. *)
ReadsAsScanned(f, s, i, a) ==
    f[i] \in Seq(Seq(Byte)) /\ Parse(a, From(s, i + 1)).out = a.out \o f[i]

LEMMA AgreesAtFrame ==
    ASSUME NEW s \in Seq(Byte), NEW f, NEW i \in Nat, 0 < i, i + 1 <= Len(s),
           s[i] = 255, s[i + 1] = 85, f[i] = ScanAt(f, s, i),
           \A k \in i + 1 .. Len(s) + 1 : ScanAgrees(f, s, k),
           NEW a \in Results, a.parser.at = 1
    PROVE  ReadsAsScanned(f, s, i, a)
<1>1. PICK l \in Nat : l = Len(s)
  BY LenProperties
<1>2. i \in 1 .. Len(s) /\ i \in 1 .. Len(s) + 1 /\ (i + 2 <= l \/ i + 1 = Len(s))
  BY <1>1
<1>3. PICK o \in Seq(Seq(Byte)) : o = a.out /\ o \o <<>> = o
  BY ResultParts
<1>e. <<>> \in Seq(Seq(Byte))
  BY EmptySeq
<1>5. CASE i + 1 = Len(s)
  <2>1. i + 3 > Len(s)
    BY <1>1, <1>5
  <2>2. f[i] = <<>>
    BY <1>2, <2>1, NoRoom
  <2>3. Parse(a, From(s, i + 1)).out = o
    BY <1>3, <1>5, FrameShort
  <2> QED
    BY <1>3, <1>e, <2>2, <2>3 DEF ReadsAsScanned
<1>6. CASE i + 2 <= l
  <2>0. /\ s[i + 2] \in Byte
        /\ From(s, i + 3) \in Seq(Byte) /\ Len(From(s, i + 3)) = Len(s) - i - 2
        /\ Parse(a, From(s, i + 1))
             = Parse([parser |-> Inside(s[i + 2], <<>>), out |-> a.out], From(s, i + 3))
    <3>1. i + 2 <= Len(s)
      BY <1>1, <1>6
    <3> QED
      BY <3>1, FrameHeader
  <2>1. PICK n \in Byte : n = s[i + 2]
    BY <2>0
  <2>2. PICK t \in Seq(Byte) : t = From(s, i + 3) /\ Len(t) = l - i - 2
    BY <1>1, <2>0
  <2>3. Parse(a, From(s, i + 1)) = Parse([parser |-> Inside(n, <<>>), out |-> o], t)
    BY <1>3, <2>0, <2>1, <2>2
  <2>n. n \in Nat
    BY DEF Byte
  <2>4. CASE n = 0 \/ i + n + 2 > l
    <3>1. f[i] = <<>>
      <4>1. CASE i + 3 > Len(s)
        BY <1>2, <4>1, NoRoom
      <4>2. CASE i + 3 <= Len(s)
        <5>1. ScanAt(f, s, i) = FrameAt(f, s, i)
          BY <1>2, <4>2, AtStart
        <5>2. FrameAt(f, s, i) = <<>>
          BY <1>1, <2>1, <2>4 DEF FrameAt
        <5> QED
          BY <5>1, <5>2
      <4> QED
        BY <1>1, <4>1, <4>2
    <3>2. n = 0 \/ Len(t) < n
      BY <1>1, <2>2, <2>4, <2>n
    <3>3. Parse([parser |-> Inside(n, <<>>), out |-> o], t).out = o
      BY <3>2, Unfinished
    <3> QED
      BY <1>3, <1>e, <2>3, <3>1, <3>3 DEF ReadsAsScanned
  <2>5. CASE n # 0 /\ i + n + 2 <= l
    <3>1. n # 0 /\ i + n + 2 <= Len(s) /\ i + 3 <= Len(s)
      BY <1>1, <2>5, <2>n
    <3>0. WholeAt(s, i, n)
      BY <3>1, FrameWhole
    <3>2. PICK m \in Seq(Byte) : m = SubSeq(s, i + 3, i + n + 1) /\ Len(m) = n - 1
      BY <3>0, Zenon DEF WholeAt
    <3>3. PICK b \in Byte : b = s[i + n + 2]
      <4>1. s[i + n + 2] \in Byte
        BY <3>0, Zenon DEF WholeAt
      <4> QED
        BY <4>1
    <3>4. PICK u \in Seq(Byte) : u = From(s, i + n + 3)
      BY <3>0, Zenon DEF WholeAt
    <3>5. t = m \o (<<b>> \o u)
      BY <2>2, <3>0, <3>2, <3>3, <3>4, Zenon DEF WholeAt
    <3>6. PICK r \in Results :
              /\ r.parser.at = 0 /\ r.out = o \o Good(n, m, b)
              /\ Parse([parser |-> Inside(n, <<>>), out |-> o], m \o (<<b>> \o u)) = Parse(r, u)
      <4>1. n # 0 /\ Len(m) = n - 1
        BY <3>1, <3>2
      <4>2. EndsFrame(n, o, m, b, u)
        BY <4>1, Finished
      <4> QED
        BY <4>2, Zenon DEF EndsFrame
    <3>7. PICK g \in Seq(Seq(Byte)) : g = f[i + n + 3] /\ Parse(r, u).out = r.out \o g
      <4>1. ScanAgrees(f, s, i + n + 3)
        BY <3>0, Zenon DEF WholeAt
      <4> QED
        BY <3>4, <3>6, <4>1 DEF ScanAgrees
    <3>8. PICK h \in Seq(Seq(Byte)) : h = Good(n, m, b)
      BY GoodType
    <3>9. f[i] = h \o g
      <4>1. ScanAt(f, s, i) = FrameAt(f, s, i)
        BY <1>2, <3>1, AtStart
      <4>2. ~(n = 0 \/ i + n + 2 > Len(s))
        BY <1>1, <2>5, <2>n
      <4>3. FrameAt(f, s, i) = h \o g
        BY <2>1, <3>2, <3>3, <3>7, <3>8, <4>2 DEF FrameAt
      <4> QED
        BY <4>1, <4>3
    <3>10. h \o g \in Seq(Seq(Byte)) /\ (o \o h) \o g = o \o (h \o g)
      BY ConcatRows
    <3>12. Parse(a, From(s, i + 1)) = Parse(r, u)
      BY <2>3, <3>5, <3>6, Zenon
    <3>13. Parse(a, From(s, i + 1)).out = (o \o h) \o g
      <4>1. r.out = o \o h
        BY <3>6, <3>8, Zenon
      <4> QED
        BY <3>7, <3>12, <4>1
    <3> QED
      <4>1. f[i] \in Seq(Seq(Byte))
        BY <3>9, <3>10
      <4>2. Parse(a, From(s, i + 1)).out = a.out \o f[i]
        BY <1>3, <3>9, <3>10, <3>13
      <4> QED
        BY <4>1, <4>2 DEF ReadsAsScanned
  <2> QED
    BY <1>1, <2>4, <2>5, <2>n
<1> QED
  BY <1>2, <1>5, <1>6

(* What holds of all that follows i holds of i. *)
LEMMA AgreesBefore ==
    ASSUME NEW s \in Seq(Byte), NEW f, IsScan(f, s, 1), NEW i \in 1 .. Len(s),
           \A k \in i + 1 .. Len(s) + 1 : ScanAgrees(f, s, k)
    PROVE  ScanAgrees(f, s, i)
<1>1. PICK l \in Nat : l = Len(s)
  BY LenProperties
<1>2. PICK b \in Byte : b = s[i]
  BY ElementOfSeq
<1>3. From(s, i) = <<b>> \o From(s, i + 1) /\ From(s, i + 1) \in Seq(Byte)
  <2>1. i + 1 \in 1 .. Len(s) + 1
    BY <1>1
  <2> QED
    BY <1>2, <2>1, FromHead, FromType
<1>4. f[i] = ScanAt(f, s, i) /\ f[i + 1] = ScanAt(f, s, i + 1)
  BY <1>1 DEF IsScan
<1>5. f[i + 1] \in Seq(Seq(Byte))
        /\ \A r \in Results : r.parser.at = 0 =>
              Parse(r, From(s, i + 1)).out = r.out \o f[i + 1]
  <2>1. i + 1 \in i + 1 .. Len(s) + 1
    BY <1>1
  <2> QED
    BY <2>1 DEF ScanAgrees
<1>6. ~(i + 3 <= l /\ b = 255 /\ s[i + 1] = 85) => f[i] = f[i + 1]
  BY <1>1, <1>2, <1>4, NotAStart
<1>7. \A r \in Results : Parse(r, From(s, i)) = Parse(Step(r, b), From(s, i + 1))
  BY <1>3, ParseHead
<1>8. CASE b # 255
  <2>1. \A r \in Results : r.parser.at = 0 => Step(r, b) = r
    BY <1>8, OtherByte
  <2> QED
    BY <1>5, <1>6, <1>7, <1>8, <2>1 DEF ScanAgrees
<1>9. CASE b = 255
  <2>1. ASSUME NEW a \in Results, a.parser.at = 1
        PROVE  ReadsAsScanned(f, s, i, a)
    <3>1. CASE i + 1 <= l /\ s[i + 1] = 85
      <4>1. i \in Nat /\ 0 < i /\ i + 1 <= Len(s)
        BY <1>1, <3>1
      <4>2. s[i] = 255 /\ s[i + 1] = 85 /\ f[i] = ScanAt(f, s, i)
        BY <1>2, <1>4, <1>9, <3>1
      <4> QED
        BY <2>1, <4>1, <4>2, AgreesAtFrame
    <3>2. CASE i + 1 <= l /\ s[i + 1] # 85
      <4>1. PICK c \in Byte : c = s[i + 1]
        <5>1. i + 1 \in 1 .. Len(s)
          BY <1>1, <3>2
        <5> QED
          BY <5>1, ElementOfSeq
      <4>2. PICK q \in Results : /\ q = [parser |-> [a.parser EXCEPT !.at = 0], out |-> a.out]
                                 /\ q.parser.at = 0 /\ q.out = a.out
        BY OutsideType, ResultParts
      <4>3. Step(a, c) = Step(q, c)
        BY <2>1, <3>2, <4>1, <4>2, AfterFF
      <4>4. From(s, i + 1) = <<c>> \o From(s, i + 2) /\ From(s, i + 2) \in Seq(Byte)
        <5>1. i + 1 \in 1 .. Len(s) /\ i + 1 + 1 = i + 2 /\ i + 2 \in 1 .. Len(s) + 1
          BY <1>1, <3>2
        <5>2. From(s, i + 1) = <<s[i + 1]>> \o From(s, i + 1 + 1)
          BY <5>1, FromHead
        <5>3. From(s, i + 2) \in Seq(Byte)
          BY <5>1, FromType
        <5> QED
          BY <4>1, <5>1, <5>2, <5>3
      <4>5. Parse(a, From(s, i + 1)) = Parse(q, From(s, i + 1))
        <5>1. Parse(a, <<c>> \o From(s, i + 2)) = Parse(Step(a, c), From(s, i + 2))
          BY <4>4, ParseHead
        <5>2. Parse(q, <<c>> \o From(s, i + 2)) = Parse(Step(q, c), From(s, i + 2))
          BY <4>4, ParseHead
        <5> QED
          BY <4>3, <4>4, <5>1, <5>2
      <4> QED
        BY <1>5, <1>6, <3>2, <4>2, <4>5 DEF ReadsAsScanned
    <3>3. CASE i + 1 > l
      <4>1. From(s, i + 1) = <<>>
        BY <1>1, <3>3, SubSeqEmpty DEF From
      <4>2. f[i] = <<>>
        <5>1. i \in 1 .. Len(s) + 1 /\ i + 3 > Len(s)
          BY <1>1, <3>3
        <5> QED
          BY <1>4, <5>1, NoRoom
      <4>3. <<>> \in Seq(Seq(Byte))
        BY EmptySeq
      <4> QED
        BY <4>1, <4>2, <4>3, ParseEmpty, ResultParts DEF ReadsAsScanned
    <3>4. i + 1 <= l \/ i + 1 > l
      BY <1>1
    <3> QED
      BY <3>1, <3>2, <3>3, <3>4
  <2>2. ASSUME NEW r \in Results, r.parser.at = 0
        PROVE  \E a \in Results : Step(r, b) = a /\ a.parser.at = 1 /\ a.out = r.out
    <3>1. Step(r, 255) = [parser |-> [r.parser EXCEPT !.at = 1], out |-> r.out]
      BY <2>2, SyncStep
    <3>2. Step(r, 255) \in Results
      BY <3>1, OutsideType
    <3>3. [r.parser EXCEPT !.at = 1].at = 1
      BY ResultParts
    <3>4. PICK p : p = [r.parser EXCEPT !.at = 1] /\ p.at = 1
      BY <3>3, Zenon
    <3>5. Step(r, 255) = [parser |-> p, out |-> r.out]
      BY <3>1, <3>4, Zenon
    <3>6. Step(r, 255).parser = p /\ Step(r, 255).out = r.out
      BY <3>5
    <3> QED
      BY <1>9, <3>2, <3>4, <3>6
  <2>3. \E r \in Results : r.parser.at = 0
    <3> DEFINE r == [parser |-> [at |-> 0, max |-> 0, crc |-> 0, buf |-> <<>>], out |-> <<>>]
    <3>1. r \in Results /\ r.parser.at = 0
      BY EmptySeq, SmallBytes DEF Results, ParserStates
    <3> HIDE DEF r
    <3> QED
      BY <3>1
  <2>4. f[i] \in Seq(Seq(Byte))
    BY <2>1, <2>2, <2>3 DEF ReadsAsScanned
  <2>5. ASSUME NEW r \in Results, r.parser.at = 0
        PROVE  Parse(r, From(s, i)).out = r.out \o f[i]
    <3>1. PICK a \in Results : Step(r, b) = a /\ a.parser.at = 1 /\ a.out = r.out
      BY <2>2, <2>5
    <3>2. Parse(a, From(s, i + 1)).out = a.out \o f[i]
      BY <2>1, <3>1 DEF ReadsAsScanned
    <3> QED
      BY <1>7, <3>1, <3>2
  <2> QED
    BY <2>4, <2>5 DEF ScanAgrees
<1> QED
  BY <1>8, <1>9

(* Hence from the first byte on: Feed and the scan agree on every sequence. *)
LEMMA ScanIsParse ==
    ASSUME NEW s \in Seq(Byte), NEW f, IsScan(f, s, 1)
    PROVE  ScanAgrees(f, s, 1)
<1>1. PICK l \in Nat : l = Len(s)
  BY LenProperties
<1> DEFINE N == {d \in Nat : \A i \in 1 .. l + 1 : l + 1 - i <= d => ScanAgrees(f, s, i)}
<1>2. 0 \in N
  <2>1. \A i \in 1 .. l + 1 : l + 1 - i <= 0 => i = l + 1
    OBVIOUS
  <2> QED
    BY <1>1, <2>1, AgreesAtEnd
<1>3. ASSUME NEW d \in Nat, d \in N PROVE d + 1 \in N
  <2> SUFFICES ASSUME NEW i \in 1 .. l + 1, l + 1 - i <= d + 1 PROVE ScanAgrees(f, s, i)
    OBVIOUS
  <2>1. CASE l + 1 - i <= d
    BY <1>3, <2>1
  <2>2. CASE i \in 1 .. l /\ l + 1 - i = d + 1
    <3>1. \A k \in i + 1 .. l + 1 : k \in 1 .. l + 1 /\ l + 1 - k <= d
      BY <2>2
    <3>2. \A k \in i + 1 .. Len(s) + 1 : ScanAgrees(f, s, k)
      BY <1>1, <1>3, <3>1
    <3> QED
      BY <1>1, <2>2, <3>2, AgreesBefore
  <2> QED
    BY <2>1, <2>2
<1> HIDE DEF N
<1>4. \A d \in Nat : d \in N
  BY <1>2, <1>3, NatInd
<1>5. l \in N /\ 1 \in 1 .. l + 1 /\ l + 1 - 1 <= l
  BY <1>4
<1> QED
  BY <1>5 DEF N

(* The parser delivers the good frames, byte by byte or all at once. *)
LEMMA ParseFrames ==
    ASSUME NEW s \in Seq(Byte)
    PROVE  Parse([parser |-> NoFrame, out |-> <<>>], s).out = FramesOf(s)
<1>1. PICK f : IsScan(f, s, 1) /\ FramesOf(s) = f[1]
  BY FramesOfScan
<1>2. ScanAgrees(f, s, 1)
  BY <1>1, ScanIsParse
<1> DEFINE r == [parser |-> NoFrame, out |-> <<>>]
<1>3. r \in Results /\ r.parser.at = 0 /\ r.out = <<>>
  BY EmptySeq, SmallBytes DEF Results, ParserStates, NoFrame
<1> HIDE DEF r
<1>4. From(s, 1) = s
  BY SubSeqFull DEF From
<1>5. Parse(r, s).out = <<>> \o f[1] /\ f[1] \in Seq(Seq(Byte))
  BY <1>2, <1>3, <1>4 DEF ScanAgrees
<1>6. <<>> \o f[1] = f[1]
  BY <1>5, ConcatEmptySeq
<1> QED
  BY <1>1, <1>5, <1>6 DEF r

----------------------------------------------------------------------------
(* Rows of records. *)

(* What a record's length can say. *)
Data == {s \in Seq(Byte) : Len(s) < 32768}

RecordForm == [x \in Data |-> Record(x)]

(* Head and Tail. *)
LEMMA HeadAndTail ==
    ASSUME NEW S, NEW s \in Seq(S), s # <<>>
    PROVE  /\ Head(s) \in S /\ Tail(s) \in Seq(S) /\ Head(s) = s[1]
           /\ Len(Tail(s)) = Len(s) - 1
           /\ \A i \in 1 .. Len(s) - 1 : Tail(s)[i] = s[i + 1]
           /\ s = <<Head(s)>> \o Tail(s)
<1>1. PICK n \in Nat : n = Len(s) /\ n # 0
  BY EmptySeq
<1>2. Head(s) \in S /\ Tail(s) \in Seq(S)
  BY HeadTailProperties
<1>3. Len(Tail(s)) = Len(s) - 1
  BY HeadTailProperties
<1>4. \A i \in 1 .. Len(Tail(s)) : Tail(s)[i] = s[i + 1]
  BY HeadTailProperties
<1>5. Head(s) = s[1]
  BY <1>1
<1>6. 1 \in 1 .. Len(s) /\ Len(s) \in 1 .. Len(s)
  BY <1>1
<1>7. SubSeq(s, 1, Len(s)) = <<s[1]>> \o SubSeq(s, 1 + 1, Len(s))
  BY <1>6, SubSeqRecursiveFirst
<1>8. SubSeq(s, 1, Len(s)) = s
  BY SubSeqFull
<1>9. Tail(s) = SubSeq(s, 1 + 1, Len(s))
  BY TailIsSubSeq
<1>10. s = <<Head(s)>> \o Tail(s)
  BY <1>5, <1>7, <1>8, <1>9
<1> QED
  BY <1>2, <1>3, <1>4, <1>5, <1>10

(* The record of data. *)
LEMMA DataRecord ==
    ASSUME NEW s \in Data
    PROVE  /\ s \in Seq(Byte) /\ Len(s) \in Nat /\ Len(s) < 32768
           /\ Record(s) \in Seq(Byte) /\ Len(Record(s)) = Len(s) + 2
<1>1. s \in Seq(Byte) /\ Len(s) \in Nat /\ Len(s) < 32768
  BY LenProperties DEF Data
<1>2. Len(s) < 65536
  BY <1>1
<1> QED
  BY <1>1, <1>2, RecordType

(* Packed is a row of records. *)
LEMMA PackedRow ==
    /\ RecordForm \in [Data -> Seq(Byte)]
    /\ \A x \in Data : RecordForm[x] = Record(x)
    /\ \A ss \in Seq(Data) : Packed(ss) = RowOf(RecordForm, ss)
<1>1. RecordForm \in [Data -> Seq(Byte)] /\ \A x \in Data : RecordForm[x] = Record(x)
  BY DataRecord DEF RecordForm
<1>2. ASSUME NEW ss \in Seq(Data) PROVE Packed(ss) = RowOf(RecordForm, ss)
  <2>1. \A i \in DOMAIN ss : ss[i] \in Data
    BY ElementOfSeq, LenProperties
  <2>2. [i \in DOMAIN ss |-> Record(ss[i])] = Images(RecordForm, ss)
    BY <1>1, <2>1 DEF Images
  <2> QED
    BY <2>2 DEF Packed, RowOf
<1> QED
  BY <1>1, <1>2

LEMMA PackedType ==
    ASSUME NEW ss \in Seq(Data)
    PROVE  Packed(ss) \in Seq(Byte)
BY PackedRow, RowOfType

LEMMA PackedEmpty == Packed(<<>>) = <<>>
BY PackedRow, RowOfNothing, EmptySeq

(* A record more is put at the end, and taken from the front. *)
LEMMA PackedAppend ==
    ASSUME NEW ss \in Seq(Data), NEW x \in Data
    PROVE  Packed(Append(ss, x)) = Packed(ss) \o Record(x)
<1>1. RowOf(RecordForm, Append(ss, x)) = RowOf(RecordForm, ss) \o RecordForm[x]
  BY PackedRow, RowOfAppend
<1>2. Append(ss, x) \in Seq(Data)
  BY AppendProperties
<1> QED
  BY <1>1, <1>2, PackedRow

LEMMA PackedHead ==
    ASSUME NEW ss \in Seq(Data), ss # <<>>
    PROVE  /\ Head(ss) \in Data /\ Tail(ss) \in Seq(Data)
           /\ Packed(Tail(ss)) \in Seq(Byte)
           /\ Packed(ss) = Record(Head(ss)) \o Packed(Tail(ss))
<1>1. PICK x \in Data, t \in Seq(Data) : x = Head(ss) /\ t = Tail(ss) /\ ss = <<x>> \o t
  <2>1. Head(ss) \in Data /\ Tail(ss) \in Seq(Data)
    BY HeadAndTail
  <2>2. ss = <<Head(ss)>> \o Tail(ss)
    BY HeadAndTail
  <2> QED
    BY <2>1, <2>2, Zenon
<1>2. RowOf(RecordForm, <<x>> \o t) = RecordForm[x] \o RowOf(RecordForm, t)
  BY PackedRow, RowOfHead
<1>3. Packed(t) \in Seq(Byte)
  BY PackedType
<1> QED
  BY <1>1, <1>2, <1>3, PackedRow

(* Slices at the joint of two sequences. *)
LEMMA SliceJoint ==
    ASSUME NEW S, NEW s \in Seq(S), NEW t \in Seq(S)
    PROVE  /\ SubSeq(s \o t, 1, Len(s)) = s
           /\ SubSeq(s \o t, Len(s) + 1, Len(s \o t)) = t
<1>1. PICK q \in Seq(S) : q = s \o t /\ Len(q) = Len(s) + Len(t)
        /\ (\A i \in 1 .. Len(s) : q[i] = s[i])
        /\ \A i \in 1 .. Len(t) : q[Len(s) + i] = t[i]
  <2>1. s \o t \in Seq(S) /\ Len(s \o t) = Len(s) + Len(t)
    BY ConcatProperties
  <2>2. \A i \in 1 .. Len(s) : (s \o t)[i] = s[i]
    BY LenProperties
  <2>3. \A i \in 1 .. Len(t) : (s \o t)[Len(s) + i] = t[i]
    BY LenProperties
  <2> QED
    BY <2>1, <2>2, <2>3
<1>2. PICK n \in Nat, m \in Nat : n = Len(s) /\ m = Len(t)
  BY LenProperties
<1>3. SubSeq(q, 1, n) = s
  <2>1. 1 \in 1 .. Len(q) + 1 /\ n \in 1 - 1 .. Len(q) /\ n + 1 - 1 = n
    BY <1>1, <1>2
  <2>2. PICK u \in Seq(S) : u = SubSeq(q, 1, n) /\ Len(u) = n
    <3>1. SubSeq(q, 1, n) \in Seq(S) /\ Len(SubSeq(q, 1, n)) = n + 1 - 1
      BY <2>1, SliceType
    <3> QED
      BY <2>1, <3>1
  <2>3. \A i \in 1 .. n : u[i] = s[i]
    <3>1. \A i \in 1 .. n : q[i] \in S
      BY <1>1, <1>2, ElementOfSeq
    <3>2. \A i \in 1 .. n - 1 + 1 : SubSeq(q, 1, n)[i] = q[1 + i - 1]
      BY <3>1, SubSeqProperties
    <3> QED
      BY <1>1, <1>2, <2>2, <3>2
  <2> QED
    BY <1>2, <2>2, <2>3, SeqEqual
<1>4. SubSeq(q, n + 1, n + m) = t
  <2>1. n + 1 \in 1 .. Len(q) + 1 /\ n + m \in n + 1 - 1 .. Len(q) /\ n + m + 1 - (n + 1) = m
    BY <1>1, <1>2
  <2>2. PICK u \in Seq(S) : u = SubSeq(q, n + 1, n + m) /\ Len(u) = m
    <3>1. SubSeq(q, n + 1, n + m) \in Seq(S)
            /\ Len(SubSeq(q, n + 1, n + m)) = n + m + 1 - (n + 1)
      BY <2>1, SliceType
    <3> QED
      BY <2>1, <3>1
  <2>3. \A i \in 1 .. m : u[i] = t[i]
    <3>1. \A i \in n + 1 .. n + m : q[i] \in S
      BY <1>1, <1>2, ElementOfSeq
    <3>2. \A i \in 1 .. n + m - (n + 1) + 1 : SubSeq(q, n + 1, n + m)[i] = q[n + 1 + i - 1]
      BY <3>1, SubSeqProperties
    <3>3. \A i \in 1 .. m : i \in 1 .. n + m - (n + 1) + 1 /\ n + 1 + i - 1 = n + i
      OBVIOUS
    <3>4. \A i \in 1 .. m : u[i] = q[n + i]
      <4> TAKE i \in 1 .. m
      <4>1. u[i] = q[n + 1 + i - 1]
        BY <2>2, <3>2, <3>3
      <4> QED
        BY <3>3, <4>1
    <3>5. \A i \in 1 .. m : q[n + i] = t[i]
      BY <1>1, <1>2
    <3> QED
      BY <3>4, <3>5
  <2> QED
    BY <1>2, <2>2, <2>3, SeqEqual
<1> QED
  BY <1>1, <1>2, <1>3, <1>4

(* The two bytes of a length are read as it. *)
LEMMA LengthOfBytes ==
    \A n \in Nat : n < 32768 => AsShort((n % 256) + 256 * (n \div 256)) = n
BY DEF AsShort

(* Reading the record at the front of a queue. *)
LEMMA ReadRecord ==
    ASSUME NEW x \in Data, NEW t \in Seq(Byte), NEW old
    PROVE  LET q == Record(x) \o t
           IN  /\ ReadLength(q, old) = Len(x)
               /\ AfterRecord(q, Len(x)) = t
               /\ Len(x) > 0 => Payload(q, Len(x)) = x
<1>1. PICK n \in Nat : n = Len(x) /\ n < 32768
  BY DataRecord
<1>x. x \in Seq(Byte)
  BY DataRecord
<1>2. PICK a \in Byte, b \in Byte : a = n % 256 /\ b = n \div 256
  <2>1. n % 256 \in Byte /\ n \div 256 \in Byte
    BY <1>1, ByteOfNat
  <2> QED
    BY <2>1
<1>3. PICK h \in Seq(Byte) : h = <<a, b>> /\ Len(h) = 2 /\ h[1] = a /\ h[2] = b
  <2>1. <<a, b>> \in Seq(Byte) /\ Len(<<a, b>>) = 2
    BY ByteTuples
  <2> QED
    BY <2>1
<1>4. PICK r \in Seq(Byte) : r = Record(x) /\ r = h \o x /\ Len(r) = n + 2
  <2>1. Record(x) = h \o x
    BY <1>1, <1>2, <1>3 DEF Record
  <2>2. Record(x) \in Seq(Byte) /\ Len(Record(x)) = Len(x) + 2
    BY DataRecord
  <2>3. Len(Record(x)) = n + 2
    BY <1>1, <2>2
  <2> QED
    BY <2>1, <2>2, <2>3, Zenon
<1>5. PICK q \in Seq(Byte) : q = r \o t /\ Len(q) = n + 2 + Len(t)
  <2>1. r \o t \in Seq(Byte) /\ Len(r \o t) = Len(r) + Len(t)
    BY ConcatBytes
  <2> QED
    BY <1>4, <2>1
<1>6. PICK v \in Seq(Byte) : v = x \o t /\ Len(v) = n + Len(t)
  <2>1. x \o t \in Seq(Byte) /\ Len(x \o t) = Len(x) + Len(t)
    BY <1>x, ConcatBytes
  <2>2. Len(x \o t) = n + Len(t)
    BY <1>1, <2>1
  <2> QED
    BY <2>1, <2>2, Zenon
<1>7. q = h \o v
  BY <1>x, <1>4, <1>5, <1>6, ConcatAssociative
<1>8. PICK m \in Nat : m = Len(t)
  BY LenProperties
<1>9. q[1] = a /\ q[2] = b
  <2>1. \A i \in 1 .. Len(h) : q[i] = h[i]
    BY <1>7
  <2> QED
    BY <1>3, <2>1
<1>10. ReadLength(q, old) = n
  <2>1. Len(q) >= 1 /\ Len(q) >= 2
    BY <1>5, <1>8
  <2>2. ReadLength(q, old) = AsShort(q[1] + 256 * q[2])
    BY <2>1 DEF ReadLength, ByteAt
  <2>3. AsShort((n % 256) + 256 * (n \div 256)) = n
    BY <1>1, LengthOfBytes
  <2> QED
    BY <1>2, <1>9, <2>2, <2>3
<1>11. AfterRecord(q, n) = t
  <2>1. SubSeq(q, Len(r) + 1, Len(q)) = t
    BY <1>5, SliceJoint
  <2>2. Len(r) + 1 = (IF n > 0 THEN 3 + n ELSE 3)
    BY <1>4
  <2> QED
    BY <2>1, <2>2 DEF AfterRecord
<1>12. n > 0 => Payload(q, n) = x
  <2> SUFFICES ASSUME n > 0 PROVE Payload(q, n) = x
    OBVIOUS
  <2>1. SubSeq(r, Len(h) + 1, Len(r)) = x
    BY <1>x, <1>4, SliceJoint
  <2>2. Len(h) + 1 = 3 /\ Len(r) = 2 + n /\ Least(Len(q), 2 + n) = 2 + n
    BY <1>3, <1>4, <1>5, <1>8 DEF Least
  <2>3. SubSeq(q, 3, 2 + n) = SubSeq(r, 3, 2 + n)
    <3>1. 3 \in 1 .. Len(r) /\ 2 + n \in 1 .. Len(r)
      BY <2>2
    <3>2. SubSeq(r \o t, 3, 2 + n) = SubSeq(r, 3, 2 + n)
      BY <3>1, SubSeqOfConcat1
    <3> QED
      BY <1>5, <3>2
  <2> QED
    BY <2>1, <2>2, <2>3 DEF Payload
<1> QED
  BY <1>1, <1>4, <1>5, <1>10, <1>11, <1>12

(* A record that fits is put behind the others. *)
LEMMA EnqueueWhole ==
    ASSUME NEW size \in Nat, NEW q \in Seq(Byte), NEW s \in Data,
           Len(q) # size, Fits(q, s, size)
    PROVE  Enqueue(q, s, size) = q \o Record(s)
<1>1. PICK r \in Seq(Byte) : r = Record(s)
  BY DataRecord
<1>2. PICK n \in Nat, m \in Nat : n = Len(q) /\ m = Len(r)
  BY LenProperties
<1>3. Least(m, size - n) = m
  BY <1>1, <1>2 DEF Fits, Least
<1>4. SubSeq(r, 1, m) = r
  BY <1>2, SubSeqFull
<1> QED
  BY <1>1, <1>2, <1>3, <1>4 DEF Enqueue, Insert

(* The parser only adds to what it has delivered. *)
LEMMA ParseGrows ==
    ASSUME NEW r \in Results
    PROVE  \A s \in Seq(Byte) : \E u \in Seq(Seq(Byte)) : Parse(r, s).out = r.out \o u
<1> DEFINE T == {s \in Seq(Byte) : \E u \in Seq(Seq(Byte)) : Parse(r, s).out = r.out \o u}
<1>e. <<>> \in Seq(Seq(Byte))
  BY EmptySeq
<1>1. <<>> \in T
  BY <1>e, ParseEmpty, ResultParts, EmptySeq
<1>2. ASSUME NEW s \in Seq(Byte), NEW b \in Byte, s \in T PROVE Append(s, b) \in T
  <2>1. PICK u \in Seq(Seq(Byte)) : Parse(r, s).out = r.out \o u
    BY <1>2
  <2>2. PICK a \in Results : a = Parse(r, s)
    BY ParseType
  <2>3. Parse(r, Append(s, b)) = Step(a, b)
    BY <2>2, ParseAppend, TurnIsStep
  <2>4. \E v \in Seq(Seq(Byte)) : Step(a, b).out = a.out \o v
    <3>1. CASE Delivers(a.parser, b)
      <4>1. PICK m \in Seq(Byte) : m = a.parser.buf
        BY ResultParts
      <4>2. Step(a, b).out = Append(a.out, m)
        BY <3>1, <4>1 DEF Step
      <4>3. Append(a.out, m) = a.out \o <<m>>
        BY ResultParts, AppendIsConcat
      <4>4. <<m>> \in Seq(Seq(Byte))
        BY Tuples
      <4> QED
        BY <4>2, <4>3, <4>4
    <3>2. CASE ~Delivers(a.parser, b)
      BY <1>e, <3>2, ResultParts DEF Step
    <3> QED
      BY <3>1, <3>2
  <2>5. PICK v \in Seq(Seq(Byte)) : Step(a, b).out = a.out \o v
    BY <2>4
  <2>6. (r.out \o u) \o v = r.out \o (u \o v) /\ u \o v \in Seq(Seq(Byte))
    <3>1. r.out \in Seq(Seq(Byte))
      BY ResultParts
    <3> QED
      BY <3>1, ConcatRows
  <2>7. Parse(r, Append(s, b)).out = r.out \o (u \o v)
    BY <2>1, <2>2, <2>3, <2>5, <2>6
  <2> QED
    BY <2>6, <2>7, AppendProperties
<1> HIDE DEF T
<1>3. \A s \in Seq(Byte) : s \in T
  BY <1>1, <1>2, SeqInd
<1> QED
  BY <1>3 DEF T

(* The two ways to look at a prefix. *)
LEMMA PrefixOf ==
    ASSUME NEW S, NEW s \in Seq(S), NEW u \in Seq(S)
    PROVE  IsPrefix(s, s \o u)
<1>1. Len(s \o u) = Len(s) + Len(u) /\ Len(s) \in Nat /\ Len(u) \in Nat
  BY ConcatProperties, LenProperties
<1>2. SubSeq(s \o u, 1, Len(s)) = s
  BY SliceJoint
<1>3. SubSeq(s, 1, Len(s)) = s
  BY SubSeqFull
<1> QED
  BY <1>1, <1>2, <1>3 DEF IsPrefix

(* What is read for a record is data, even when the queue holds less than *)
(* the length says.                                                        *)
LEMMA PayloadType ==
    ASSUME NEW q \in Seq(Byte), NEW n \in Short, n > 0
    PROVE  Payload(q, n) \in Data
<1>1. PICK l \in Nat : l = Len(q)
  BY LenProperties
<1>2. PICK e \in Nat : e = Least(l, 2 + n)
  BY DEF Least, Short
<1>3. e <= l /\ e <= 2 + n /\ n < 32768
  BY <1>2 DEF Least, Short
<1>4. SubSeq(q, 3, e) \in Seq(Byte) /\ Len(SubSeq(q, 3, e)) < 32768
  BY <1>1, <1>3 DEF Short
<1> QED
  BY <1>1, <1>2, <1>4 DEF Payload, Data

(* An element moved from the front of one sequence to the end of another   *)
(* leaves the two together as they were.                                   *)
LEMMA AppendConcat ==
    ASSUME NEW S, NEW s \in Seq(S), NEW t \in Seq(S), NEW e \in S
    PROVE  s \o Append(t, e) = Append(s \o t, e)
<1>1. <<e>> \in Seq(S) /\ s \o t \in Seq(S)
  BY ConcatProperties
<1>2. Append(t, e) = t \o <<e>> /\ Append(s \o t, e) = (s \o t) \o <<e>>
  BY <1>1, AppendIsConcat
<1> QED
  BY <1>1, <1>2, ConcatAssociative

LEMMA ShiftHead ==
    ASSUME NEW S, NEW s \in Seq(S), NEW t \in Seq(S), t # <<>>
    PROVE  Append(s, Head(t)) \o Tail(t) = s \o t
<1>1. PICK e \in S, u \in Seq(S) : e = Head(t) /\ u = Tail(t)
  BY HeadAndTail
<1>2. t = <<e>> \o u
  BY <1>1, HeadAndTail
<1>3. <<e>> \in Seq(S) /\ Append(s, e) = s \o <<e>>
  BY AppendIsConcat
<1>4. (s \o <<e>>) \o u = s \o (<<e>> \o u)
  BY <1>3, ConcatAssociative
<1> QED
  BY <1>1, <1>2, <1>3, <1>4

(* Rows of data none of which is empty. *)
Filled(ss) == ss \in Seq(Data) /\ \A i \in 1 .. Len(ss) : ss[i] # <<>>

LEMMA FilledAppend ==
    ASSUME NEW ss, Filled(ss), NEW x \in Data, x # <<>>
    PROVE  Filled(Append(ss, x))
<1>1. PICK n \in Nat : n = Len(ss)
  BY LenProperties DEF Filled
<1>2. PICK tt \in Seq(Data) : tt = Append(ss, x)
  BY AppendProperties DEF Filled
<1>3. Len(tt) = n + 1 /\ (\A i \in 1 .. n : tt[i] = ss[i]) /\ tt[n + 1] = x
  BY <1>1, <1>2, AppendProperties DEF Filled
<1>4. ASSUME NEW i \in 1 .. n + 1 PROVE tt[i] # <<>>
  BY <1>1, <1>3, <1>4 DEF Filled
<1> QED
  BY <1>2, <1>3, <1>4 DEF Filled

LEMMA FilledHead ==
    ASSUME NEW ss, Filled(ss), ss # <<>>
    PROVE  Head(ss) \in Data /\ Head(ss) # <<>> /\ Filled(Tail(ss))
<1>1. PICK n \in Nat : n = Len(ss) /\ n # 0
  BY LenProperties, EmptySeq DEF Filled
<1>2. /\ Head(ss) \in Data /\ Tail(ss) \in Seq(Data) /\ Head(ss) = ss[1]
      /\ Len(Tail(ss)) = n - 1
      /\ \A i \in 1 .. n - 1 : Tail(ss)[i] = ss[i + 1]
  BY <1>1, HeadAndTail DEF Filled
<1>3. PICK tt \in Seq(Data) : tt = Tail(ss)
  BY <1>2
<1>4. ASSUME NEW i \in 1 .. n - 1 PROVE tt[i] # <<>>
  BY <1>1, <1>2, <1>3, <1>4 DEF Filled
<1> QED
  BY <1>1, <1>2, <1>3, <1>4 DEF Filled

(* A record that fits makes the row longer by it, and one that is taken is *)
(* the first of the row.                                                   *)
LEMMA EnqueueRow ==
    ASSUME NEW size \in Nat, NEW ss \in Seq(Data), NEW x \in Data,
           Len(Packed(ss)) # size, Fits(Packed(ss), x, size)
    PROVE  Enqueue(Packed(ss), x, size) = Packed(Append(ss, x))
<1>1. Packed(ss) \in Seq(Byte)
  BY PackedType
<1>2. Enqueue(Packed(ss), x, size) = Packed(ss) \o Record(x)
  BY <1>1, EnqueueWhole
<1> QED
  BY <1>2, PackedAppend

LEMMA TakeRow ==
    ASSUME NEW ss \in Seq(Data), ss # <<>>, NEW old
    PROVE  /\ Head(ss) \in Data /\ Tail(ss) \in Seq(Data)
           /\ ReadLength(Packed(ss), old) = Len(Head(ss))
           /\ AfterRecord(Packed(ss), Len(Head(ss))) = Packed(Tail(ss))
           /\ Len(Head(ss)) > 0 => Payload(Packed(ss), Len(Head(ss))) = Head(ss)
<1>1. PICK x \in Data : x = Head(ss)
  BY PackedHead
<1>2. PICK t \in Seq(Byte) : t = Packed(Tail(ss))
  BY PackedHead
<1>3. Packed(ss) = Record(x) \o t /\ Tail(ss) \in Seq(Data)
  BY <1>1, <1>2, PackedHead
<1>4. /\ ReadLength(Record(x) \o t, old) = Len(x)
      /\ AfterRecord(Record(x) \o t, Len(x)) = t
      /\ Len(x) > 0 => Payload(Record(x) \o t, Len(x)) = x
  BY ReadRecord
<1> QED
  BY <1>1, <1>2, <1>3, <1>4

(* From an empty queue comes nothing. *)
LEMMA TakeNothing ==
    /\ ReadLength(<<>>, 0) = 0
    /\ \A n \in Short : AfterRecord(<<>>, n) = <<>>
<1>1. <<>> \in Seq(Byte) /\ Len(<<>>) = 0
  BY EmptySeq
<1>2. ReadLength(<<>>, 0) = 0
  BY <1>1 DEF ReadLength, ByteAt, AsShort
<1>3. ASSUME NEW n \in Short PROVE AfterRecord(<<>>, n) = <<>>
  <2>1. PICK q \in Seq(Byte) : q = AfterRecord(<<>>, n) /\ Len(q) <= 0
    BY <1>1, AfterRecordType
  <2> QED
    BY <2>1, EmptySeq
<1> QED
  BY <1>2, <1>3

(* What is in a smaller set is in a larger one, and so for sequences. *)
LEMMA SeqMonotone ==
    ASSUME NEW S, NEW T, S \subseteq T, NEW s \in Seq(S)
    PROVE  s \in Seq(T)
OBVIOUS
=============================================================================
