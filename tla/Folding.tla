------------------------------ MODULE Folding -------------------------------
(***************************************************************************)
(* Induction over a list, for proofs about lists that a model folds from   *)
(* the left.  The theorems about FoldLeft have to be stated for one step   *)
(* op; a proof module takes them with INSTANCE Folding WITH op <- ...      *)
(***************************************************************************)
EXTENDS Naturals, SequencesExt, SequenceTheorems, WellFoundedInduction, TLAPS

CONSTANT op(_, _)

Folded(base, seq) == FoldLeft(op, base, seq)
-----------------------------------------------------------------------------
(* Induction over the natural numbers, for a set instead of a predicate. *)

\* A set of numbers with 0 and with the successor of each of its members has all.
LEMMA Induction ==
    ASSUME NEW T, 0 \in T, \A n \in Nat : n \in T => n + 1 \in T
    PROVE  Nat \subseteq T
<1> DEFINE R == OpToRel(<, Nat)
<1>1. IsWellFoundedOn(R, Nat) BY NatLessThanWellFounded
<1>2. ASSUME NEW x \in Nat, NEW y \in Nat PROVE <<x,y>> \in R <=> x < y BY DEF OpToRel
<1>3. SUFFICES ASSUME Nat \ T # {} PROVE FALSE OBVIOUS
<1> HIDE DEF R
<1>4. PICK x \in Nat \ T : \A y \in Nat \ T : <<y,x>> \notin R BY <1>1, <1>3, WFMin
<1>5. x # 0 BY <1>4
<1>6. x - 1 \in Nat /\ x - 1 < x /\ (x - 1) + 1 = x BY <1>5, <1>4
<1>7. x - 1 \in T BY <1>6, <1>4, <1>2
<1> QED BY <1>7, <1>6, <1>4

-----------------------------------------------------------------------------
(* The function that FoldLeft chooses exists, and what it says of a list is  *)
(* determined by the list.                                                   *)

\* g folds every set of places of seq up to n.
Iterates(g, base, seq, n) ==
    g = [s \in SUBSET (1 .. n) |->
            IF s = {} THEN base ELSE op(g[s \ {Max(s)}], seq[Max(s)])]

LEMMA MaxUpTo == ASSUME NEW n \in Nat, NEW s \in SUBSET (1 .. n + 1), n + 1 \in s
                 PROVE  Max(s) = n + 1
<1>1. n + 1 \in s /\ \A y \in s : n + 1 >= y BY n \in Nat
<1>2. \A x \in s : (\A y \in s : x >= y) => x = n + 1
  BY n \in Nat
<1> QED BY <1>1, <1>2 DEF Max

LEMMA IterationExists ==
    ASSUME NEW base, NEW seq, NEW n \in Nat
    PROVE  \E g : Iterates(g, base, seq, n)
<1> DEFINE T == {m \in Nat : \E g : Iterates(g, base, seq, m)}
<1>1. 0 \in T
  <2> DEFINE g == [s \in SUBSET (1 .. 0) |-> base]
  <2>1. SUBSET (1 .. 0) = {{}} BY 1 .. 0 = {}
  <2>2. Iterates(g, base, seq, 0) BY <2>1 DEF Iterates
  <2> QED BY <2>2
<1>2. ASSUME NEW m \in Nat, m \in T PROVE m + 1 \in T
  <2>1. PICK g : Iterates(g, base, seq, m) BY <1>2
  <2> DEFINE h == [s \in SUBSET (1 .. m + 1) |->
                     IF m + 1 \in s THEN op(g[s \ {m + 1}], seq[m + 1]) ELSE g[s]]
             F == [s \in SUBSET (1 .. m + 1) |->
                     IF s = {} THEN base ELSE op(h[s \ {Max(s)}], seq[Max(s)])]
  <2>2. ASSUME NEW s \in SUBSET (1 .. m + 1) PROVE h[s] = F[s]
    <3>1. CASE m + 1 \in s
      <4>1. Max(s) = m + 1 BY <3>1, MaxUpTo
      <4>2. s \ {m + 1} \in SUBSET (1 .. m + 1) /\ m + 1 \notin s \ {m + 1} OBVIOUS
      <4>3. h[s \ {m + 1}] = g[s \ {m + 1}] BY <4>2
      <4> QED BY <3>1, <4>1, <4>3
    <3>2. CASE m + 1 \notin s
      <4>1. s \in SUBSET (1 .. m) BY <3>2
      <4>2. h[s] = g[s] BY <3>2
      <4>3. h[s \ {Max(s)}] = g[s \ {Max(s)}] BY <3>2
      <4>4. g[s] = IF s = {} THEN base ELSE op(g[s \ {Max(s)}], seq[Max(s)])
        BY <2>1, <4>1 DEF Iterates
      <4> QED BY <4>2, <4>3, <4>4
    <3> QED BY <3>1, <3>2
  <2>3. h = F BY <2>2
  <2>4. Iterates(h, base, seq, m + 1) BY <2>3 DEF Iterates
  <2> QED BY <2>4
<1>3. n \in T BY <1>1, <1>2, Induction
<1> QED BY <1>3

LEMMA IterationStep ==
    ASSUME NEW base, NEW seq, NEW n \in Nat, NEW g, Iterates(g, base, seq, n),
           NEW k \in Nat, k + 1 <= n
    PROVE  g[1 .. k + 1] = op(g[1 .. k], seq[k + 1])
<1>1. \A s \in SUBSET (1 .. n) : g[s] = IF s = {} THEN base ELSE op(g[s \ {Max(s)}], seq[Max(s)])
  BY DEF Iterates
<1> DEFINE s == 1 .. k + 1
<1>2. Max(s) = k + 1 BY MaxUpTo
<1>3. s \ {k + 1} = 1 .. k /\ s # {} /\ s \in SUBSET (1 .. n) OBVIOUS
<1> HIDE DEF s
<1>4. g[s] = op(g[s \ {Max(s)}], seq[Max(s)]) BY <1>1, <1>3
<1>5. g[s] = op(g[1 .. k], seq[k + 1]) BY <1>2, <1>3, <1>4
<1> QED BY <1>5 DEF s

LEMMA IterationsAgree ==
    ASSUME NEW base, NEW seq, NEW n \in Nat, NEW g, Iterates(g, base, seq, n),
           NEW seq2, NEW n2 \in Nat, NEW g2, Iterates(g2, base, seq2, n2),
           NEW m \in Nat, m <= n, m <= n2, \A k \in 1 .. m : seq[k] = seq2[k]
    PROVE  g[1 .. m] = g2[1 .. m]
<1> DEFINE T == {k \in Nat : k <= m => g[1 .. k] = g2[1 .. k]}
<1>1. 0 \in T
  <2>1. 1 .. 0 = {} OBVIOUS
  <2> QED BY <2>1 DEF Iterates
<1>2. ASSUME NEW k \in Nat, k \in T PROVE k + 1 \in T
  <2> SUFFICES ASSUME k + 1 <= m PROVE g[1 .. k + 1] = g2[1 .. k + 1] OBVIOUS
  <2>1. g[1 .. k] = g2[1 .. k] BY <1>2
  <2>2. k + 1 <= n /\ k + 1 <= n2 /\ k + 1 \in 1 .. m OBVIOUS
  <2> HIDE DEF T
  <2>3. g[1 .. k + 1] = op(g[1 .. k], seq[k + 1])
    <3>1. n \in Nat /\ Iterates(g, base, seq, n) /\ k \in Nat /\ k + 1 <= n BY <2>2
    <3> QED BY ONLY <3>1, IterationStep
  <2>4. g2[1 .. k + 1] = op(g2[1 .. k], seq2[k + 1])
    <3>1. n2 \in Nat /\ Iterates(g2, base, seq2, n2) /\ k \in Nat /\ k + 1 <= n2 BY <2>2
    <3> QED BY ONLY <3>1, IterationStep
  <2>5. seq[k + 1] = seq2[k + 1] BY <2>2
  <2> QED BY <2>1, <2>3, <2>4, <2>5
<1>3. m \in T BY <1>1, <1>2, Induction
<1> QED BY <1>3

LEMMA FoldedIsIteration ==
    ASSUME NEW base, NEW S, NEW seq \in Seq(S)
    PROVE  \E g : Iterates(g, base, seq, Len(seq)) /\ Folded(base, seq) = g[1 .. Len(seq)]
<1> DEFINE g == CHOOSE h : Iterates(h, base, seq, Len(seq))
<1>1. Len(seq) \in Nat /\ DOMAIN seq = 1 .. Len(seq) OBVIOUS
<1>2. Iterates(g, base, seq, Len(seq)) BY <1>1, IterationExists
<1>3. Folded(base, seq) = g[1 .. Len(seq)]
  BY <1>1, Zenon DEF Folded, FoldLeft, MapThenFoldSet, Iterates
<1> QED BY <1>2, <1>3
-----------------------------------------------------------------------------
(* What a fold computes. *)

\* Nothing to fold.
THEOREM FoldedEmpty == ASSUME NEW base PROVE Folded(base, <<>>) = base
<1>1. <<>> \in Seq({}) /\ Len(<<>>) = 0 /\ 1 .. 0 = {} OBVIOUS
<1>2. PICK g : Iterates(g, base, <<>>, 0) /\ Folded(base, <<>>) = g[1 .. 0]
  BY <1>1, FoldedIsIteration
<1> QED BY <1>1, <1>2 DEF Iterates

\* One more element is one more step.
THEOREM FoldedAppend ==
    ASSUME NEW base, NEW S, NEW seq \in Seq(S), NEW e \in S
    PROVE  Folded(base, Append(seq, e)) = op(Folded(base, seq), e)
<1> DEFINE n == Len(seq)
           t == Append(seq, e)
<1>1. n \in Nat /\ t \in Seq(S) /\ Len(t) = n + 1 /\ t[n + 1] = e
      /\ \A k \in 1 .. n : seq[k] = t[k]
  OBVIOUS
<1> HIDE DEF t, n
<1>2. PICK g : Iterates(g, base, seq, n) /\ Folded(base, seq) = g[1 .. n]
  BY FoldedIsIteration DEF n
<1>3. PICK h : Iterates(h, base, t, n + 1) /\ Folded(base, t) = h[1 .. n + 1]
  BY <1>1, FoldedIsIteration
<1>4. h[1 .. n + 1] = op(h[1 .. n], t[n + 1]) BY <1>1, <1>3, IterationStep
<1>5. g[1 .. n] = h[1 .. n] 
  BY <1>1, <1>2, <1>3, IterationsAgree, n + 1 \in Nat, n <= n, n <= n + 1
<1> QED BY <1>1, <1>2, <1>3, <1>4, <1>5 DEF t

LEMMA LastApart ==
    ASSUME NEW S, NEW t \in Seq(S), NEW n \in Nat, Len(t) = n + 1
    PROVE  \E u \in Seq(S), e \in S : t = Append(u, e) /\ Len(u) = n
<1> DEFINE u == [k \in 1 .. n |-> t[k]]
           e == t[n + 1]
<1>1. u \in Seq(S) /\ Len(u) = n /\ e \in S OBVIOUS
<1>2. t = Append(u, e)
  <2>1. Append(u, e) \in Seq(S) /\ Len(Append(u, e)) = n + 1 BY <1>1
  <2>2. \A k \in 1 .. n + 1 : Append(u, e)[k] = t[k] BY <1>1
  <2> QED BY <2>1, <2>2, SeqEqual
<1> QED BY <1>1, <1>2

LEMMA ConcatAppend ==
    ASSUME NEW S, NEW s \in Seq(S), NEW v \in Seq(S), NEW e \in S
    PROVE  s \o v \in Seq(S) /\ s \o Append(v, e) = Append(s \o v, e)
<1> DEFINE u == Append(v, e)
           sv == s \o v
           su == s \o u
           ve == Append(sv, e)
           m == Len(s)
           n == Len(v)
<1>1. /\ m \in Nat /\ n \in Nat /\ u \in Seq(S) /\ Len(u) = n + 1
      /\ \A k \in 1 .. n : u[k] = v[k]
      /\ u[n + 1] = e
  BY AppendProperties, LenProperties
<1>2. /\ sv \in Seq(S) /\ Len(sv) = m + n
      /\ \A k \in 1 .. m + n : sv[k] = IF k <= m THEN s[k] ELSE v[k - m]
  BY ConcatProperties
<1>3. /\ su \in Seq(S) /\ Len(su) = m + (n + 1)
      /\ \A k \in 1 .. m + (n + 1) : su[k] = IF k <= m THEN s[k] ELSE u[k - m]
  BY <1>1, ConcatProperties
<1> HIDE DEF u, sv, su, m, n
<1>4. /\ ve \in Seq(S) /\ Len(ve) = m + n + 1
      /\ \A k \in 1 .. m + n : ve[k] = sv[k]
      /\ ve[m + n + 1] = e
  BY <1>2, AppendProperties
<1> HIDE DEF ve
<1>5. ASSUME NEW k \in 1 .. m + n + 1 PROVE su[k] = ve[k]
  <2>1. CASE k <= m
    <3>1. k \in 1 .. m + (n + 1) /\ k \in 1 .. m + n BY <1>1, <2>1
    <3>2. su[k] = s[k] BY <1>3, <2>1, <3>1
    <3>3. sv[k] = s[k] BY <1>2, <2>1, <3>1
    <3>4. ve[k] = sv[k] BY <1>4, <3>1
    <3> QED BY <3>2, <3>3, <3>4
  <2>2. CASE k > m /\ k <= m + n
    <3>1. k - m \in 1 .. n /\ k \in 1 .. m + (n + 1) /\ k \in 1 .. m + n /\ ~(k <= m)
      BY <1>1, <2>2
    <3>2. su[k] = u[k - m] BY <1>3, <3>1
    <3>3. sv[k] = v[k - m] BY <1>2, <3>1
    <3>4. ve[k] = sv[k] BY <1>4, <3>1
    <3>5. u[k - m] = v[k - m] BY <1>1, <3>1
    <3> QED BY <3>2, <3>3, <3>4, <3>5
  <2>3. CASE k = m + n + 1
    <3>1. k - m = n + 1 /\ k \in 1 .. m + (n + 1) /\ ~(k <= m) BY <1>1, <2>3
    <3>2. su[k] = u[n + 1] BY <1>3, <3>1
    <3> QED BY <1>1, <1>4, <2>3, <3>2
  <2> QED BY <1>1, <2>1, <2>2, <2>3
<1>6. su = ve BY <1>1, <1>3, <1>4, <1>5, SeqEqual
<1> QED BY <1>2, <1>6 DEF su, ve, u, sv

\* A list is folded piece by piece.
THEOREM FoldedConcat ==
    ASSUME NEW base, NEW S, NEW s \in Seq(S), NEW t \in Seq(S)
    PROVE  Folded(base, s \o t) = Folded(Folded(base, s), t)
<1> DEFINE T == {n \in Nat : \A u \in Seq(S) : Len(u) = n =>
                    Folded(base, s \o u) = Folded(Folded(base, s), u)}
<1>1. 0 \in T
  <2>1. ASSUME NEW u \in Seq(S), Len(u) = 0
        PROVE  Folded(base, s \o u) = Folded(Folded(base, s), u)
    <3>1. u = <<>> /\ s \o u = s BY <2>1, ConcatEmptySeq
    <3> QED BY <3>1, FoldedEmpty
  <2> QED BY <2>1
<1>2. ASSUME NEW n \in Nat, n \in T PROVE n + 1 \in T
  <2>1. ASSUME NEW u \in Seq(S), Len(u) = n + 1
        PROVE  Folded(base, s \o u) = Folded(Folded(base, s), u)
    <3>1. PICK v \in Seq(S), e \in S : u = Append(v, e) /\ Len(v) = n BY <2>1, LastApart
    <3> DEFINE sv == s \o v
               su == s \o u
    <3>2. su = Append(sv, e) /\ sv \in Seq(S) BY <3>1, ConcatAppend
    <3>3. Folded(base, sv) = Folded(Folded(base, s), v) BY <1>2, <3>1
    <3> HIDE DEF sv
    <3>4. Folded(base, su) = op(Folded(base, sv), e) BY <3>2, FoldedAppend
    <3>5. Folded(Folded(base, s), u) = op(Folded(Folded(base, s), v), e)
      BY <3>1, FoldedAppend
    <3> QED BY <3>3, <3>4, <3>5
  <2> QED BY <2>1
<1> HIDE DEF T
<1>3. Len(t) \in T BY <1>1, <1>2, Induction
<1> QED BY <1>3 DEF T

\* What every step preserves the fold preserves.
THEOREM FoldedKeeps ==
    ASSUME NEW W, NEW base \in W, NEW S, NEW seq \in Seq(S),
           \A w \in W, e \in S : op(w, e) \in W
    PROVE  Folded(base, seq) \in W
<1> DEFINE T == {n \in Nat : \A u \in Seq(S) : Len(u) = n => Folded(base, u) \in W}
<1>1. 0 \in T
  <2>1. \A u \in Seq(S) : Len(u) = 0 => u = <<>> OBVIOUS
  <2> QED BY <2>1, FoldedEmpty
<1>2. ASSUME NEW n \in Nat, n \in T PROVE n + 1 \in T
  <2>1. ASSUME NEW u \in Seq(S), Len(u) = n + 1 PROVE Folded(base, u) \in W
    <3>1. PICK v \in Seq(S), e \in S : u = Append(v, e) /\ Len(v) = n BY <2>1, LastApart
    <3>2. Folded(base, v) \in W BY <1>2, <3>1
    <3> QED BY <3>1, <3>2, FoldedAppend
  <2> QED BY <2>1
<1> HIDE DEF T
<1>3. Len(seq) \in T BY <1>1, <1>2, Induction
<1> QED BY <1>3 DEF T
=============================================================================
