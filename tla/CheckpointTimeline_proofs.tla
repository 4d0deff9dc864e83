----------------------- MODULE CheckpointTimeline_proofs -----------------------
(***************************************************************************)
(* What holds of the timeline and the checkpoints for any files, any limit *)
(* of the list, and any number of edits, clips and rewinds.                *)
(***************************************************************************)
EXTENDS CheckpointTimeline, SequenceTheorems, WellFoundedInduction, TLAPS

F == INSTANCE Folding WITH op <- Muted
-----------------------------------------------------------------------------
(* The invariant.  What the services do is a function of the workbench's      *)
(* state w, so the invariant is one of such a state.                          *)

Snapshot == UNION {[fs -> 0 .. version] : fs \in SUBSET Files}
CheckpointRecord ==
    [id : Nat, kind : {"auto", "manual"}, time : 0 .. now, texts : Snapshot]

Workbench ==
    [text : [Files -> 0 .. version], clips : Seq(Clip), checkpoints : Seq(CheckpointRecord),
     current : Nat \cup {None}, nextId : Nat]

\* The list is within its limit and newest first, and its ids were given out.
Ordered(w) ==
    /\ Len(w.checkpoints) <= MaxCheckpoints
    /\ \A k \in DOMAIN w.checkpoints : w.checkpoints[k].id \in 1 .. w.nextId - 1
    /\ \A j, k \in DOMAIN w.checkpoints :
          j < k => /\ w.checkpoints[j].id > w.checkpoints[k].id
                   /\ w.checkpoints[j].time >= w.checkpoints[k].time
    /\ w.nextId >= 1 /\ w.current \in 1 .. w.nextId - 1 \cup {None}

FullOfManuals(cps) == Len(cps) = MaxCheckpoints /\ Autos(cps) = {}

Marked(w) ==
    \/ w.checkpoints = <<>> /\ w.current = None
    \/ w.checkpoints # <<>> /\ w.current = w.checkpoints[1].id
    \/ FullOfManuals(w.checkpoints)

\* From one list to a later one: a manual checkpoint is lost only if the later list is
\* full of manual ones, and a list that is full of them stays so.
Follows(before, after) ==
    /\ FullOfManuals(before) => FullOfManuals(after)
    /\ \A k \in DOMAIN before :
          before[k].kind = "manual" =>
              (\E j \in DOMAIN after : after[j] = before[k]) \/ FullOfManuals(after)

\* The list is full and has room for one automatic checkpoint at most.
Few(cps) == Len(cps) = MaxCheckpoints /\ \A j, k \in Autos(cps) : j = k

\* From one list to the next: the newest is lost only if few automatic ones are left.
Spares(before, after) ==
    /\ Few(before) => Few(after)
    /\ before # <<>> => Few(after) \/ \E k \in DOMAIN after : after[k] = before[1]

\* The newest checkpoint holds what file f reads, as far as the list has the room.
Showing(w, f) ==
    \/ Few(w.checkpoints)
    \/ w.checkpoints # <<>> /\ Holds(w.checkpoints[1], f, w.text[f])

ShowsOn(w, v) == v.text = w.text /\ \A f \in open : Showing(w, f) => Showing(v, f)

\* What the newest checkpoint of w holds of the open files can be restored in v.
Restorable(w, v) ==
    \A f \in open : Showing(w, f) =>
        \/ Few(v.checkpoints)
        \/ \E k \in DOMAIN v.checkpoints : Holds(v.checkpoints[k], f, w.text[f])

Survived ==
    \A f \in open :
        (checkpoints # <<>> /\ Holds(checkpoints[1], f, text[f])) =>
            \/ \E k \in DOMAIN checkpoints' : Holds(checkpoints'[k], f, text[f])
            \/ \A j, k \in Autos(checkpoints') : j = k

Bounded ==
    /\ version \in 0 .. MaxVersion /\ open \subseteq Files /\ now \in 0 .. MaxClock
    /\ Len(clips) <= MaxClips /\ nextId <= MaxId + 1

Good(w) == w \in Workbench /\ Ordered(w) /\ Marked(w)

Surroundings == open \subseteq Files /\ now \in Nat /\ version \in Nat

TimelineInv == Bounded /\ Good(State)
-----------------------------------------------------------------------------
(* The largest and the smallest of a set of places. *)

LEMMA MinOfPlaces ==
    ASSUME NEW S \in SUBSET Nat, S # {}
    PROVE  Min(S) \in S /\ \A x \in S : Min(S) <= x
<1> DEFINE R == OpToRel(<, Nat)
<1>1. IsWellFoundedOn(R, Nat) BY NatLessThanWellFounded
<1>2. \A x, y \in Nat : <<x, y>> \in R <=> x < y BY DEF OpToRel
<1> HIDE DEF R
<1>3. PICK m \in S : \A y \in S : <<y, m>> \notin R BY <1>1, WFMin
<1>4. ASSUME NEW y \in S PROVE m <= y
  <2>1. m \in Nat /\ y \in Nat /\ ~(y < m) BY <1>2, <1>3
  <2> QED BY <2>1
<1> QED BY <1>4 DEF Min

LEMMA MaxOfPlaces ==
    ASSUME NEW n \in Nat, NEW S \in SUBSET (1 .. n), S # {}
    PROVE  Max(S) \in S /\ \A x \in S : x <= Max(S)
<1> DEFINE T == {n - x : x \in S}
<1>1. \A x \in S : x \in Nat /\ n - x \in Nat /\ n - x \in T OBVIOUS
<1>2. T \in SUBSET Nat /\ T # {} BY <1>1
<1>3. Min(T) \in T /\ \A y \in T : Min(T) <= y BY <1>2, MinOfPlaces
<1>4. PICK m \in S : Min(T) = n - m BY <1>3
<1>5. ASSUME NEW x \in S PROVE m >= x
  <2>1. n - m <= n - x /\ m \in Nat /\ x \in Nat BY <1>1, <1>3, <1>4
  <2> QED BY <2>1
<1> QED BY <1>5 DEF Max
-----------------------------------------------------------------------------
(* The list of checkpoints. *)

\* Without the element at place i the others keep their order.
LEMMA Removed ==
    ASSUME NEW S, NEW s \in Seq(S), NEW i \in 1 .. Len(s)
    PROVE  /\ RemoveAt(s, i) \in Seq(S) /\ Len(RemoveAt(s, i)) = Len(s) - 1
           /\ \A k \in 1 .. Len(s) - 1 : RemoveAt(s, i)[k] = IF k < i THEN s[k] ELSE s[k + 1]
<1> DEFINE n == Len(s)
           a == SubSeq(s, 1, i - 1)
           b == SubSeq(s, i + 1, n)
<1>1. n \in Nat /\ \A k \in 1 .. n : s[k] \in S BY LenProperties
<1> HIDE DEF n
<1>2. /\ a \in Seq(S) /\ Len(a) = i - 1 /\ \A k \in 1 .. i - 1 : a[k] = s[k]
  <2>1. 1 \in Int /\ i - 1 \in Int /\ \A k \in 1 .. i - 1 : k \in 1 .. n BY <1>1 DEF n
  <2>2. /\ a \in Seq(S) /\ Len(a) = IF 1 <= i - 1 THEN (i - 1) - 1 + 1 ELSE 0
        /\ \A k \in 1 .. (i - 1) - 1 + 1 : a[k] = s[1 + k - 1]
    BY <1>1, <2>1, SubSeqProperties
  <2>3. (i - 1) - 1 + 1 = i - 1 /\ \A k \in 1 .. i - 1 : 1 + k - 1 = k BY <2>1
  <2>4. Len(a) = i - 1 BY <1>1, <2>2 DEF n
  <2> QED BY <2>2, <2>3, <2>4
<1>3. /\ b \in Seq(S) /\ Len(b) = n - i /\ \A k \in 1 .. n - i : b[k] = s[k + i]
  <2>1. i + 1 \in Int /\ n \in Int /\ \A k \in i + 1 .. n : k \in 1 .. n BY <1>1 DEF n
  <2>2. /\ b \in Seq(S) /\ Len(b) = IF i + 1 <= n THEN n - (i + 1) + 1 ELSE 0
        /\ \A k \in 1 .. n - (i + 1) + 1 : b[k] = s[(i + 1) + k - 1]
    BY <1>1, <2>1, SubSeqProperties
  <2>3. n - (i + 1) + 1 = n - i /\ \A k \in 1 .. n - i : (i + 1) + k - 1 = k + i BY <2>1
  <2>4. Len(b) = n - i BY <1>1, <2>2 DEF n
  <2> QED BY <2>2, <2>3, <2>4
<1>4. RemoveAt(s, i) = a \o b BY DEF RemoveAt, n
<1> HIDE DEF a, b
<1>5. (i - 1) + (n - i) = n - 1 /\ i \in 1 .. n BY <1>1 DEF n
<1>6. /\ a \o b \in Seq(S) /\ Len(a \o b) = n - 1
      /\ \A k \in 1 .. n - 1 : (a \o b)[k] = IF k <= i - 1 THEN a[k] ELSE b[k - (i - 1)]
  <2>1. /\ a \o b \in Seq(S) /\ Len(a \o b) = Len(a) + Len(b)
        /\ \A k \in 1 .. Len(a) + Len(b) :
              (a \o b)[k] = IF k <= Len(a) THEN a[k] ELSE b[k - Len(a)]
    BY <1>2, <1>3, ConcatProperties
  <2>2. Len(a) = i - 1 /\ Len(a) + Len(b) = n - 1 BY <1>2, <1>3, <1>5
  <2> QED BY <2>1, <2>2
<1>7. ASSUME NEW k \in 1 .. n - 1 PROVE (a \o b)[k] = IF k < i THEN s[k] ELSE s[k + 1]
  <2>1. CASE k < i
    <3>1. k <= i - 1 /\ k \in 1 .. i - 1 BY <1>5, <2>1
    <3> QED BY <1>2, <1>5, <1>6, <2>1, <3>1
  <2>2. CASE ~(k < i)
    <3>1. ~(k <= i - 1) /\ k - (i - 1) \in 1 .. n - i /\ (k - (i - 1)) + i = k + 1
      BY <1>1, <1>5, <2>2
    <3> QED BY <1>3, <1>5, <1>6, <2>2, <3>1
  <2> QED BY <2>1, <2>2
<1> QED BY <1>4, <1>5, <1>6, <1>7 DEF n

LEMMA AutosRange ==
    ASSUME NEW S, NEW cps \in Seq(S)
    PROVE  Autos(cps) \in SUBSET (1 .. Len(cps)) /\ Len(cps) \in Nat
BY LenProperties DEF Autos

\* A new checkpoint and prune: the list stays within its limit and in its order, the new
\* one is its head unless only manual ones are left, and a manual one goes only then.
LEMMA PruneKeeps ==
    ASSUME NEW S, NEW cps \in Seq(S), Len(cps) <= MaxCheckpoints, NEW new \in S,
           \A c \in S : c.kind \in {"auto", "manual"}, NEW p, p = Prune(<<new>> \o cps)
    PROVE  /\ p \in Seq(S) /\ Len(p) <= MaxCheckpoints
           /\ \E at \in [DOMAIN p -> 0 .. Len(cps)] :
                 /\ \A k \in DOMAIN p : p[k] = IF at[k] = 0 THEN new ELSE cps[at[k]]
                 /\ \A j, k \in DOMAIN p : j < k => at[j] < at[k]
           /\ (p # <<>> /\ p[1] = new) \/ FullOfManuals(p)
           /\ Follows(cps, p) /\ Spares(cps, p)
<1> DEFINE n == Len(cps)
           list == <<new>> \o cps
<1>1. n \in Nat /\ DOMAIN cps = 1 .. n /\ \A k \in 1 .. n : cps[k] \in S BY LenProperties
<1> HIDE DEF n
<1>2. /\ list \in Seq(S) /\ Len(list) = n + 1 /\ list[1] = new
      /\ \A k \in 1 .. n : list[k + 1] = cps[k]
      /\ \A k \in 1 .. n + 1 : list[k] = IF k = 1 THEN new ELSE cps[k - 1]
  <2>1. <<new>> \in Seq(S) /\ Len(<<new>>) = 1 /\ <<new>>[1] = new OBVIOUS
  <2>2. /\ list \in Seq(S) /\ Len(list) = 1 + n
        /\ \A k \in 1 .. 1 + n : list[k] = IF k <= 1 THEN <<new>>[k] ELSE cps[k - 1]
    BY <2>1, ConcatProperties DEF n
  <2> HIDE DEF list
  <2>3. \A k \in 1 .. n + 1 : k \in 1 .. 1 + n /\ (k <= 1 <=> k = 1) BY <1>1
  <2>4. 1 + n = n + 1 /\ 1 \in 1 .. n + 1 BY <1>1
  <2>5. \A k \in 1 .. n + 1 : list[k] = IF k = 1 THEN new ELSE cps[k - 1]
    BY <2>1, <2>2, <2>3, <2>4
  <2>6. \A k \in 1 .. n : k + 1 \in 1 .. n + 1 /\ k + 1 # 1 /\ (k + 1) - 1 = k BY <1>1
  <2>7. \A k \in 1 .. n : list[k + 1] = cps[k] BY <2>5, <2>6
  <2> QED BY <2>2, <2>4, <2>5, <2>7
<1>3. p = Prune(list) OBVIOUS
<1> HIDE DEF list
<1>4. Autos(list) \in SUBSET (1 .. n + 1) BY <1>2, AutosRange
<1>5. MaxCheckpoints \in Nat \ {0} /\ n <= MaxCheckpoints
  BY WorkbenchAssumption DEF WorkbenchAssumption, n
<1>6. CASE n + 1 <= MaxCheckpoints
  <2>1. p = list BY <1>2, <1>3, <1>6 DEF Prune
  <2>2. p # <<>> /\ p[1] = new /\ DOMAIN p = 1 .. n + 1 BY <1>1, <1>2, <2>1, LenProperties, EmptySeq
  <2>3. ~FullOfManuals(cps)
    <3>1. n # MaxCheckpoints BY <1>1, <1>5, <1>6
    <3> QED BY <3>1 DEF FullOfManuals, n
  <2>4. \A k \in 1 .. n : k + 1 \in DOMAIN p /\ p[k + 1] = cps[k] BY <1>1, <1>2, <2>1, <2>2
  <2>5. Follows(cps, p) BY <1>1, <2>3, <2>4 DEF Follows
  <2>10. Spares(cps, p)
    <3>0. n # MaxCheckpoints BY <1>1, <1>5, <1>6
    <3>1. ~Few(cps) BY <3>0 DEF Few, n
    <3>2. cps # <<>> => 1 \in 1 .. n BY <1>1, EmptySeq DEF n
    <3> QED BY <2>4, <3>1, <3>2 DEF Spares
  <2>6. PICK at : at = [k \in DOMAIN p |-> k - 1] OBVIOUS
  <2>7. at \in [DOMAIN p -> 0 .. n] BY <1>1, <2>2, <2>6
  <2>8. \A k \in DOMAIN p : at[k] = k - 1 /\ p[k] = IF at[k] = 0 THEN new ELSE cps[at[k]]
    BY <1>1, <1>2, <2>1, <2>2, <2>6
  <2>9. \A j, k \in DOMAIN p : j < k => at[j] < at[k] BY <1>1, <2>2, <2>8
  <2> QED BY <1>2, <1>6, <2>1, <2>2, <2>5, <2>7, <2>8, <2>9, <2>10 DEF n
<1>7. CASE ~(n + 1 <= MaxCheckpoints)
  <2>1. n = MaxCheckpoints /\ n >= 1 BY <1>1, <1>5, <1>7
  <2>2. PICK i : i = IF Autos(list) = {} THEN n + 1 ELSE Max(Autos(list)) OBVIOUS
  <2>3. p = RemoveAt(list, i) BY <1>2, <1>3, <1>7, <2>2 DEF Prune
  <2>4. /\ i \in 1 .. n + 1
        /\ Autos(list) # {} => i \in Autos(list) /\ \A x \in Autos(list) : x <= i
        /\ Autos(list) = {} => i = n + 1
    <3>1. CASE Autos(list) = {} BY <1>1, <2>2, <3>1
    <3>2. CASE Autos(list) # {}
      <4>1. n + 1 \in Nat BY <1>1
      <4>2. Max(Autos(list)) \in Autos(list) /\ \A x \in Autos(list) : x <= Max(Autos(list))
        BY <1>4, <3>2, <4>1, MaxOfPlaces
      <4> QED BY <1>4, <2>2, <3>2, <4>2
    <3> QED BY <3>1, <3>2
  <2>5. /\ p \in Seq(S) /\ Len(p) = n /\ DOMAIN p = 1 .. n
        /\ \A k \in 1 .. n : p[k] = IF k < i THEN list[k] ELSE list[k + 1]
    <3>1. (n + 1) - 1 = n BY <1>1
    <3>2. /\ p \in Seq(S) /\ Len(p) = n
          /\ \A k \in 1 .. n : p[k] = IF k < i THEN list[k] ELSE list[k + 1]
      <4>1. i \in 1 .. Len(list) /\ list \in Seq(S) BY <1>2, <2>4
      <4>2. /\ p \in Seq(S) /\ Len(p) = Len(list) - 1
            /\ \A k \in 1 .. Len(list) - 1 : p[k] = IF k < i THEN list[k] ELSE list[k + 1]
        BY <2>3, <4>1, Removed
      <4>3. Len(list) - 1 = n BY <1>2, <3>1
      <4> QED BY <4>2, <4>3
    <3> QED BY <3>2, LenProperties
  <2>6. \A k \in 1 .. n + 1 : list[k] \in S /\ (k \in Autos(list) <=> list[k].kind = "auto")
    BY <1>2, LenProperties DEF Autos
  <2>7. \A k \in 1 .. n : k \in 1 .. n + 1 /\ k + 1 \in 1 .. n + 1 BY <1>1
  <2>8. ASSUME i = 1 \/ Autos(list) = {} PROVE FullOfManuals(p)
    <3>1. ASSUME NEW k \in 1 .. n PROVE p[k].kind # "auto"
      <4>1. CASE Autos(list) = {} BY <2>5, <2>6, <2>7, <4>1
      <4>2. CASE Autos(list) # {} /\ i = 1
        <5>1. p[k] = list[k + 1] /\ ~(k + 1 <= 1) BY <1>1, <2>5, <4>2
        <5> QED BY <2>4, <2>6, <2>7, <4>2, <5>1
      <4> QED BY <2>8, <4>1, <4>2
    <3> QED BY <2>1, <2>5, <3>1 DEF FullOfManuals, Autos
  <2>9. (p # <<>> /\ p[1] = new) \/ FullOfManuals(p)
    <3>1. CASE i = 1 BY <2>8, <3>1
    <3>2. CASE i # 1
      <4>1. 1 < i /\ 1 \in 1 .. n BY <1>1, <2>1, <2>4, <3>2
      <4>2. p[1] = new BY <1>2, <2>5, <4>1
      <4>3. p # <<>> BY <2>1, <2>5, EmptySeq
      <4> QED BY <4>2, <4>3
    <3> QED BY <3>1, <3>2
  <2>10. PICK at : at = [k \in DOMAIN p |-> IF k < i THEN k - 1 ELSE k] OBVIOUS
  <2>11. at \in [DOMAIN p -> 0 .. n] BY <1>1, <2>4, <2>5, <2>10
  <2>12. ASSUME NEW k \in 1 .. n PROVE p[k] = IF at[k] = 0 THEN new ELSE cps[at[k]]
    <3>1. CASE k < i
      <4>1. at[k] = k - 1 /\ p[k] = list[k] /\ (k - 1 = 0 <=> k = 1)
        BY <1>1, <2>5, <2>10, <3>1
      <4> QED BY <1>2, <2>7, <4>1
    <3>2. CASE ~(k < i)
      <4>1. at[k] = k /\ p[k] = list[k + 1] /\ k # 0 BY <1>1, <2>5, <2>10, <3>2
      <4> QED BY <1>2, <4>1
    <3> QED BY <3>1, <3>2
  <2>13. \A j, k \in DOMAIN p : j < k => at[j] < at[k] BY <1>1, <2>4, <2>5, <2>10
  <2>14. Follows(cps, p)
    <3>1. ASSUME FullOfManuals(cps) PROVE FullOfManuals(p)
      <4>1. \A k \in 1 .. n : cps[k].kind # "auto" BY <1>1, <3>1 DEF FullOfManuals, Autos
      <4>2. \A k \in Autos(list) : k = 1
        <5> SUFFICES ASSUME NEW k \in Autos(list), k # 1 PROVE FALSE
          OBVIOUS
        <5>1. k \in 1 .. n + 1 BY <1>4
        <5>2. k - 1 \in 1 .. n /\ list[k] = cps[k - 1] BY <1>1, <1>2, <5>1
        <5> QED BY <2>6, <4>1, <5>1, <5>2
      <4>3. i = 1 \/ Autos(list) = {} BY <2>4, <4>2
      <4> QED BY <2>8, <4>3
    <3>2. ASSUME NEW k \in DOMAIN cps, cps[k].kind = "manual"
          PROVE  (\E j \in DOMAIN p : p[j] = cps[k]) \/ FullOfManuals(p)
      <4>1. k \in 1 .. n /\ list[k + 1] = cps[k] BY <1>1, <1>2, <3>2
      <4>2. CASE k + 1 < i
        <5>1. k + 1 \in 1 .. n BY <1>1, <2>4, <4>1, <4>2
        <5> QED BY <2>5, <4>1, <4>2, <5>1
      <4>3. CASE k + 1 = i
        <5>1. i \notin Autos(list) BY <2>6, <2>4, <3>2, <4>1, <4>3
        <5> QED BY <2>4, <2>8, <5>1
      <4>4. CASE k + 1 > i
        <5>1. ~(k < i) BY <1>1, <2>4, <4>1, <4>4
        <5> QED BY <2>5, <4>1, <5>1
      <4> QED BY <1>1, <2>4, <4>1, <4>2, <4>3, <4>4
    <3> QED BY <3>1, <3>2 DEF Follows
  <2>15. ASSUME i <= 2 PROVE Few(p)
    <3>1. ASSUME NEW k \in 1 .. n, k # 1 PROVE p[k].kind # "auto"
      <4>1. p[k] = list[k + 1] /\ k + 1 > i BY <1>1, <2>4, <2>5, <2>15, <3>1
      <4> QED BY <2>4, <2>6, <2>7, <4>1
    <3> QED BY <2>1, <2>5, <3>1 DEF Few, Autos
  <2>16. ASSUME Few(cps) PROVE Few(p)
    <3>1. \A j, k \in 1 .. n : cps[j].kind = "auto" /\ cps[k].kind = "auto" => j = k
      BY <1>1, <2>16 DEF Few, Autos
    <3>2. CASE i <= 2 BY <2>15, <3>2
    <3>3. CASE ~(i <= 2)
      <4>1. CASE Autos(list) = {} BY <2>8, <4>1 DEF Few, FullOfManuals
      <4>2. CASE Autos(list) # {}
        <5>1. i - 1 \in 1 .. n /\ cps[i - 1] = list[i] /\ list[i].kind = "auto"
          BY <1>1, <1>2, <2>4, <2>6, <3>3, <4>2
        <5>2. ASSUME NEW k \in 1 .. n, k # 1 PROVE p[k].kind # "auto"
          <6>1. CASE k < i
            <7>1. p[k] = list[k] /\ list[k] = cps[k - 1]
              BY <1>2, <2>5, <2>7, <5>2, <6>1
            <7>2. k - 1 \in 1 .. n /\ k - 1 # i - 1 BY <1>1, <2>4, <5>2, <6>1
            <7> QED BY <3>1, <5>1, <7>1, <7>2
          <6>2. CASE ~(k < i)
            <7>1. p[k] = list[k + 1] /\ k + 1 > i BY <1>1, <2>4, <2>5, <6>2
            <7> QED BY <2>4, <2>6, <2>7, <7>1
          <6> QED BY <6>1, <6>2
        <5> QED BY <2>1, <2>5, <5>2 DEF Few, Autos
      <4> QED BY <4>1, <4>2
    <3> QED BY <3>2, <3>3
  <2>17. Spares(cps, p)
    <3>1. CASE i <= 2 BY <2>15, <3>1 DEF Spares
    <3>2. CASE ~(i <= 2)
      <4>1. 2 \in 1 .. n /\ 2 < i /\ 1 \in 1 .. n BY <1>1, <2>4, <3>2
      <4>2. p[2] = list[2] /\ list[2] = cps[1] BY <1>2, <2>5, <4>1
      <4> QED BY <2>5, <2>16, <4>1, <4>2 DEF Spares
    <3> QED BY <3>1, <3>2
  <2> QED BY <2>1, <2>5, <2>9, <2>11, <2>12, <2>13, <2>14, <2>17, <1>5 DEF n
<1> QED BY <1>6, <1>7

LEMMA FollowsItself == \A cps : Follows(cps, cps)
BY DEF Follows

LEMMA FollowsOn ==
    ASSUME NEW a, NEW b, NEW c, Follows(a, b), Follows(b, c)
    PROVE  Follows(a, c)
BY DEF Follows
LEMMA ShowsOnItself == \A w : ShowsOn(w, w)
BY DEF ShowsOn

LEMMA ShowsOnOn ==
    ASSUME NEW a, NEW b, NEW c, ShowsOn(a, b), ShowsOn(b, c)
    PROVE  ShowsOn(a, c)
BY DEF ShowsOn

\* What was checkpointed before a rewind can be restored after it.
LEMMA ShownRestorable ==
    ASSUME NEW a, NEW b, NEW c, ShowsOn(a, b), Restorable(b, c)
    PROVE  Restorable(a, c)
BY DEF ShowsOn, Restorable

LEMMA ShowsRestorable ==
    ASSUME NEW w, NEW v \in Workbench, ShowsOn(w, v)
    PROVE  Restorable(w, v)
<1>1. v.checkpoints \in Seq(CheckpointRecord) BY DEF Workbench
<1>2. v.checkpoints # <<>> => 1 \in DOMAIN v.checkpoints BY <1>1, LenProperties, EmptySeq
<1> QED BY <1>2 DEF ShowsOn, Restorable, Showing
-----------------------------------------------------------------------------
(* What the services do. *)

LEMMA RecordsTyped == \A c \in CheckpointRecord : c.kind \in {"auto", "manual"}
BY DEF CheckpointRecord

\* The fields of a workbench's state.
LEMMA WorkbenchTyped ==
    ASSUME NEW w \in Workbench
    PROVE  /\ w.text \in [Files -> 0 .. version] /\ w.clips \in Seq(Clip)
           /\ w.checkpoints \in Seq(CheckpointRecord)
           /\ w.current \in Nat \cup {None} /\ w.nextId \in Nat
BY DEF Workbench

LEMMA CheckpointKeeps ==
    ASSUME NEW w \in Workbench, Ordered(w), NEW kind \in {"auto", "manual"},
           Surroundings, NEW v, v = Checkpoint(w, kind)
    PROVE  /\ v \in Workbench /\ Ordered(v) /\ Marked(v)
           /\ v.text = w.text /\ v.clips = w.clips
           /\ Follows(w.checkpoints, v.checkpoints)
           /\ Spares(w.checkpoints, v.checkpoints) /\ ShowsOn(w, v)
<1> DEFINE new == [id |-> w.nextId, kind |-> kind, time |-> now, texts |-> Captured(w)]
           cps == w.checkpoints
           p == Prune(<<new>> \o cps)
           n == Len(cps)
<1>1. /\ w.text \in [Files -> 0 .. version] /\ cps \in Seq(CheckpointRecord) /\ w.nextId \in Nat
      /\ w.clips \in Seq(Clip)
  BY WorkbenchTyped
<1>2. new \in CheckpointRecord
  <2>1. Captured(w) \in [open -> 0 .. version] BY <1>1 DEF Captured, Surroundings
  <2>2. Captured(w) \in Snapshot BY <2>1 DEF Snapshot, Surroundings
  <2> QED BY <1>1, <2>2 DEF CheckpointRecord, Surroundings
<1>3. v = [w EXCEPT !.checkpoints = p, !.current = w.nextId, !.nextId = w.nextId + 1]
  BY DEF Checkpoint
<1>4. new.id = w.nextId /\ new.kind = kind /\ new.time = now /\ new.texts = Captured(w)
  OBVIOUS
<1>5. Len(cps) <= MaxCheckpoints BY DEF Ordered
<1> HIDE DEF new
<1>6. /\ p \in Seq(CheckpointRecord) /\ Len(p) <= MaxCheckpoints
      /\ \E at \in [DOMAIN p -> 0 .. n] :
            /\ \A k \in DOMAIN p : p[k] = IF at[k] = 0 THEN new ELSE cps[at[k]]
            /\ \A j, k \in DOMAIN p : j < k => at[j] < at[k]
      /\ (p # <<>> /\ p[1] = new) \/ FullOfManuals(p)
      /\ Follows(cps, p) /\ Spares(cps, p)
  BY <1>1, <1>2, <1>5, RecordsTyped, PruneKeeps
<1> HIDE DEF p
<1>7. /\ v.checkpoints = p /\ v.current = w.nextId /\ v.nextId = w.nextId + 1
      /\ v.text = w.text /\ v.clips = w.clips
  BY <1>3 DEF Workbench
<1>8. v \in Workbench
  <2>1. w.nextId \in Nat \cup {None} /\ w.nextId + 1 \in Nat BY <1>1
  <2> QED BY <1>3, <1>6, <2>1 DEF Workbench
<1>9. PICK at \in [DOMAIN p -> 0 .. n] :
          /\ \A k \in DOMAIN p : p[k] = IF at[k] = 0 THEN new ELSE cps[at[k]]
          /\ \A j, k \in DOMAIN p : j < k => at[j] < at[k]
  BY <1>6
<1>10. n \in Nat /\ DOMAIN cps = 1 .. n /\ \A k \in 1 .. n : cps[k] \in CheckpointRecord
  BY <1>1, LenProperties
<1> HIDE DEF n, cps
<1>11. /\ \A k \in 1 .. n : cps[k].id \in 1 .. w.nextId - 1 /\ cps[k].time \in 0 .. now
       /\ \A j, k \in 1 .. n : j < k => cps[j].id > cps[k].id /\ cps[j].time >= cps[k].time
       /\ w.nextId >= 1
  BY <1>10 DEF Ordered, cps, CheckpointRecord
<1>12. \A k \in DOMAIN p : at[k] = 0 \/ at[k] \in 1 .. n BY <1>9, <1>10
<1>13. Ordered(v)
  <2>1. ASSUME NEW k \in DOMAIN p PROVE p[k].id \in 1 .. v.nextId - 1
    <3>1. CASE at[k] = 0 BY <1>1, <1>4, <1>7, <1>9, <1>11, <3>1
    <3>2. CASE at[k] \in 1 .. n
      <4>1. p[k] = cps[at[k]] BY <1>9, <1>10, <3>2
      <4> QED BY <1>1, <1>7, <1>11, <3>2, <4>1
    <3> QED BY <1>12, <3>1, <3>2
  <2>2. ASSUME NEW j \in DOMAIN p, NEW k \in DOMAIN p, j < k
        PROVE  p[j].id > p[k].id /\ p[j].time >= p[k].time
    <3>1. at[j] < at[k] BY <1>9, <2>2
    <3>2. at[k] \in 1 .. n /\ at[k] # 0 BY <1>9, <1>10, <1>12, <3>1
    <3>3. p[k] = cps[at[k]] BY <1>9, <3>2
    <3>4. CASE at[j] = 0
      <4>1. p[j] = new BY <1>9, <3>4
      <4> QED BY <1>1, <1>4, <1>11, <3>2, <3>3, <4>1 DEF Surroundings
    <3>5. CASE at[j] \in 1 .. n
      <4>1. p[j] = cps[at[j]] BY <1>9, <1>10, <3>5
      <4> QED BY <1>11, <3>1, <3>2, <3>3, <3>5, <4>1
    <3> QED BY <1>12, <3>4, <3>5
  <2>3. v.nextId >= 1 /\ v.current \in 1 .. v.nextId - 1 BY <1>1, <1>7, <1>11
  <2> QED BY <1>6, <1>7, <2>1, <2>2, <2>3 DEF Ordered
<1>14. Marked(v) BY <1>4, <1>6, <1>7 DEF Marked
<1>15. ShowsOn(w, v)
  <2>1. \A f \in open : Holds(new, f, w.text[f]) BY <1>4 DEF Holds, Captured
  <2>2. CASE FullOfManuals(p) BY <1>7, <2>2 DEF FullOfManuals, Few, ShowsOn, Showing
  <2>3. CASE p # <<>> /\ p[1] = new BY <1>7, <2>1, <2>3 DEF ShowsOn, Showing
  <2> QED BY <1>6, <2>2, <2>3
<1> QED BY <1>6, <1>7, <1>8, <1>13, <1>14, <1>15 DEF cps

\* The state of the workbench with other clips.
LEMMA WithClips ==
    ASSUME NEW w \in Workbench, NEW cs \in Seq(Clip), NEW v, v = [w EXCEPT !.clips = cs]
    PROVE  /\ v \in Workbench /\ v.text = w.text /\ v.current = w.current /\ v.clips = cs
           /\ v.checkpoints = w.checkpoints /\ v.nextId = w.nextId
BY DEF Workbench

LEMMA ChangedKeeps ==
    ASSUME NEW w \in Workbench, Ordered(w), Surroundings, NEW v, v = Changed(w)
    PROVE  /\ v \in Workbench /\ Ordered(v) /\ (Marked(w) => Marked(v))
           /\ v.text = w.text /\ v.clips = w.clips
           /\ Follows(w.checkpoints, v.checkpoints) /\ ShowsOn(w, v)
<1>1. CASE v = w BY <1>1, FollowsItself, ShowsOnItself
<1>2. CASE v = Checkpoint(w, "auto") BY <1>2, CheckpointKeeps
<1> QED BY <1>1, <1>2 DEF Changed

LEMMA ClippedKeeps ==
    ASSUME NEW w \in Workbench, Ordered(w), Surroundings, NEW v, v = Clipped(w)
    PROVE  /\ Good(v) /\ v.text = w.text
           /\ Follows(w.checkpoints, v.checkpoints)
           /\ Spares(w.checkpoints, v.checkpoints) /\ ShowsOn(w, v)
<1> DEFINE c == [time |-> now, muted |-> FALSE]
           cs == Append(w.clips, c)
           u == [w EXCEPT !.clips = cs]
<1>1. c \in Clip BY DEF Clip, Surroundings
<1>2. w.clips \in Seq(Clip) BY WorkbenchTyped
<1>3. /\ cs \in Seq(Clip) /\ cs # <<>> /\ cs[Len(cs)] = c BY <1>1, <1>2, AppendProperties
<1>4. v = Changed(u) BY DEF Clipped
<1>5. ~c.muted OBVIOUS
<1> HIDE DEF c, cs
<1>6. /\ u \in Workbench /\ u.text = w.text /\ u.clips = cs /\ u.checkpoints = w.checkpoints
      /\ u.current = w.current /\ u.nextId = w.nextId
  BY <1>3, WithClips
<1> HIDE DEF u
<1>7. Ordered(u) BY <1>6 DEF Ordered
<1>8. v = Checkpoint(u, "auto") BY <1>3, <1>4, <1>5, <1>6 DEF Changed
<1>9. /\ v \in Workbench /\ Ordered(v) /\ Marked(v) /\ v.text = u.text
      /\ Follows(u.checkpoints, v.checkpoints)
      /\ Spares(u.checkpoints, v.checkpoints) /\ ShowsOn(u, v)
  BY <1>6, <1>7, <1>8, CheckpointKeeps
<1>10. ShowsOn(w, v) BY <1>6, <1>9 DEF ShowsOn, Showing
<1> QED BY <1>6, <1>9, <1>10 DEF Good

\* One clip's mark is set or taken away.
LEMMA ToggledKeeps ==
    ASSUME NEW w \in Workbench, Ordered(w), Marked(w), Surroundings, NEW k \in DOMAIN w.clips,
           NEW b \in BOOLEAN, NEW v, v = Changed([w EXCEPT !.clips[k].muted = b])
    PROVE  /\ Good(v) /\ Len(v.clips) = Len(w.clips)
           /\ Follows(w.checkpoints, v.checkpoints) /\ ShowsOn(w, v)
<1> DEFINE cs == [w.clips EXCEPT ![k].muted = b]
           u == [w EXCEPT !.clips = cs]
<1>1. w.clips \in Seq(Clip) BY WorkbenchTyped
<1>2. [w EXCEPT !.clips[k].muted = b] = u BY DEF Workbench
<1>3. cs \in Seq(Clip) /\ Len(cs) = Len(w.clips)
  <2>1. Len(w.clips) \in Nat /\ DOMAIN w.clips = 1 .. Len(w.clips)
        /\ w.clips \in [1 .. Len(w.clips) -> Clip]
    BY <1>1, LenProperties
  <2>2. [w.clips[k] EXCEPT !.muted = b] \in Clip BY <2>1 DEF Clip
  <2>3. cs \in [1 .. Len(w.clips) -> Clip] BY <2>1, <2>2
  <2> QED BY <2>1, <2>3
<1> HIDE DEF cs
<1>4. /\ u \in Workbench /\ u.clips = cs /\ u.checkpoints = w.checkpoints
      /\ u.current = w.current /\ u.nextId = w.nextId /\ u.text = w.text
  BY <1>3, WithClips
<1>5. v = Changed(u) BY <1>2
<1> HIDE DEF u
<1>6. Ordered(u) /\ Marked(u) /\ ShowsOn(w, u) BY <1>4 DEF Ordered, Marked, ShowsOn, Showing
<1>7. ShowsOn(w, v) BY <1>4, <1>5, <1>6, ChangedKeeps, ShowsOnOn
<1> QED BY <1>3, <1>4, <1>5, <1>6, <1>7, ChangedKeeps DEF Good

LEMMA MutedKeeps ==
    ASSUME NEW w \in Workbench, Ordered(w), Marked(w), Surroundings, NEW k \in DOMAIN w.clips,
           NEW v, v = Muted(w, k)
    PROVE  /\ Good(v) /\ Len(v.clips) = Len(w.clips)
           /\ Follows(w.checkpoints, v.checkpoints) /\ ShowsOn(w, v)
<1>1. CASE v = w BY <1>1, FollowsItself, ShowsOnItself DEF Good
<1>2. CASE v = Changed([w EXCEPT !.clips[k].muted = TRUE]) BY <1>2, ToggledKeeps
<1> QED BY <1>1, <1>2 DEF Muted

LEMMA RewoundKeeps ==
    ASSUME NEW w \in Workbench, Ordered(w), Surroundings, NEW k \in DOMAIN w.checkpoints,
           NEW v, v = Rewound(w, w.checkpoints[k])
    PROVE  /\ Good(v) /\ Follows(w.checkpoints, v.checkpoints)
           /\ Restorable(w, v)
<1> DEFINE c == w.checkpoints[k]
           t == Restored(w, c)
           u == [w EXCEPT !.text = t, !.current = c.id]
<1>1. w.checkpoints \in Seq(CheckpointRecord) /\ w.text \in [Files -> 0 .. version]
  BY WorkbenchTyped
<1>2. c \in CheckpointRecord BY <1>1, LenProperties
<1>3. c.id \in 1 .. w.nextId - 1 BY DEF Ordered
<1>4. t \in [Files -> 0 .. version]
  <2>1. PICK fs \in SUBSET Files : c.texts \in [fs -> 0 .. version]
    BY <1>2 DEF CheckpointRecord, Snapshot
  <2> HIDE DEF c
  <2>2. ASSUME NEW f \in Files
        PROVE  (IF f \in open /\ f \in DOMAIN c.texts THEN c.texts[f] ELSE w.text[f])
                  \in 0 .. version
    BY <1>1, <2>1
  <2> QED BY <2>2 DEF Restored
<1>5. v = Clipped(u) BY DEF Rewound
<1>6. c.id \in Nat BY <1>3
<1> HIDE DEF c, t
<1>7. /\ u \in Workbench /\ u.text = t /\ u.current = c.id /\ u.checkpoints = w.checkpoints
      /\ u.nextId = w.nextId
  BY <1>4, <1>6 DEF Workbench
<1> HIDE DEF u
<1>8. Ordered(u) BY <1>3, <1>7 DEF Ordered
<1>9. /\ Good(v) /\ Follows(w.checkpoints, v.checkpoints)
      /\ Spares(w.checkpoints, v.checkpoints)
  BY <1>5, <1>7, <1>8, ClippedKeeps
<1>10. Restorable(w, v) BY <1>9 DEF Restorable, Showing, Spares
<1> QED BY <1>9, <1>10

LEMMA RevertedKeeps ==
    ASSUME NEW w, Good(w), Surroundings, NEW clip \in Clip, NEW v, v = Reverted(w, clip)
    PROVE  Good(v) /\ Follows(w.checkpoints, v.checkpoints) /\ Restorable(w, v)
<1>1. CASE v = w BY <1>1, FollowsItself, ShowsOnItself, ShowsRestorable DEF Good
<1>2. CASE v # w
  <2>1. Older(w, clip) # {} /\ v = Rewound(w, w.checkpoints[Min(Older(w, clip))])
    BY <1>2 DEF Reverted
  <2>2. w \in Workbench /\ Ordered(w) /\ w.checkpoints \in Seq(CheckpointRecord)
    BY WorkbenchTyped DEF Good
  <2>3. Older(w, clip) \in SUBSET DOMAIN w.checkpoints
        /\ DOMAIN w.checkpoints \in SUBSET Nat
    BY <2>2, LenProperties DEF Older
  <2>4. Min(Older(w, clip)) \in DOMAIN w.checkpoints BY <2>1, <2>3, MinOfPlaces
  <2> QED BY <2>1, <2>2, <2>4, RewoundKeeps
<1> QED BY <1>1, <1>2

\* Muting one clip after another.
LEMMA MutedOnKeeps ==
    ASSUME NEW w, Good(w), Surroundings, NEW n \in Nat, Len(w.clips) = n,
           NEW ks \in Seq(1 .. n), NEW v, v = FoldLeft(Muted, w, ks)
    PROVE  Good(v) /\ Follows(w.checkpoints, v.checkpoints) /\ ShowsOn(w, v)
<1> DEFINE W == {u \in Workbench : /\ Good(u) /\ Len(u.clips) = n
                                   /\ Follows(w.checkpoints, u.checkpoints)
                                   /\ ShowsOn(w, u)}
<1>1. v = F!Folded(w, ks)
  BY Zenon DEF F!Folded, FoldLeft, F!FoldLeft, MapThenFoldSet, F!MapThenFoldSet, Max, F!Max
<1>2. w \in W BY FollowsItself, ShowsOnItself DEF Good
<1>3. ASSUME NEW u \in W, NEW k \in 1 .. n PROVE Muted(u, k) \in W
  <2>1. u.clips \in Seq(Clip) BY WorkbenchTyped
  <2>2. k \in DOMAIN u.clips BY <2>1, LenProperties
  <2>3. /\ Good(Muted(u, k)) /\ Len(Muted(u, k).clips) = n
        /\ Follows(u.checkpoints, Muted(u, k).checkpoints) /\ ShowsOn(u, Muted(u, k))
    BY <2>2, MutedKeeps DEF Good
  <2> QED BY <2>3, FollowsOn, ShowsOnOn DEF Good
<1> HIDE DEF W
<1>4. F!Folded(w, ks) \in W BY <1>2, <1>3, F!FoldedKeeps
<1> QED BY <1>1, <1>4 DEF W
-----------------------------------------------------------------------------
(* The invariant holds. *)

\* The state that the variables hold.
LEMMA StateFields ==
    /\ State.text = text /\ State.clips = clips /\ State.checkpoints = checkpoints
    /\ State.current = current /\ State.nextId = nextId
BY DEF State

LEMMA StateTyped ==
    State \in Workbench <=> /\ text \in [Files -> 0 .. version] /\ clips \in Seq(Clip)
                           /\ checkpoints \in Seq(CheckpointRecord)
                           /\ current \in Nat \cup {None} /\ nextId \in Nat
BY DEF State, Workbench

LEMMA Limits == MaxVersion \in Nat /\ MaxId \in Nat /\ MaxClips \in Nat /\ MaxClock \in Nat
BY WorkbenchAssumption DEF WorkbenchAssumption

LEMMA BoundedSurrounds == Bounded => Surroundings
BY Limits DEF Bounded, Surroundings

\* A gesture leaves what a service made of the state.
LEMMA BecomesKeeps ==
    ASSUME TimelineInv, NEW w, Good(w), Becomes(w)
    PROVE  TimelineInv' /\ text' = w.text /\ checkpoints' = w.checkpoints
<1>1. /\ Len(w.clips) <= MaxClips /\ w.nextId <= MaxId + 1
      /\ text' = w.text /\ clips' = w.clips /\ checkpoints' = w.checkpoints
      /\ current' = w.current /\ nextId' = w.nextId
      /\ version' = version /\ open' = open /\ now' = now
  BY DEF Becomes
<1>2. w \in Workbench /\ Ordered(w) /\ Marked(w) BY DEF Good
<1>3. Bounded' BY <1>1 DEF TimelineInv, Bounded
<1>4. Workbench' = Workbench /\ CheckpointRecord' = CheckpointRecord
  BY <1>1 DEF Workbench, CheckpointRecord, Snapshot
<1>5. State' = [text |-> w.text, clips |-> w.clips, checkpoints |-> w.checkpoints,
               current |-> w.current, nextId |-> w.nextId]
  BY <1>1 DEF State
<1>6. State' = w BY <1>2, <1>5 DEF Workbench
<1>7. Good(State)'
  <2>1. State' \in Workbench' BY <1>2, <1>4, <1>6
  <2>2. Ordered(State)' BY <1>2, <1>6 DEF Ordered
  <2>3. Marked(State)' BY <1>2, <1>6 DEF Marked, FullOfManuals, Autos
  <2> QED BY <2>1, <2>2, <2>3 DEF Good
<1> QED BY <1>1, <1>3, <1>7 DEF TimelineInv

\* What can be restored in the state that a gesture leaves has survived it.
LEMMA BecomesRestorable ==
    ASSUME TimelineInv, NEW w, Good(w), Becomes(w), Restorable(State, w)
    PROVE  Survived
<1>1. checkpoints' = w.checkpoints BY BecomesKeeps
<1>2. ASSUME NEW f \in open, checkpoints # <<>>, Holds(checkpoints[1], f, text[f])
      PROVE  \/ Few(w.checkpoints)
             \/ \E k \in DOMAIN w.checkpoints : Holds(w.checkpoints[k], f, text[f])
  BY <1>2, StateFields DEF Restorable, Showing
<1> QED BY <1>1, <1>2 DEF Survived, Few

LEMMA RewindToKeeps ==
    ASSUME TimelineInv, NEW k \in DOMAIN checkpoints, RewindTo(k)
    PROVE  TimelineInv' /\ Follows(checkpoints, checkpoints') /\ Survived
<1>1. Surroundings /\ State \in Workbench /\ Ordered(State)
  BY BoundedSurrounds DEF TimelineInv, Good
<1>2. State.checkpoints = checkpoints BY StateFields
<1>3. PICK v : v = Rewound(State, checkpoints[k]) OBVIOUS
<1>4. Good(v) /\ Follows(checkpoints, v.checkpoints) /\ Restorable(State, v)
  BY <1>1, <1>2, <1>3, RewoundKeeps
<1>5. Becomes(v) BY <1>3 DEF RewindTo
<1>6. TimelineInv' /\ checkpoints' = v.checkpoints /\ Survived
  BY <1>4, <1>5, BecomesKeeps, BecomesRestorable
<1> QED BY <1>4, <1>6

\* What only the surroundings of the services change.
LEMMA EditKeeps ==
    ASSUME TimelineInv, NEW f \in Files, Edit(f) \/ OpenOrClose(f)
    PROVE  TimelineInv' /\ checkpoints' = checkpoints
<1>1. /\ clips' = clips /\ checkpoints' = checkpoints /\ current' = current /\ nextId' = nextId
      /\ now' = now /\ open' \subseteq Files
      /\ \/ version' = version /\ text' = text
         \/ /\ version < MaxVersion /\ version' = version + 1
            /\ text' = [text EXCEPT ![f] = version + 1]
  BY DEF Edit, OpenOrClose, TimelineInv, Bounded
<1>2. version \in Nat /\ version' \in 0 .. MaxVersion /\ version <= version'
  BY <1>1, Limits DEF TimelineInv, Bounded
<1>3. Bounded' BY <1>1, <1>2 DEF TimelineInv, Bounded
<1>4. /\ text \in [Files -> 0 .. version] /\ clips \in Seq(Clip)
      /\ checkpoints \in Seq(CheckpointRecord)
      /\ current \in Nat \cup {None} /\ nextId \in Nat
  BY StateTyped DEF TimelineInv, Good
<1>5. text' \in [Files -> 0 .. version'] BY <1>1, <1>2, <1>4
<1>6. CheckpointRecord \subseteq CheckpointRecord'
  <2>1. 0 .. version \subseteq 0 .. version' BY <1>2
  <2>2. \A fs \in SUBSET Files : [fs -> 0 .. version] \subseteq [fs -> 0 .. version']
    BY <2>1
  <2>3. Snapshot \subseteq Snapshot' BY <2>2 DEF Snapshot
  <2> QED BY <1>1, <2>3 DEF CheckpointRecord
<1>7. checkpoints' \in Seq(CheckpointRecord') BY <1>1, <1>4, <1>6
<1>8. (State \in Workbench)'
  BY <1>1, <1>4, <1>5, <1>7 DEF State, Workbench
<1>9. Ordered(State) /\ Marked(State) BY DEF TimelineInv, Good
<1>10. Ordered(State)' BY <1>1, <1>9 DEF Ordered, State
<1>11. Marked(State)' BY <1>1, <1>9 DEF Marked, State, FullOfManuals, Autos
<1> QED BY <1>1, <1>3, <1>8, <1>10, <1>11 DEF TimelineInv, Good

LEMMA TickKeeps ==
    ASSUME TimelineInv, Tick
    PROVE  TimelineInv' /\ checkpoints' = checkpoints
<1>1. /\ now < MaxClock /\ now' = now + 1
      /\ UNCHANGED <<text, version, open, clips, checkpoints, current, nextId>>
  BY DEF Tick
<1>2. now \in Nat /\ now' \in 0 .. MaxClock /\ now <= now'
  BY <1>1, Limits DEF TimelineInv, Bounded
<1>3. Bounded' BY <1>1, <1>2 DEF TimelineInv, Bounded
<1>4. /\ text \in [Files -> 0 .. version] /\ clips \in Seq(Clip)
      /\ checkpoints \in Seq(CheckpointRecord)
      /\ current \in Nat \cup {None} /\ nextId \in Nat
  BY StateTyped DEF TimelineInv, Good
<1>5. CheckpointRecord \subseteq CheckpointRecord'
  <2>1. 0 .. now \subseteq 0 .. now' /\ Snapshot' = Snapshot BY <1>1, <1>2 DEF Snapshot
  <2> QED BY <2>1 DEF CheckpointRecord
<1>6. checkpoints' \in Seq(CheckpointRecord') BY <1>1, <1>4, <1>5
<1>7. (State \in Workbench)' BY <1>1, <1>4, <1>6 DEF State, Workbench
<1>8. Ordered(State) /\ Marked(State) BY DEF TimelineInv, Good
<1>9. Ordered(State)' BY <1>1, <1>8 DEF Ordered, State
<1>10. Marked(State)' BY <1>1, <1>8 DEF Marked, State, FullOfManuals, Autos
<1> QED BY <1>1, <1>3, <1>7, <1>9, <1>10 DEF TimelineInv, Good

LEMMA SameList ==
    ASSUME TimelineInv, UNCHANGED checkpoints
    PROVE  Follows(checkpoints, checkpoints') /\ Survived
<1>1. checkpoints \in Seq(CheckpointRecord) BY StateTyped DEF TimelineInv, Good
<1>2. checkpoints # <<>> => 1 \in DOMAIN checkpoints BY <1>1, LenProperties, EmptySeq
<1> QED BY <1>2, FollowsItself DEF Survived

LEMMA TimelineStep ==
    ASSUME TimelineInv, [Next]_vars
    PROVE  TimelineInv' /\ Follows(checkpoints, checkpoints') /\ Survived
<1>1. Surroundings /\ State \in Workbench /\ Ordered(State) /\ Marked(State) /\ Good(State)
  BY BoundedSurrounds DEF TimelineInv, Good
<1>2. State.checkpoints = checkpoints /\ State.clips = clips BY StateFields
<1>3. ASSUME NEW w, Good(w), Follows(checkpoints, w.checkpoints), Restorable(State, w),
             Becomes(w)
      PROVE  TimelineInv' /\ Follows(checkpoints, checkpoints') /\ Survived
  BY <1>3, BecomesKeeps, BecomesRestorable
<1>4. clips \in Seq(Clip) BY StateTyped DEF TimelineInv, Good
<1>5. ASSUME NEW f \in Files, Edit(f) \/ OpenOrClose(f)
      PROVE  TimelineInv' /\ Follows(checkpoints, checkpoints') /\ Survived
  BY <1>5, EditKeeps, SameList
<1>6. CASE AgentActs
  <2>1. PICK v : v = Clipped(State) OBVIOUS
  <2>2. Good(v) /\ Follows(checkpoints, v.checkpoints) /\ ShowsOn(State, v)
    BY <1>1, <1>2, <2>1, ClippedKeeps
  <2>3. Restorable(State, v) BY <2>2, ShowsRestorable DEF Good
  <2> QED BY <1>3, <1>6, <2>1, <2>2, <2>3 DEF AgentActs
<1>7. ASSUME NEW kind \in {"auto", "manual"}, CreateCheckpoint(kind)
      PROVE  TimelineInv' /\ Follows(checkpoints, checkpoints') /\ Survived
  <2>1. PICK v : v = Checkpoint(State, kind) OBVIOUS
  <2>2. Good(v) /\ Follows(checkpoints, v.checkpoints) /\ ShowsOn(State, v)
    BY <1>1, <1>2, <2>1, CheckpointKeeps DEF Good
  <2>3. Restorable(State, v) BY <2>2, ShowsRestorable DEF Good
  <2> QED BY <1>3, <1>7, <2>1, <2>2, <2>3 DEF CreateCheckpoint
<1>8. CASE Rewind BY <1>8, RewindToKeeps DEF Rewind
<1>9. CASE RewindLast BY <1>9, RewindToKeeps DEF RewindLast
<1>10. ASSUME NEW k \in DOMAIN clips, ToggleMute(k)
       PROVE  TimelineInv' /\ Follows(checkpoints, checkpoints') /\ Survived
  <2>1. clips[k] \in Clip BY <1>4, LenProperties
  <2>2. CASE clips[k].muted /\ Becomes(Unmuted(State, k))
    <3>1. PICK v : v = Unmuted(State, k) OBVIOUS
    <3>2. v = Changed([State EXCEPT !.clips[k].muted = FALSE]) BY <3>1 DEF Unmuted
    <3>3. Good(v) /\ Follows(checkpoints, v.checkpoints) /\ ShowsOn(State, v)
      BY <1>1, <1>2, <3>2, ToggledKeeps
    <3>4. Restorable(State, v) BY <3>3, ShowsRestorable DEF Good
    <3> QED BY <1>3, <2>2, <3>1, <3>3, <3>4
  <2>3. CASE ~clips[k].muted /\ Becomes(Reverted(Muted(State, k), clips[k]))
    <3>1. PICK u : u = Muted(State, k) OBVIOUS
    <3>2. Good(u) /\ Follows(checkpoints, u.checkpoints) /\ ShowsOn(State, u)
      BY <1>1, <1>2, <3>1, MutedKeeps
    <3>3. PICK v : v = Reverted(u, clips[k]) OBVIOUS
    <3>4. Good(v) /\ Follows(u.checkpoints, v.checkpoints) /\ Restorable(u, v)
      BY <1>1, <2>1, <3>2, <3>3, RevertedKeeps
    <3>5. Follows(checkpoints, v.checkpoints) /\ Restorable(State, v)
      BY <3>2, <3>4, FollowsOn, ShownRestorable
    <3> QED BY <1>3, <2>3, <3>1, <3>3, <3>4, <3>5
  <2> QED BY <1>10, <2>2, <2>3 DEF ToggleMute
<1>11. ASSUME NEW k \in DOMAIN clips, UndoAllSince(k)
       PROVE  TimelineInv' /\ Follows(checkpoints, checkpoints') /\ Survived
  <2> DEFINE n == Len(clips)
             later == [j \in 1 .. n - k |-> k + j]
  <2>1. n \in Nat /\ DOMAIN clips = 1 .. n /\ clips[k] \in Clip BY <1>4, LenProperties
  <2>2. later \in Seq(1 .. n)
    <3>1. k \in 1 .. n /\ n - k \in Nat BY <2>1
    <3>2. \A j \in 1 .. n - k : k + j \in 1 .. n BY <2>1, <3>1
    <3>3. PICK m \in Nat : m = n - k BY <3>1
    <3>4. later \in [1 .. m -> 1 .. n] BY <3>2, <3>3
    <3> HIDE DEF later
    <3> QED BY <3>4
  <2>3. Becomes(Reverted(FoldLeft(Muted, State, later), clips[k])) BY <1>11 DEF UndoAllSince
  <2> HIDE DEF later
  <2>4. PICK u : u = FoldLeft(Muted, State, later) OBVIOUS
  <2>5. Good(u) /\ Follows(checkpoints, u.checkpoints) /\ ShowsOn(State, u)
    BY <1>1, <1>2, <2>1, <2>2, <2>4, MutedOnKeeps
  <2>6. PICK v : v = Reverted(u, clips[k]) OBVIOUS
  <2>7. Good(v) /\ Follows(u.checkpoints, v.checkpoints) /\ Restorable(u, v)
    BY <1>1, <2>1, <2>5, <2>6, RevertedKeeps
  <2>8. Follows(checkpoints, v.checkpoints) /\ Restorable(State, v)
    BY <2>5, <2>7, FollowsOn, ShownRestorable
  <2> QED BY <1>3, <2>3, <2>4, <2>6, <2>7, <2>8
<1>12. CASE SetPlayhead
  <2>1. PICK v : v = Changed(State) OBVIOUS
  <2>2. Good(v) /\ Follows(checkpoints, v.checkpoints) /\ ShowsOn(State, v)
    BY <1>1, <1>2, <2>1, ChangedKeeps DEF Good
  <2>3. Restorable(State, v) BY <2>2, ShowsRestorable DEF Good
  <2> QED BY <1>3, <1>12, <2>1, <2>2, <2>3 DEF SetPlayhead
<1>13. CASE Tick BY <1>13, TickKeeps, SameList
<1>14. CASE UNCHANGED vars
  <2>1. UNCHANGED <<text, version, open, clips, checkpoints, current, nextId, now>>
    BY <1>14 DEF vars
  <2>2. TimelineInv'
    BY <2>1 DEF TimelineInv, Bounded, Good, Ordered, Marked, FullOfManuals, Autos, State,
                Workbench, CheckpointRecord, Snapshot
  <2> QED BY <2>1, <2>2, SameList
<1> QED BY <1>5, <1>6, <1>7, <1>8, <1>9, <1>10, <1>11, <1>12, <1>13, <1>14 DEF Next

LEMMA TimelineStart == Init => TimelineInv
<1> SUFFICES ASSUME Init PROVE TimelineInv
  OBVIOUS
<1>1. /\ text = [f \in Files |-> 0] /\ version = 0 /\ open = Files /\ clips = <<>>
      /\ checkpoints = <<>> /\ current = None /\ nextId = 1 /\ now = 0
  BY DEF Init
<1>2. Len(clips) = 0 /\ Len(checkpoints) = 0 /\ DOMAIN checkpoints = {} BY <1>1
<1>3. clips \in Seq(Clip) /\ checkpoints \in Seq(CheckpointRecord) BY <1>1
<1>4. Bounded
  <2>1. 0 \in 0 .. MaxVersion /\ 0 \in 0 .. MaxClock /\ 0 <= MaxClips /\ 1 <= MaxId + 1
    BY Limits
  <2> QED BY <1>1, <1>2, <2>1 DEF Bounded
<1>5. State \in Workbench BY <1>1, <1>3, StateTyped
<1>6. Ordered(State)
  <2>1. 0 <= MaxCheckpoints BY WorkbenchAssumption DEF WorkbenchAssumption
  <2> QED BY <1>1, <1>2, <2>1, StateFields DEF Ordered
<1>7. Marked(State) BY <1>1, StateFields DEF Marked
<1> QED BY <1>4, <1>5, <1>6, <1>7 DEF TimelineInv, Good

LEMMA TimelineInvHolds == Spec => []TimelineInv
BY TimelineStart, TimelineStep, PTL DEF Spec
-----------------------------------------------------------------------------
(* Theorems. *)

\* The workbench keeps its types and the list of checkpoints its limit, whatever is
\* undone, rewound or muted, and with every file there is.
THEOREM TypeCorrect == Spec => []TypeOK
<1>1. TimelineInv => TypeOK
  <2> SUFFICES ASSUME TimelineInv PROVE TypeOK
    OBVIOUS
  <2>1. Bounded /\ State \in Workbench /\ Ordered(State) BY DEF TimelineInv, Good
  <2>2. /\ text \in [Files -> 0 .. version] /\ clips \in Seq(Clip)
        /\ checkpoints \in Seq(CheckpointRecord) /\ nextId \in Nat
    BY <2>1, StateTyped
  <2>3. /\ Len(checkpoints) <= MaxCheckpoints /\ nextId >= 1
        /\ \A k \in DOMAIN checkpoints : checkpoints[k].id \in 1 .. nextId - 1
        /\ current \in 1 .. nextId - 1 \cup {None}
    BY <2>1, StateFields DEF Ordered
  <2>4. ASSUME NEW k \in DOMAIN checkpoints
        PROVE  /\ checkpoints[k].kind \in {"auto", "manual"} /\ checkpoints[k].time \in 0 .. now
               /\ DOMAIN checkpoints[k].texts \subseteq Files
               /\ \A f \in DOMAIN checkpoints[k].texts : checkpoints[k].texts[f] \in 0 .. version
    <3>1. checkpoints[k] \in CheckpointRecord BY <2>2, LenProperties
    <3>2. checkpoints[k].texts \in Snapshot BY <3>1 DEF CheckpointRecord
    <3>3. PICK fs \in SUBSET Files : checkpoints[k].texts \in [fs -> 0 .. version]
      BY <3>2 DEF Snapshot
    <3> QED BY <3>1, <3>3 DEF CheckpointRecord
  <2>5. nextId \in 1 .. MaxId + 1 BY <2>1, <2>2, <2>3, Limits DEF Bounded
  <2> QED BY <2>1, <2>2, <2>3, <2>4, <2>5 DEF TypeOK, Bounded
<1> QED BY <1>1, TimelineInvHolds, PTL

\* The list stays newest first through every insertion and removal.
THEOREM NewestFirstHolds == Spec => []NewestFirst
<1>1. TimelineInv => NewestFirst
  BY StateFields DEF TimelineInv, Good, Ordered, NewestFirst
<1> QED BY <1>1, TimelineInvHolds, PTL

\* The panel marks the newest checkpoint as the current one, after a rewind too, unless
\* the list is full of manual ones.
THEOREM CurrentIsNewestHolds == Spec => []CurrentIsNewest
<1>1. TimelineInv => CurrentIsNewest
  BY StateFields DEF TimelineInv, Good, Marked, FullOfManuals, CurrentIsNewest
<1> QED BY <1>1, TimelineInvHolds, PTL

\* A manual checkpoint disappears only when no automatic one is left, however many
\* checkpoints one gesture makes.  (Not "never", as the comments in the code say.)
THEOREM ManualsGoLastHolds == Spec => ManualsGoLast
<1> DEFINE Kept == \A k \in DOMAIN checkpoints :
                      (/\ checkpoints[k].kind = "manual"
                       /\ \A j \in DOMAIN checkpoints' : checkpoints'[j] # checkpoints[k])
                         => Autos(checkpoints') = {}
<1>1. TimelineInv /\ [Next]_vars => [Kept]_vars
  BY TimelineStep DEF Follows, FullOfManuals
<1>2. Spec => [][Kept]_vars BY <1>1, TimelineInvHolds, PTL DEF Spec
<1> QED BY <1>2 DEF ManualsGoLast

\* A text that the newest checkpoint holds can be restored after any gesture, however
\* many checkpoints it makes and prunes, unless one automatic one is left at most.
THEOREM NewestSurvivesHolds == Spec => NewestSurvives
<1>1. TimelineInv /\ [Next]_vars => [Survived]_vars BY TimelineStep
<1>2. Spec => [][Survived]_vars BY <1>1, TimelineInvHolds, PTL DEF Spec
<1> QED BY <1>2 DEF NewestSurvives, Survived
=============================================================================
