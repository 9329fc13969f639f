--------------------------- MODULE ContentProofs ---------------------------
(***************************************************************************)
(* The parts that keep copies of texts.  Tokens: the delta protocol is     *)
(* exact, an edit makes the new array of the old one, and no edit meets an *)
(* array it was not made for, whatever the raw tokens, the bounds and the  *)
(* answers lost on the way.  Scenes: the maps of uids and scenes stay      *)
(* mirrors, and follow the disk.  Documents: the server's copy of a buffer *)
(* is the client's once it has read what was sent, and the formatter's     *)
(* edits land.                                                             *)
(***************************************************************************)
EXTENDS Documents, TokenDeltas, Scenes, SequenceTheorems, FiniteSetTheorems,
        WellFoundedInduction, TLAPS

(* A set of numbers up to a bound has a largest one.                       *)
LEMMA MaxExists ==
  ASSUME NEW n \in Nat, NEW S \in SUBSET (0..n), S # {}
  PROVE  Max(S) \in S /\ \A y \in S : y <= Max(S)
<1> DEFINE T == {n - y : y \in S}
           R == {ss \in Nat \X Nat : ss[1] < ss[2]}
<1>1. T \subseteq Nat /\ T # {}
  <2>1. \A y \in S : y \in 0..n /\ n - y \in Nat
    OBVIOUS
  <2>2. \A t \in T : \E y \in S : t = n - y
    OBVIOUS
  <2>3. PICK y \in S : TRUE
    OBVIOUS
  <2> QED
    BY <2>1, <2>2, <2>3
<1>2. IsWellFoundedOn(R, Nat)
  BY NatLessThanWellFounded DEF OpToRel
<1>3. PICK m \in T : \A y \in T : <<y, m>> \notin R
  <2> HIDE DEF T, R
  <2> QED
    BY <1>1, <1>2, WFMin
<1>4. \A y \in T : y >= m
  <2> TAKE y \in T
  <2>1. y \in Nat /\ m \in Nat
    BY <1>1
  <2>2. ~ (y < m)
    BY <1>3, <2>1
  <2> QED
    BY <2>1, <2>2
<1>5. PICK x \in S : m = n - x
  OBVIOUS
<1>6. \A y \in S : x >= y
  BY <1>4, <1>5
<1> QED
  BY <1>5, <1>6 DEF Max

(* The least, the largest, and that there is a least.                      *)
LEMMA MinIs ==
  ASSUME NEW S \in SUBSET Nat, NEW m \in S, \A x \in S : m <= x
  PROVE  Min(S) = m
<1>1. \A x \in S : (\A y \in S : x <= y) => x = m
  OBVIOUS
<1> QED
  BY <1>1 DEF Min

LEMMA MaxIs ==
  ASSUME NEW S \in SUBSET Nat, NEW m \in S, \A x \in S : x <= m
  PROVE  Max(S) = m
<1>1. \A x \in S : (\A y \in S : x >= y) => x = m
  OBVIOUS
<1> QED
  BY <1>1 DEF Max

LEMMA MinExists ==
  ASSUME NEW S \in SUBSET Nat, S # {}
  PROVE  Min(S) \in S /\ \A x \in S : Min(S) <= x
<1> DEFINE R == {ss \in Nat \X Nat : ss[1] < ss[2]}
<1>1. IsWellFoundedOn(R, Nat)
  BY NatLessThanWellFounded DEF OpToRel
<1>2. PICK m \in S : \A y \in S : <<y, m>> \notin R
  <2> HIDE DEF R
  <2> QED
    BY <1>1, WFMin
<1>3. \A y \in S : m <= y
  <2> TAKE y \in S
  <2>1. y \in Nat /\ m \in Nat /\ ~(y < m)
    BY <1>2
  <2> QED
    BY <2>1
<1> QED
  BY <1>3, MinIs

-----------------------------------------------------------------------------
(* The edit                                                                *)

(* Where the common head and tail end.                                     *)
LEMMA HeadAndTail ==
  ASSUME NEW S, NEW old \in Seq(S), NEW new \in Seq(S)
  PROVE  /\ Prefix(old, new) \in Nat /\ Suffix(old, new) \in Nat
         /\ Prefix(old, new) + Suffix(old, new) <= Len(old)
         /\ Prefix(old, new) + Suffix(old, new) <= Len(new)
         /\ SubSeq(old, 1, Prefix(old, new)) = SubSeq(new, 1, Prefix(old, new))
         /\ SubSeq(old, Len(old) - Suffix(old, new) + 1, Len(old))
              = SubSeq(new, Len(new) - Suffix(old, new) + 1, Len(new))
<1> DEFINE h == Prefix(old, new)
           n == Shorter(old, new)
           H == {k \in 0..n : SubSeq(old, 1, k) = SubSeq(new, 1, k)}
           T == {k \in 0..(n - h) :
                   SubSeq(old, Len(old) - k + 1, Len(old))
                     = SubSeq(new, Len(new) - k + 1, Len(new))}
<1>1. n \in Nat /\ n <= Len(old) /\ n <= Len(new)
  <2>1. Len(old) \in Nat /\ Len(new) \in Nat
    OBVIOUS
  <2>2. Min({Len(old), Len(new)}) \in {Len(old), Len(new)}
        /\ \A y \in {Len(old), Len(new)} : Min({Len(old), Len(new)}) <= y
    <3>1. \E m \in {Len(old), Len(new)} : \A y \in {Len(old), Len(new)} : m <= y
      BY <2>1
    <3> QED
      BY <3>1 DEF Min
  <2> QED
    BY <2>1, <2>2 DEF Shorter
<1>2. h \in H
  <2>1. 0 \in H
    <3>1. SubSeq(old, 1, 0) = <<>> /\ SubSeq(new, 1, 0) = <<>>
      BY SubSeqEmpty
    <3> QED
      BY <1>1, <3>1
  <2>2. H \in SUBSET (0..n) /\ H # {} /\ h = Max(H)
    BY <2>1 DEF Prefix
  <2> HIDE DEF H, n, h
  <2> QED
    BY <1>1, <2>2, MaxExists
<1>3. h \in 0..n /\ n - h \in Nat
  BY <1>1, <1>2
<1>4. Suffix(old, new) \in T
  <2>1. 0 \in T
    <3>1. SubSeq(old, Len(old) + 1, Len(old)) = <<>>
              /\ SubSeq(new, Len(new) + 1, Len(new)) = <<>>
      BY SubSeqEmpty
    <3>2. Len(old) - 0 + 1 = Len(old) + 1 /\ Len(new) - 0 + 1 = Len(new) + 1
      OBVIOUS
    <3> HIDE DEF n, h
    <3> QED
      BY <1>3, <3>1, <3>2
  <2>2. T \in SUBSET (0..(n - h)) /\ T # {} /\ Suffix(old, new) = Max(T)
    BY <2>1 DEF Suffix
  <2> HIDE DEF T, n, h
  <2> QED
    BY <1>3, <2>2, MaxExists
<1>5. /\ SubSeq(old, 1, h) = SubSeq(new, 1, h)
      /\ Suffix(old, new) \in 0..(n - h)
      /\ SubSeq(old, Len(old) - Suffix(old, new) + 1, Len(old))
           = SubSeq(new, Len(new) - Suffix(old, new) + 1, Len(new))
  BY <1>2, <1>4
<1> HIDE DEF n, h, H, T
<1>6. /\ h \in Nat /\ Suffix(old, new) \in Nat
      /\ h + Suffix(old, new) <= Len(old) /\ h + Suffix(old, new) <= Len(new)
  BY <1>1, <1>3, <1>5
<1> QED
  BY <1>5, <1>6 DEF h

(* A client that applies the edit to the old array has the new one.        *)
THEOREM DiffIsExact ==
  ASSUME NEW S, NEW old \in Seq(S), NEW new \in Seq(S)
  PROVE  Patched(old, Diff(old, new)) = new
<1> DEFINE h == Prefix(old, new)
           t == Suffix(old, new)
           l == Len(old)
           m == Len(new)
<1>1. /\ h \in Nat /\ t \in Nat /\ h + t <= l /\ h + t <= m
      /\ SubSeq(old, 1, h) = SubSeq(new, 1, h)
      /\ SubSeq(old, l - t + 1, l) = SubSeq(new, m - t + 1, m)
  BY HeadAndTail
<1>2. l \in Nat /\ m \in Nat
  OBVIOUS
<1>3. /\ Diff(old, new).start = h /\ Diff(old, new).deleted = l - h - t
      /\ Diff(old, new).data = SubSeq(new, h + 1, m - t)
  BY DEF Diff
<1> HIDE DEF h, t, l, m
<1>4. Min({h, l}) = h
  <2>1. h <= l
    BY <1>1, <1>2
  <2>2. \A x \in {h, l} : (\A y \in {h, l} : x <= y) => x = h
    BY <1>1, <1>2, <2>1
  <2>3. \A y \in {h, l} : h <= y
    BY <1>1, <1>2, <2>1
  <2> QED
    BY <2>2, <2>3 DEF Min
<1>5. h + (l - h - t) + 1 = l - t + 1
  BY <1>1, <1>2
<1>6. Patched(old, Diff(old, new))
        = SubSeq(new, 1, h) \o SubSeq(new, h + 1, m - t) \o SubSeq(new, m - t + 1, m)
  BY <1>1, <1>3, <1>4, <1>5 DEF Patched, l
<1>7. SubSeq(new, 1, h) \o SubSeq(new, h + 1, m - t) = SubSeq(new, 1, m - t)
  <2>1. 1 \in 1..m+1 /\ h \in 0..m /\ m - t \in h..m /\ h \in (1 - 1)..m
    BY <1>1, <1>2
  <2> QED
    BY <1>1, <1>2, <2>1, ConcatAdjacentSubSeq DEF m
<1>8. SubSeq(new, 1, m - t) \o SubSeq(new, m - t + 1, m) = SubSeq(new, 1, m)
  <2>1. 1 \in 1..m+1 /\ m - t \in 0..m /\ m \in (m - t)..m /\ 0 = 1 - 1
    BY <1>1, <1>2
  <2> QED
    BY <1>1, <1>2, <2>1, ConcatAdjacentSubSeq DEF m
<1>9. SubSeq(new, 1, m) = new
  BY SubSeqFull DEF m
<1> QED
  BY <1>6, <1>7, <1>8, <1>9

-----------------------------------------------------------------------------
(* The invariant                                                           *)

Arrays == {Encode(raw) : raw \in Raws}
Kept == [id : Nat, data : Arrays]
Asked == [kind : {"open", "close", "full", "delta"}, previous : Kept \cup {None},
          wanted : BOOLEAN]
Edits == {Diff(old, new) : old \in Arrays, new \in Arrays}
Answers == [kind : {"none"}, wanted : BOOLEAN]
             \cup [kind : {"full"}, wanted : BOOLEAN, id : Nat, data : Arrays]
             \cup [kind : {"delta"}, wanted : BOOLEAN, id : Nat, base : Arrays, edit : Edits]

TypeInv ==
  /\ record \in Kept \cup {None} /\ cache \in Kept \cup {None}
  /\ asked \in Seq(Asked) /\ answers \in Seq(Answers) /\ made \in Seq(Raws)

(* Whoever has an array has the one its id was made for, and an answer on  *)
(* its way will give that one.                                             *)
Held(m, r) == r.id \in DOMAIN m /\ r.data = Encode(m[r.id])
Lands(m, a) ==
  /\ a.kind = "full" => Held(m, a)
  /\ a.kind = "delta" => a.id \in DOMAIN m /\ Patched(a.base, a.edit) = Encode(m[a.id])
HeldInv ==
  /\ record # None => Held(made, record)
  /\ cache # None => Held(made, cache)
  /\ \A k \in 1..Len(asked) : asked[k].previous # None => Held(made, asked[k].previous)
  /\ \A k \in 1..Len(answers) : Lands(made, answers[k])

Inv == TypeInv /\ HeldInv

(* What was made stays made.                                               *)
LEMMA MadeGrows ==
  ASSUME NEW m \in Seq(Raws), NEW raw \in Raws
  PROVE  /\ \A r : Held(m, r) => Held(Append(m, raw), r)
         /\ \A a : Lands(m, a) => Lands(Append(m, raw), a)
<1>1. /\ DOMAIN m = 1..Len(m) /\ Len(m) \in Nat
      /\ Append(m, raw) \in Seq(Raws) /\ DOMAIN Append(m, raw) = 1..(Len(m) + 1)
      /\ \A k \in 1..Len(m) : Append(m, raw)[k] = m[k]
  BY AppendProperties
<1>2. \A k \in DOMAIN m : k \in DOMAIN Append(m, raw) /\ Append(m, raw)[k] = m[k]
  BY <1>1
<1> QED
  BY <1>2 DEF Held, Lands

(* The starts of tokens are ranked by how many lie before them.            *)
Rank(S, s) == Cardinality({r \in S : Before(r, s)})

LEMMA Ranked ==
  ASSUME NEW S \in SUBSET (Nat \X Nat), IsFiniteSet(S)
  PROVE  /\ Cardinality(S) \in Nat
         /\ \A p, q \in S : Rank(S, p) < Rank(S, q) => Before(p, q)
         /\ \A k \in 1..Cardinality(S) : \E s \in S : Rank(S, s) = k - 1
<1> DEFINE Below(s) == {r \in S : Before(r, s)}
           n == Cardinality(S)
<1>1. n \in Nat
  BY FS_CardinalityType
<1>2. ASSUME NEW s \in S
      PROVE  IsFiniteSet(Below(s)) /\ Rank(S, s) \in Nat /\ Rank(S, s) <= n - 1
  <2>1. Below(s) \in SUBSET S /\ s \notin Below(s)
    BY DEF Before
  <2>2. Rank(S, s) = Cardinality(Below(s))
    BY DEF Rank
  <2> HIDE DEF Below
  <2>3. /\ IsFiniteSet(Below(s)) /\ Cardinality(Below(s)) <= n
        /\ n = Cardinality(Below(s)) => S = Below(s)
    BY <2>1, FS_Subset
  <2>4. Cardinality(Below(s)) \in Nat /\ Cardinality(Below(s)) # n
    BY <2>1, <2>3, FS_CardinalityType
  <2> QED
    BY <1>1, <2>2, <2>3, <2>4
<1>3. ASSUME NEW p \in S, NEW q \in S, Before(p, q)
      PROVE  Rank(S, p) < Rank(S, q)
  <2>1. Below(p) \in SUBSET Below(q) /\ p \in Below(q) /\ p \notin Below(p)
    <3>1. p[1] \in Nat /\ p[2] \in Nat /\ q[1] \in Nat /\ q[2] \in Nat
      OBVIOUS
    <3>2. ASSUME NEW r \in S, Before(r, p) PROVE Before(r, q)
      <4>1. r[1] \in Nat /\ r[2] \in Nat
        OBVIOUS
      <4> QED
        BY <1>3, <3>1, <3>2, <4>1 DEF Before
    <3>3. ~Before(p, p)
      BY <3>1 DEF Before
    <3> QED
      BY <1>3, <3>2, <3>3
  <2>2. Rank(S, p) = Cardinality(Below(p)) /\ Rank(S, q) = Cardinality(Below(q))
    BY DEF Rank
  <2>3. IsFiniteSet(Below(q)) /\ Rank(S, p) \in Nat /\ Rank(S, q) \in Nat
    BY <1>2
  <2> HIDE DEF Below
  <2>4. /\ Cardinality(Below(p)) <= Cardinality(Below(q))
        /\ Cardinality(Below(q)) = Cardinality(Below(p)) => Below(q) = Below(p)
    BY <2>1, <2>3, FS_Subset
  <2> QED
    BY <2>1, <2>2, <2>3, <2>4
<1>4. \A p, q \in S : p = q \/ Before(p, q) \/ Before(q, p)
  <2> TAKE p, q \in S
  <2>1. /\ p = <<p[1], p[2]>> /\ q = <<q[1], q[2]>>
        /\ p[1] \in Nat /\ p[2] \in Nat /\ q[1] \in Nat /\ q[2] \in Nat
    OBVIOUS
  <2> QED
    BY <2>1 DEF Before
<1>5. ASSUME NEW p \in S, NEW q \in S PROVE /\ Rank(S, p) < Rank(S, q) => Before(p, q)
                                            /\ Rank(S, p) = Rank(S, q) => p = q
  <2>1. Rank(S, p) \in Nat /\ Rank(S, q) \in Nat
    BY <1>2
  <2>2. Before(p, q) => Rank(S, p) < Rank(S, q)
    BY <1>3
  <2>3. Before(q, p) => Rank(S, q) < Rank(S, p)
    BY <1>3
  <2> QED
    BY <1>4, <2>1, <2>2, <2>3
<1> DEFINE T == 0..(n - 1)
           rank == [s \in S |-> Rank(S, s)]
<1>6. rank \in Injection(S, T)
  <2>1. ASSUME NEW s \in S PROVE Rank(S, s) \in T
    <3> HIDE DEF n
    <3>1. Rank(S, s) \in Nat /\ Rank(S, s) <= n - 1
      BY <1>2
    <3> QED
      BY <1>1, <3>1
  <2> HIDE DEF T
  <2>2. rank \in [S -> T]
    BY <2>1
  <2>3. \A p, q \in S : rank[p] = rank[q] => p = q
    BY <1>5
  <2> QED
    BY <2>2, <2>3 DEF Injection, IsInjective
<1>7. IsFiniteSet(T) /\ Cardinality(T) = n
  <2>1. 0 \in Int /\ n - 1 \in Int
    BY <1>1
  <2>2. IsFiniteSet(T) /\ Cardinality(T) = IF 0 > n - 1 THEN 0 ELSE n - 1 - 0 + 1
    BY <2>1, FS_Interval
  <2> QED
    BY <1>1, <2>2
<1>8. rank \in Surjection(S, T)
  <2> HIDE DEF rank, T
  <2> QED
    BY <1>6, <1>7, FS_Injection
<1>9. ASSUME NEW k \in 1..n PROVE \E s \in S : Rank(S, s) = k - 1
  <2>1. k - 1 \in T
    BY <1>1
  <2> QED
    BY <1>8, <2>1 DEF Surjection
<1> QED
  BY <1>1, <1>5, <1>9

(* The tokens to send are in the order of their starts.                    *)
LEMMA OrderedRises ==
  ASSUME NEW raw \in Raws
  PROVE  LET s == Ordered(raw)
         IN  \E n \in Nat :
               /\ DOMAIN s = 1..n
               /\ \A k \in 1..n : s[k].line \in Nat /\ s[k].start \in Nat
               /\ \A j, k \in 1..n : j < k => Before(Start(s[j]), Start(s[k]))
<1> DEFINE kept   == {i \in DOMAIN raw : Shown(raw[i])}
           starts == {Start(raw[i]) : i \in kept}
           n      == Cardinality(starts)
           at(k)  == CHOOSE s \in starts : Rank(starts, s) = k - 1
           of(k)  == {i \in kept : Start(raw[i]) = at(k)}
           s      == Ordered(raw)
<1>1. /\ DOMAIN raw \in SUBSET Nat /\ IsFiniteSet(DOMAIN raw)
      /\ \A i \in DOMAIN raw : raw[i].line \in Nat /\ raw[i].start \in Nat
  <2>1. /\ Len(raw) \in Nat /\ DOMAIN raw = 1..Len(raw)
        /\ \A i \in DOMAIN raw : raw[i].line \in Nat /\ raw[i].start \in Nat
    <3>1. raw \in Seq(RawToken)
      BY TokensAssumption
    <3>2. /\ Len(raw) \in Nat /\ DOMAIN raw = 1..Len(raw)
          /\ \A i \in DOMAIN raw : raw[i] \in RawToken
      BY <3>1
    <3> QED
      BY <3>2 DEF RawToken
  <2>2. IsFiniteSet(1..Len(raw))
    BY <2>1, FS_Interval
  <2> QED
    BY <2>1, <2>2
<1>2. IsFiniteSet(starts)
  <2> DEFINE f == [i \in kept |-> Start(raw[i])]
  <2>1. f \in Surjection(kept, starts)
    BY DEF Surjection
  <2>2. IsFiniteSet(kept)
    BY <1>1, FS_Subset
  <2> HIDE DEF kept, starts, f
  <2> QED
    BY <2>1, <2>2, FS_Surjection DEF ExistsSurjection
<1>3. starts \in SUBSET (Nat \X Nat)
  BY <1>1 DEF Start
<1>4. /\ n \in Nat
      /\ \A p, q \in starts : Rank(starts, p) < Rank(starts, q) => Before(p, q)
      /\ \A k \in 1..n : \E p \in starts : Rank(starts, p) = k - 1
  <2> HIDE DEF starts
  <2> QED
    BY <1>2, <1>3, Ranked
<1>5. DOMAIN s = 1..n /\ \A k \in 1..n : s[k] = raw[Min(of(k))]
  BY DEF Ordered, Rank
<1> HIDE DEF s, n
<1>6. ASSUME NEW k \in 1..n
      PROVE  /\ s[k].line \in Nat /\ s[k].start \in Nat
             /\ Start(s[k]) \in starts /\ Rank(starts, Start(s[k])) = k - 1
  <2>1. at(k) \in starts /\ Rank(starts, at(k)) = k - 1
    <3> HIDE DEF starts
    <3> QED
      BY <1>4
  <2> HIDE DEF at
  <2>2. of(k) # {} /\ of(k) \in SUBSET Nat
    BY <1>1, <2>1
  <2>3. Min(of(k)) \in of(k)
    <3> HIDE DEF of
    <3> QED
      BY <2>2, MinExists
  <2>4. Min(of(k)) \in DOMAIN raw /\ Start(raw[Min(of(k))]) = at(k)
    BY <2>3
  <2> QED
    BY <1>1, <1>5, <2>1, <2>4
<1> HIDE DEF starts
<1>7. ASSUME NEW j \in 1..n, NEW k \in 1..n, j < k
      PROVE  Before(Start(s[j]), Start(s[k]))
  <2>1. j - 1 < k - 1
    BY <1>4, <1>7
  <2> QED
    BY <1>4, <1>6, <2>1
<1> QED
  BY <1>4, <1>5, <1>6, <1>7 DEF s

(* So two arrays are sequences over one set, and a delta leads from one to *)
(* the other.                                                              *)
LEMMA DeltaLands ==
  ASSUME NEW old \in Arrays, NEW new \in Arrays
  PROVE  Patched(old, Diff(old, new)) = new
<1> DEFINE Elements == {a[k] : a \in {old}, k \in DOMAIN old}
               \cup {a[k] : a \in {new}, k \in DOMAIN new}
<1>1. ASSUME NEW a \in {old, new}
      PROVE  a \in Seq(Elements)
  <2>1. PICK raw \in Raws : a = Encode(raw)
    BY DEF Arrays
  <2>2. PICK n \in Nat : DOMAIN Ordered(raw) = 1..n
    BY OrderedRises
  <2>3. DOMAIN a = 1..n /\ a = [k \in 1..n |-> a[k]]
    BY <2>1, <2>2 DEF Encode
  <2>4. \A k \in 1..n : a[k] \in Elements
    BY <2>3
  <2> HIDE DEF Elements
  <2>5. a \in [1..n -> Elements]
    BY <2>3, <2>4
  <2> QED
    BY <2>5
<1> HIDE DEF Elements
<1> QED
  BY <1>1, DiffIsExact

(* Messages that are no longer wanted say what they said.                  *)
LEMMA UnwantedSame ==
  /\ \A w \in Seq(Asked) :
       /\ Unwanted(w) \in Seq(Asked) /\ Len(Unwanted(w)) = Len(w)
       /\ \A k \in 1..Len(w) : Unwanted(w)[k].previous = w[k].previous
  /\ \A w \in Seq(Answers) :
       /\ Unwanted(w) \in Seq(Answers) /\ Len(Unwanted(w)) = Len(w)
       /\ \A m : \A k \in 1..Len(w) : Lands(m, w[k]) => Lands(m, Unwanted(w)[k])
<1>1. ASSUME NEW w \in Seq(Asked)
      PROVE  /\ Unwanted(w) \in Seq(Asked) /\ Len(Unwanted(w)) = Len(w)
             /\ \A k \in 1..Len(w) : Unwanted(w)[k].previous = w[k].previous
  <2>1. \A k \in 1..Len(w) : w[k] \in Asked
    BY ElementOfSeq
  <2>2. \A m \in Asked : /\ [m EXCEPT !.wanted = FALSE] \in Asked
                         /\ [m EXCEPT !.wanted = FALSE].previous = m.previous
    BY DEF Asked
  <2>3. Unwanted(w) = [k \in 1..Len(w) |-> [w[k] EXCEPT !.wanted = FALSE]]
    BY DEF Unwanted
  <2>4. \A k \in 1..Len(w) : Unwanted(w)[k] = [w[k] EXCEPT !.wanted = FALSE]
    BY <2>3
  <2>5. \A k \in 1..Len(w) : Unwanted(w)[k] \in Asked /\ Unwanted(w)[k].previous = w[k].previous
    BY <2>1, <2>2, <2>4
  <2>6. Len(w) \in Nat /\ DOMAIN Unwanted(w) = 1..Len(w)
    BY <2>3
  <2>7. Unwanted(w) \in [1..Len(w) -> Asked]
    BY <2>3, <2>5, <2>6
  <2> HIDE DEF Asked
  <2> QED
    BY <2>5, <2>6, <2>7
<1>2. ASSUME NEW w \in Seq(Answers)
      PROVE  /\ Unwanted(w) \in Seq(Answers) /\ Len(Unwanted(w)) = Len(w)
             /\ \A m : \A k \in 1..Len(w) : Lands(m, w[k]) => Lands(m, Unwanted(w)[k])
  <2>1. \A k \in 1..Len(w) : w[k] \in Answers
    BY ElementOfSeq
  <2>2. \A a \in Answers : /\ [a EXCEPT !.wanted = FALSE] \in Answers
                           /\ \A m : Lands(m, a) => Lands(m, [a EXCEPT !.wanted = FALSE])
    <3> TAKE a \in Answers
    <3> DEFINE b == [a EXCEPT !.wanted = FALSE]
    <3>1. CASE a \in [kind : {"none"}, wanted : BOOLEAN]
      <4>1. b \in [kind : {"none"}, wanted : BOOLEAN]
        BY <3>1
      <4> HIDE DEF b
      <4>2. b.kind = "none"
        BY <4>1
      <4>3. b \in Answers
        BY <4>1 DEF Answers
      <4>4. \A m : Lands(m, b)
        BY <4>2 DEF Lands
      <4> QED
        BY <4>3, <4>4 DEF b
    <3>2. CASE a \in [kind : {"full"}, wanted : BOOLEAN, id : Nat, data : Arrays]
      <4>1. /\ b \in [kind : {"full"}, wanted : BOOLEAN, id : Nat, data : Arrays]
            /\ b.kind = "full" /\ a.kind = "full" /\ b.id = a.id /\ b.data = a.data
        BY <3>2
      <4> HIDE DEF b
      <4>2. b \in Answers
        BY <4>1 DEF Answers
      <4>3. \A m : Lands(m, a) => Lands(m, b)
        BY <4>1 DEF Lands, Held
      <4> QED
        BY <4>2, <4>3 DEF b
    <3>3. CASE a \in [kind : {"delta"}, wanted : BOOLEAN, id : Nat, base : Arrays, edit : Edits]
      <4>1. /\ b \in [kind : {"delta"}, wanted : BOOLEAN, id : Nat, base : Arrays, edit : Edits]
            /\ b.kind = "delta" /\ a.kind = "delta" /\ b.id = a.id
            /\ b.base = a.base /\ b.edit = a.edit
        BY <3>3
      <4> HIDE DEF b
      <4>2. b \in Answers
        BY <4>1 DEF Answers
      <4>3. \A m : Lands(m, a) => Lands(m, b)
        BY <4>1 DEF Lands, Held
      <4> QED
        BY <4>2, <4>3 DEF b
    <3> QED
      BY <3>1, <3>2, <3>3 DEF Answers
  <2>3. Unwanted(w) = [k \in 1..Len(w) |-> [w[k] EXCEPT !.wanted = FALSE]]
    BY DEF Unwanted
  <2>4. \A k \in 1..Len(w) : Unwanted(w)[k] = [w[k] EXCEPT !.wanted = FALSE]
    BY <2>3
  <2>5. \A k \in 1..Len(w) : /\ Unwanted(w)[k] \in Answers
                             /\ \A m : Lands(m, w[k]) => Lands(m, Unwanted(w)[k])
    <3> TAKE k \in 1..Len(w)
    <3>1. w[k] \in Answers /\ Unwanted(w)[k] = [w[k] EXCEPT !.wanted = FALSE]
      BY <2>1, <2>4
    <3> QED
      BY <3>1, <2>2, Zenon
  <2>6. Len(w) \in Nat /\ DOMAIN Unwanted(w) = 1..Len(w)
    BY <2>3
  <2>7. Unwanted(w) \in [1..Len(w) -> Answers]
    BY <2>3, <2>5, <2>6
  <2> QED
    BY <2>5, <2>6, <2>7
<1> QED
  BY <1>1, <1>2

(* A message more, or one less, at a wire.                                 *)
LEMMA WireAppend ==
  ASSUME NEW S, NEW w \in Seq(S), NEW e \in S
  PROVE  /\ Append(w, e) \in Seq(S) /\ Len(Append(w, e)) = Len(w) + 1
         /\ \A k \in 1..(Len(w) + 1) :
              IF k = Len(w) + 1 THEN Append(w, e)[k] = e
                                ELSE k \in 1..Len(w) /\ Append(w, e)[k] = w[k]
  BY AppendProperties

(* A wire without its first message holds the others.                      *)
LEMMA WireTail ==
  ASSUME NEW S, NEW w \in Seq(S), w # <<>>
  PROVE  /\ 1 \in 1..Len(w) /\ Head(w) = w[1] /\ Head(w) \in S
         /\ Tail(w) \in Seq(S)
         /\ \A k \in 1..Len(Tail(w)) : k + 1 \in 1..Len(w) /\ Tail(w)[k] = w[k + 1]
  BY HeadTailProperties

-----------------------------------------------------------------------------
(* The steps                                                               *)

(* Nobody has an array at the start.                                       *)
LEMMA InitInv == TokensInit => Inv
  BY DEF TokensInit, Inv, TypeInv, HeldInv

(* One message more for the server.                                        *)
LEMMA AskedMore ==
  ASSUME NEW w \in Seq(Asked), NEW e \in Asked, asked' = Append(w, e),
         \A k \in 1..Len(w) : w[k].previous # None => Held(made, w[k].previous),
         e.previous # None => Held(made, e.previous), made' = made
  PROVE  /\ asked' \in Seq(Asked)
         /\ \A k \in 1..Len(asked') :
              asked'[k].previous # None => Held(made', asked'[k].previous)
<1>1. /\ asked' \in Seq(Asked) /\ Len(asked') = Len(w) + 1
      /\ \A k \in 1..(Len(w) + 1) :
           IF k = Len(w) + 1 THEN asked'[k] = e ELSE k \in 1..Len(w) /\ asked'[k] = w[k]
  BY WireAppend
<1> QED
  BY <1>1, Zenon

(* One lemma per step; what a step sends quotes what its sender holds.     *)
LEMMA OpenInv == ASSUME Inv, Open PROVE Inv'
<1>1. Message("open", None) \in Asked /\ Message("open", None).previous = None
  BY DEF Message, Asked
<1>2. asked' = Append(asked, Message("open", None))
          /\ UNCHANGED <<record, answers, cache, made>>
  BY DEF Open, Asks
<1>3. /\ asked' \in Seq(Asked)
      /\ \A k \in 1..Len(asked') : asked'[k].previous # None => Held(made', asked'[k].previous)
  BY <1>1, <1>2, AskedMore DEF Inv, TypeInv, HeldInv
<1> QED
  BY <1>2, <1>3 DEF Inv, TypeInv, HeldInv

LEMMA CloseInv == ASSUME Inv, Close PROVE Inv'
<1>1. Message("close", None) \in Asked /\ Message("close", None).previous = None
  BY DEF Message, Asked
<1>2. /\ asked' = Append(Unwanted(asked), Message("close", None))
      /\ answers' = Unwanted(answers) /\ record' = None /\ UNCHANGED <<cache, made>>
  BY DEF Close
<1>3. /\ Unwanted(asked) \in Seq(Asked)
      /\ \A k \in 1..Len(Unwanted(asked)) :
           Unwanted(asked)[k].previous # None => Held(made, Unwanted(asked)[k].previous)
  BY UnwantedSame DEF Inv, TypeInv, HeldInv
<1>4. /\ asked' \in Seq(Asked)
      /\ \A k \in 1..Len(asked') : asked'[k].previous # None => Held(made', asked'[k].previous)
  BY <1>1, <1>2, <1>3, AskedMore
<1>5. answers' \in Seq(Answers) /\ \A k \in 1..Len(answers') : Lands(made', answers'[k])
  BY <1>2, UnwantedSame DEF Inv, TypeInv, HeldInv
<1> QED
  BY <1>2, <1>4, <1>5 DEF Inv, TypeInv, HeldInv

LEMMA RequestInv == ASSUME Inv, Request PROVE Inv'
<1>1. PICK e \in {Message("full", None), Message("delta", record)} :
        /\ asked' = Append(asked, e)
        /\ e.previous # None => e.previous = record /\ record # None
  BY DEF Request, Asks, Message
<1>2. e \in Asked
  <2>1. record \in Kept \cup {None} /\ None \in Kept \cup {None}
    BY DEF Inv, TypeInv
  <2>2. Message("full", None) \in Asked /\ Message("delta", record) \in Asked
    BY <2>1 DEF Message, Asked
  <2> QED
    BY <1>1, <2>2
<1>3. UNCHANGED <<record, answers, cache, made>>
  BY DEF Request
<1>4. e.previous # None => Held(made, e.previous)
  BY <1>1 DEF Inv, HeldInv
<1>5. /\ asked' \in Seq(Asked)
      /\ \A k \in 1..Len(asked') : asked'[k].previous # None => Held(made', asked'[k].previous)
  BY <1>1, <1>2, <1>3, <1>4, AskedMore DEF Inv, TypeInv, HeldInv
<1> QED
  BY <1>3, <1>5 DEF Inv, TypeInv, HeldInv

LEMMA ReceiveInv == ASSUME Inv, Receive PROVE Inv'
<1> DEFINE a == Head(answers)
<1>1. answers \in Seq(Answers) /\ answers # <<>> /\ answers' = Tail(answers)
      /\ UNCHANGED <<asked, cache, made>>
  BY DEF Receive, Inv, TypeInv
<1>2. a \in Answers /\ Lands(made, a) /\ answers' \in Seq(Answers)
      /\ \A k \in 1..Len(answers') : Lands(made', answers'[k])
  BY <1>1, WireTail DEF Inv, HeldInv
<1>3. record' \in Kept \cup {None} /\ (record' # None => Held(made', record'))
  <2>1. CASE ~ a.wanted \/ a.kind = "none"
    BY <1>1, <2>1 DEF Receive, Inv, TypeInv, HeldInv
  <2>2. CASE a.wanted /\ a.kind = "full"
    <3>1. record' = [id |-> a.id, data |-> a.data]
      BY <2>2 DEF Receive
    <3>2. a \in [kind : {"full"}, wanted : BOOLEAN, id : Nat, data : Arrays]
      BY <1>2, <2>2 DEF Answers
    <3> HIDE DEF a
    <3>3. record' \in Kept
      BY <3>1, <3>2 DEF Kept
    <3> QED
      BY <1>1, <1>2, <2>2, <3>1, <3>3 DEF Lands, Held
  <2>3. CASE a.wanted /\ a.kind = "delta"
    <3>1. record' = [id |-> a.id, data |-> Patched(a.base, a.edit)]
      BY <2>3 DEF Receive
    <3>2. a \in [kind : {"delta"}, wanted : BOOLEAN, id : Nat, base : Arrays, edit : Edits]
      BY <1>2, <2>3 DEF Answers
    <3> HIDE DEF a
    <3>3. a.id \in DOMAIN made /\ Patched(a.base, a.edit) = Encode(made[a.id])
      BY <1>2, <2>3 DEF Lands
    <3>4. Patched(a.base, a.edit) \in Arrays
      BY <3>3 DEF Arrays, Inv, TypeInv
    <3>5. record' \in Kept
      BY <3>1, <3>2, <3>4 DEF Kept
    <3> QED
      BY <1>1, <3>1, <3>3, <3>5 DEF Held
  <2>4. a.wanted \in BOOLEAN /\ a.kind \in {"none", "full", "delta"}
    BY <1>2 DEF Answers
  <2> HIDE DEF a
  <2> QED
    BY <2>1, <2>2, <2>3, <2>4
<1> QED
  BY <1>1, <1>2, <1>3 DEF Inv, TypeInv, HeldInv

(* What the server leaves of its wire.                                     *)
LEMMA AskedLess ==
  ASSUME Inv, asked # <<>>
  PROVE  /\ Head(asked) \in Asked /\ Tail(asked) \in Seq(Asked)
         /\ Head(asked).previous # None => Held(made, Head(asked).previous)
         /\ \A k \in 1..Len(Tail(asked)) :
              Tail(asked)[k].previous # None => Held(made, Tail(asked)[k].previous)
  BY WireTail DEF Inv, TypeInv, HeldInv

LEMMA OpenOrCloseInv == ASSUME Inv, OpenOrClose PROVE Inv'
  BY AskedLess DEF OpenOrClose, Inv, TypeInv, HeldInv

(* An answer without an array claims nothing.                              *)
LEMMA NothingLands ==
  ASSUME Inv, asked # <<>>
  PROVE  Nothing \in Answers /\ \A m : Lands(m, Nothing)
<1>1. Head(asked).wanted \in BOOLEAN
  BY AskedLess DEF Asked
<1>2. Nothing \in [kind : {"none"}, wanted : BOOLEAN]
  BY <1>1 DEF Nothing
<1>3. Nothing \in Answers /\ Nothing.kind = "none"
  BY <1>2 DEF Answers
<1> QED
  BY <1>3 DEF Lands

(* One answer more, in a history that may have grown.                      *)
LEMMA AnswersMore ==
  ASSUME Inv, NEW e \in Answers, answers' = Append(answers, e), Lands(made', e),
         \A a : Lands(made, a) => Lands(made', a)
  PROVE  /\ answers' \in Seq(Answers)
         /\ \A k \in 1..Len(answers') : Lands(made', answers'[k])
<1>1. answers \in Seq(Answers) /\ \A k \in 1..Len(answers) : Lands(made', answers[k])
  BY DEF Inv, TypeInv, HeldInv
<1>2. /\ answers' \in Seq(Answers) /\ Len(answers') = Len(answers) + 1
      /\ \A k \in 1..(Len(answers) + 1) :
           IF k = Len(answers) + 1 THEN answers'[k] = e
                                   ELSE k \in 1..Len(answers) /\ answers'[k] = answers[k]
  BY <1>1, WireAppend
<1> QED
  BY <1>1, <1>2, Zenon

LEMMA RefuseInv == ASSUME Inv, Refuse PROVE Inv'
<1>1. /\ asked # <<>> /\ asked' = Tail(asked) /\ answers' = Append(answers, Nothing)
      /\ UNCHANGED <<record, cache, made>>
  BY DEF Refuse, Handling
<1>2. answers' \in Seq(Answers) /\ \A k \in 1..Len(answers') : Lands(made', answers'[k])
  BY <1>1, NothingLands, AnswersMore
<1> QED
  BY <1>1, <1>2, AskedLess DEF Inv, TypeInv, HeldInv

LEMMA AnswerInv == ASSUME Inv, Answer PROVE Inv'
<1> DEFINE base == Head(asked).previous
           wanted == Head(asked).wanted
           id == Len(made) + 1
<1>1. asked # <<>> /\ asked' = Tail(asked) /\ record' = record
  BY DEF Answer, Handling
<1>2. PICK raw \in Raws, arrives \in BOOLEAN :
        /\ made' = Append(made, raw) /\ cache' = [id |-> id, data |-> Encode(raw)]
        /\ answers' = Append(answers,
             CASE ~arrives -> Nothing
               [] arrives /\ Matches(base) ->
                    [kind |-> "delta", wanted |-> wanted, id |-> id,
                     base |-> base.data, edit |-> Diff(cache.data, Encode(raw))]
               [] arrives /\ ~Matches(base) ->
                    [kind |-> "full", wanted |-> wanted, id |-> id, data |-> Encode(raw)])
  BY DEF Answer
<1>3. made \in Seq(Raws) /\ Len(made) \in Nat /\ made' \in Seq(Raws)
      /\ id \in DOMAIN made' /\ made'[id] = raw /\ id \in Nat
  BY <1>2, AppendProperties DEF Inv, TypeInv
<1>4. /\ \A r : Held(made, r) => Held(made', r)
      /\ \A a : Lands(made, a) => Lands(made', a)
  BY <1>2, <1>3, MadeGrows
<1>5. Encode(raw) \in Arrays /\ wanted \in BOOLEAN
  BY <1>1, AskedLess DEF Arrays, Asked
<1> HIDE DEF base, wanted, id
<1>6. cache' \in Kept /\ Held(made', cache')
  BY <1>2, <1>3, <1>5 DEF Kept, Held
<1>7. answers' \in Seq(Answers) /\ \A k \in 1..Len(answers') : Lands(made', answers'[k])
  <2>1. CASE ~arrives
    <3>1. answers' = Append(answers, Nothing)
      BY <1>2, <2>1
    <3> QED
      BY <1>1, <1>4, <3>1, NothingLands, AnswersMore
  <2>2. CASE arrives /\ Matches(base)
    <3> DEFINE e == [kind |-> "delta", wanted |-> wanted, id |-> id,
                     base |-> base.data, edit |-> Diff(cache.data, Encode(raw))]
    <3>1. answers' = Append(answers, e)
      BY <1>2, <2>2
    <3>2. cache \in Kept /\ Held(made, cache) /\ Held(made, base) /\ cache.id = base.id
      BY <1>1, <2>2, AskedLess DEF Matches, Inv, TypeInv, HeldInv, base
    <3>3. cache.data \in Arrays /\ base.data = cache.data
      BY <3>2 DEF Kept, Held
    <3>4. Diff(cache.data, Encode(raw)) \in Edits
      BY <1>5, <3>3 DEF Edits
    <3>5. e \in [kind : {"delta"}, wanted : BOOLEAN, id : Nat, base : Arrays, edit : Edits]
      BY <1>3, <1>5, <3>3, <3>4
    <3>6. e \in Answers
      BY <3>5 DEF Answers
    <3>7. Patched(cache.data, Diff(cache.data, Encode(raw))) = Encode(raw)
      BY <1>5, <3>3, DeltaLands
    <3>8. Lands(made', e)
      BY <1>3, <3>3, <3>7 DEF Lands
    <3> QED
      BY <1>4, <3>1, <3>6, <3>8, AnswersMore
  <2>3. CASE arrives /\ ~Matches(base)
    <3> DEFINE e == [kind |-> "full", wanted |-> wanted, id |-> id, data |-> Encode(raw)]
    <3>1. answers' = Append(answers, e)
      BY <1>2, <2>3
    <3>2. e \in [kind : {"full"}, wanted : BOOLEAN, id : Nat, data : Arrays]
      BY <1>3, <1>5
    <3>3. e \in Answers
      BY <3>2 DEF Answers
    <3>4. Lands(made', e)
      BY <1>3 DEF Lands, Held
    <3> QED
      BY <1>4, <3>1, <3>3, <3>4, AnswersMore
  <2> QED
    BY <2>1, <2>2, <2>3
<1>8. /\ asked' \in Seq(Asked)
      /\ \A k \in 1..Len(asked') : asked'[k].previous # None => Held(made', asked'[k].previous)
  BY <1>1, <1>4, AskedLess
<1>9. record' \in Kept \cup {None} /\ (record' # None => Held(made', record'))
  BY <1>1, <1>4 DEF Inv, TypeInv, HeldInv
<1> QED
  BY <1>3, <1>6, <1>7, <1>8, <1>9 DEF Inv, TypeInv, HeldInv

LEMMA TokensInvariance == TokensSpec => []Inv
<1>1. Inv /\ [TokensNext]_tokenVars => Inv'
  <2> SUFFICES ASSUME Inv, [TokensNext]_tokenVars PROVE Inv'
    OBVIOUS
  <2>1. CASE UNCHANGED tokenVars
    BY <2>1 DEF tokenVars, Inv, TypeInv, HeldInv
  <2> QED
    BY <2>1, OpenInv, CloseInv, RequestInv, ReceiveInv, OpenOrCloseInv, RefuseInv,
       AnswerInv
       DEF TokensNext
<1> QED
  BY InitInv, <1>1, PTL DEF TokensSpec

(* No delta meets an array it was not made for, whatever is classified,    *)
(* lost, refused, closed or reopened, and however many requests and        *)
(* answers are on their way.                                               *)
THEOREM ArraysStayInStep == TokensSpec => []ArraysAgree
<1>1. Inv => ArraysAgree
  BY DEF Inv, HeldInv, Held, ArraysAgree
<1> QED
  BY <1>1, TokensInvariance, PTL

-----------------------------------------------------------------------------
(* What a client reads out of an array.                                    *)

(* From a to n, g holds the partial sums of f, from its place b on.        *)
Sums(f, g, a, b, n) ==
  /\ a \in Nat /\ b = a + 1 /\ n \in Nat /\ g[a] = 0
  /\ \A k \in b..n : f[k] \in Nat /\ g[k] = g[k - 1] + f[k]
  /\ \A k \in a..n : g[k] \in Nat

LEMMA TotalIs ==
  ASSUME NEW f, NEW g, NEW a, NEW b, NEW n, Sums(f, g, a, b, n), NEW j \in a..n
  PROVE  Total(f, b..j) = g[j]
<1> USE DEF Sums
<1> DEFINE U(k) == UNION {{i} \X (1..f[i]) : i \in b..k}
           Good(k) == IsFiniteSet(U(k)) /\ Cardinality(U(k)) = g[k]
           Bad == {k \in a..n : ~Good(k)}
           m == Min(Bad)
<1>1. SUFFICES ASSUME Bad # {} PROVE FALSE
  <2>1. Good(j)
    BY <1>1
  <2> QED
    BY <2>1 DEF Total
<1>2. m \in Bad /\ \A k \in Bad : m <= k
  <2>1. Bad \in SUBSET Nat
    OBVIOUS
  <2> HIDE DEF Bad
  <2> QED
    BY <1>1, <2>1, MinExists
<1> HIDE DEF m
<1>3. m \in a..n /\ ~Good(m)
  BY <1>2
<1>4. m # a
  <2>1. b..a = {}
    OBVIOUS
  <2>2. U(a) = {}
    BY <2>1
  <2>3. Good(a)
    BY <2>2, FS_EmptySet
  <2> QED
    BY <1>3, <2>3
<1>5. m - 1 \in a..n /\ m \in b..n
  BY <1>3, <1>4
<1>6. Good(m - 1)
  <2>1. ~(m <= m - 1)
    BY <1>5
  <2> QED
    BY <1>2, <1>5, <2>1
<1> DEFINE step == {m} \X (1..f[m])
<1>7. U(m) = U(m - 1) \cup step
  <2>1. b..m = (b..(m - 1)) \cup {m}
    BY <1>5
  <2> QED
    BY <2>1
<1>8. U(m - 1) \cap step = {}
  <2>1. m \notin b..(m - 1)
    BY <1>5
  <2> QED
    BY <2>1
<1>9. IsFiniteSet(step) /\ Cardinality(step) = f[m]
  <2>1. f[m] \in Nat
    BY <1>5
  <2> DEFINE T == 1..f[m]
             M == {m}
  <2>2. IsFiniteSet(T) /\ Cardinality(T) = f[m]
    <3>1. 1 \in Int /\ f[m] \in Int
      BY <2>1
    <3>2. IsFiniteSet(T) /\ Cardinality(T) = IF 1 > f[m] THEN 0 ELSE f[m] - 1 + 1
      BY <3>1, FS_Interval
    <3> QED
      BY <2>1, <3>2
  <2>3. IsFiniteSet(M) /\ Cardinality(M) = 1
    BY FS_Singleton
  <2> HIDE DEF T, M
  <2>4. IsFiniteSet(M \X T) /\ Cardinality(M \X T) = Cardinality(M) * Cardinality(T)
    BY <2>2, <2>3, FS_Product
  <2>5. Cardinality(M \X T) = f[m]
    BY <2>1, <2>2, <2>3, <2>4
  <2> QED
    BY <2>4, <2>5 DEF T, M
<1>10. Good(m)
  <2>1. g[m - 1] \in Nat /\ f[m] \in Nat /\ g[m] = g[m - 1] + f[m]
    BY <1>5
  <2> DEFINE V == U(m - 1)
  <2>2. IsFiniteSet(V) /\ Cardinality(V) = g[m - 1] /\ V \cap step = {}
    BY <1>6, <1>8
  <2> HIDE DEF V, step, U
  <2>3. /\ IsFiniteSet(V \cup step)
        /\ Cardinality(V \cup step) =
             Cardinality(V) + Cardinality(step) - Cardinality(V \cap step)
    BY <1>9, <2>2, FS_Union
  <2>4. Cardinality(V \cap step) = 0
    BY <2>2, FS_EmptySet
  <2>5. U(m) = V \cup step
    BY <1>7 DEF V
  <2>6. Cardinality(V \cup step) = g[m]
    BY <1>9, <2>1, <2>2, <2>3, <2>4
  <2> QED
    BY <2>3, <2>5, <2>6
<1> QED
  BY <1>3, <1>10

(* What is read is what was encoded: the relative lines add up, and the    *)
(* relative starts since the last token that began a line.                 *)
LEMMA DecodeIs ==
  ASSUME NEW raw \in Raws
  PROVE  Decode(Encode(raw)) =
           {[line |-> t.line, start |-> t.start, length |-> t.length, type |-> t.type] :
              t \in ToSet(Ordered(raw))}
<1> DEFINE s        == Ordered(raw)
           data     == Encode(raw)
           line(k)  == IF k = 0 THEN 0 ELSE s[k].line
           start(k) == IF k = 0 THEN 0 ELSE s[k].start
           down     == [k \in DOMAIN data |-> data[k].down]
           along    == [k \in DOMAIN data |-> data[k].along]
           starting(m) == {k \in 1..m : down[k] > 0} \cup {1}
           row(m)   == Max(starting(m))
<1>1. PICK n \in Nat :
        /\ DOMAIN s = 1..n
        /\ \A k \in 1..n : s[k].line \in Nat /\ s[k].start \in Nat
        /\ \A j, k \in 1..n : j < k => Before(Start(s[j]), Start(s[k]))
  BY OrderedRises
<1>2. /\ data = [k \in 1..n |->
           [down |-> line(k) - line(k - 1),
            along |-> IF line(k) - line(k - 1) = 0 THEN start(k) - start(k - 1) ELSE start(k),
            length |-> s[k].length, type |-> s[k].type]]
  BY <1>1 DEF Encode
<1>3. Decode(data) =
        {[line |-> Total(down, 1..m), start |-> Total(along, row(m)..m),
          length |-> data[m].length, type |-> data[m].type] : m \in DOMAIN data}
  BY DEF Decode
<1> HIDE DEF s, data
<1>4. DOMAIN data = 1..n
  BY <1>2
<1>5. ASSUME NEW k \in 1..n
      PROVE  /\ line(k) \in Nat /\ line(k - 1) \in Nat /\ start(k) \in Nat
             /\ line(k) = s[k].line /\ start(k) = s[k].start
             /\ k > 1 => /\ line(k - 1) = s[k - 1].line /\ start(k - 1) = s[k - 1].start
                         /\ start(k - 1) \in Nat
             /\ line(k - 1) <= line(k)
             /\ k > 1 /\ line(k - 1) = line(k) => start(k - 1) < start(k)
  <2>1. line(k) = s[k].line /\ start(k) = s[k].start /\ s[k].line \in Nat /\ s[k].start \in Nat
    BY <1>1
  <2>2. CASE k = 1
    BY <2>1, <2>2
  <2>3. CASE k > 1
    <3>1. k - 1 \in 1..n /\ k - 1 # 0 /\ k - 1 < k
      BY <1>1, <2>3
    <3>2. /\ line(k - 1) = s[k - 1].line /\ start(k - 1) = s[k - 1].start
          /\ s[k - 1].line \in Nat /\ s[k - 1].start \in Nat
      BY <1>1, <3>1
    <3>3. Before(Start(s[k - 1]), Start(s[k]))
      BY <1>1, <3>1
    <3>4. \/ s[k - 1].line < s[k].line
          \/ s[k - 1].line = s[k].line /\ s[k - 1].start < s[k].start
      BY <3>3 DEF Before, Start
    <3> HIDE DEF line, start
    <3> QED
      BY <2>1, <3>2, <3>4
  <2> QED
    BY <1>1, <2>2, <2>3
<1>6. ASSUME NEW k \in 1..n
      PROVE  /\ down[k] = line(k) - line(k - 1) /\ down[k] \in Nat
             /\ along[k] = IF down[k] = 0 THEN start(k) - start(k - 1) ELSE start(k)
             /\ data[k].length = s[k].length /\ data[k].type = s[k].type
  <2>1. /\ down[k] = line(k) - line(k - 1)
        /\ along[k] = IF line(k) - line(k - 1) = 0 THEN start(k) - start(k - 1) ELSE start(k)
        /\ data[k].length = s[k].length /\ data[k].type = s[k].type
    <3> HIDE DEF line, start
    <3> QED
      BY <1>2, <1>4
  <2>2. line(k) \in Nat /\ line(k - 1) \in Nat /\ line(k - 1) <= line(k)
    BY <1>5
  <2> HIDE DEF line, start, down, along
  <2> QED
    BY <2>1, <2>2
<1>7. ASSUME NEW m \in 1..n
      PROVE  Total(down, 1..m) = s[m].line
  <2> DEFINE g == [k \in 0..n |-> line(k)]
  <2>1. \A k \in 1..n : down[k] \in Nat /\ g[k] = g[k - 1] + down[k]
    <3> TAKE k \in 1..n
    <3>1. k \in 1..n /\ k \in 0..n /\ k - 1 \in 0..n
      BY <1>1
    <3>2. /\ down[k] = line(k) - line(k - 1) /\ down[k] \in Nat
          /\ line(k) \in Nat /\ line(k - 1) \in Nat
      BY <1>5, <1>6, <3>1
    <3>3. g[k] = line(k) /\ g[k - 1] = line(k - 1)
      BY <3>1
    <3> HIDE DEF line, down, g
    <3> QED
      BY <3>2, <3>3
  <2>2. \A k \in 0..n : g[k] \in Nat
    BY <1>1
  <2>3. g[0] = 0 /\ g[m] = s[m].line
    BY <1>1
  <2> HIDE DEF g, down
  <2>4. Total(down, 1..m) = g[m]
    <3>1. Sums(down, g, 0, 1, n)
      BY <1>1, <2>1, <2>2, <2>3 DEF Sums
    <3>2. m \in 0..n
      BY <1>1
    <3> QED
      BY <3>1, <3>2, TotalIs
  <2> QED
    BY <2>3, <2>4
<1>8. ASSUME NEW m \in 1..n
      PROVE  Total(along, row(m)..m) = s[m].start
  <2> DEFINE r == row(m)
             g == [k \in (r - 1)..m |-> IF k = r - 1 THEN 0 ELSE start(k)]
  <2>1. r \in starting(m) /\ \A k \in starting(m) : k <= r
    <3>1. starting(m) \in SUBSET (0..m) /\ starting(m) # {} /\ m \in Nat
      OBVIOUS
    <3> HIDE DEF starting
    <3> QED
      BY <3>1, MaxExists
  <2> HIDE DEF r
  <2>2. r \in 1..m /\ (r = 1 \/ down[r] > 0)
    BY <2>1
  <2>3. \A k \in (r + 1)..m : down[k] = 0
    <3> TAKE k \in (r + 1)..m
    <3>1. k \in 1..n /\ k \in 1..m /\ ~(k <= r)
      BY <2>2
    <3>2. ~(down[k] > 0)
      BY <2>1, <3>1
    <3>3. down[k] \in Nat
      BY <1>6, <3>1
    <3> HIDE DEF down
    <3> QED
      BY <3>2, <3>3
  <2>4. \A k \in r..m : along[k] \in Nat /\ g[k] = g[k - 1] + along[k]
    <3> TAKE k \in r..m
    <3>1. k \in 1..n /\ k \in (r - 1)..m /\ k - 1 \in (r - 1)..m /\ k # r - 1
      BY <1>1, <2>2
    <3>2. start(k) \in Nat /\ g[k] = start(k)
      BY <1>5, <3>1
    <3>3. along[k] = IF down[k] = 0 THEN start(k) - start(k - 1) ELSE start(k)
      BY <1>6, <3>1
    <3>4. CASE k = r
      <4>1. g[k - 1] = 0
        BY <3>1, <3>4
      <4>2. along[k] = start(k)
        <5>1. CASE down[r] > 0
          <6>1. down[k] # 0
            BY <1>6, <3>1, <3>4, <5>1
          <6> QED
            BY <3>3, <6>1
        <5>2. CASE r = 1
          <6>1. start(k - 1) = 0
            BY <3>4, <5>2
          <6> HIDE DEF start
          <6> QED
            BY <3>2, <3>3, <6>1
        <5> QED
          BY <2>2, <5>1, <5>2
      <4> HIDE DEF start, along, g
      <4> QED
        BY <3>2, <4>1, <4>2
    <3>5. CASE k # r
      <4>1. k \in (r + 1)..m /\ k > 1 /\ k - 1 # r - 1
        BY <2>2, <3>1, <3>5
      <4>2. down[k] = 0 /\ down[k] = line(k) - line(k - 1)
        BY <1>6, <2>3, <3>1, <4>1
      <4>3. /\ line(k) \in Nat /\ line(k - 1) \in Nat /\ start(k - 1) \in Nat
            /\ line(k - 1) = line(k) => start(k - 1) < start(k)
        BY <1>5, <3>1, <4>1
      <4>4. g[k - 1] = start(k - 1)
        BY <3>1, <4>1
      <4>5. along[k] = start(k) - start(k - 1)
        BY <3>3, <4>2
      <4> HIDE DEF line, start, along, g, down
      <4>6. line(k - 1) = line(k)
        BY <4>2, <4>3
      <4> QED
        BY <3>2, <4>3, <4>4, <4>5, <4>6
    <3> QED
      BY <3>4, <3>5
  <2>5. \A k \in (r - 1)..m : g[k] \in Nat
    <3> TAKE k \in (r - 1)..m
    <3>1. CASE k = r - 1
      BY <3>1
    <3>2. CASE k # r - 1
      <4>1. k \in 1..n
        BY <1>1, <2>2, <3>2
      <4>2. start(k) \in Nat
        BY <1>5, <4>1
      <4> QED
        BY <3>2, <4>2
    <3> QED
      BY <3>1, <3>2
  <2>6. g[r - 1] = 0 /\ g[m] = s[m].start
    <3>1. r - 1 \in (r - 1)..m /\ m \in (r - 1)..m /\ m # r - 1
      BY <2>2
    <3>2. start(m) = s[m].start
      BY <1>5
    <3> QED
      BY <3>1, <3>2
  <2> HIDE DEF g, along
  <2>7. Total(along, r..m) = g[m]
    <3>1. Sums(along, g, r - 1, r, m)
      <4>1. r - 1 \in Nat /\ r = (r - 1) + 1 /\ m \in Nat
        BY <2>2
      <4> QED
        BY <2>4, <2>5, <2>6, <4>1 DEF Sums
    <3>2. m \in (r - 1)..m
      BY <2>2
    <3> QED
      BY <3>1, <3>2, TotalIs
  <2> QED
    BY <2>6, <2>7 DEF r
<1>9. Decode(data) = {[line |-> s[m].line, start |-> s[m].start,
                       length |-> s[m].length, type |-> s[m].type] : m \in 1..n}
  <2> DEFINE Read(m) == [line |-> Total(down, 1..m), start |-> Total(along, row(m)..m),
                         length |-> data[m].length, type |-> data[m].type]
             Meant(m) == [line |-> s[m].line, start |-> s[m].start,
                          length |-> s[m].length, type |-> s[m].type]
  <2>1. ASSUME NEW m \in 1..n PROVE Read(m) = Meant(m)
    <3>1. /\ Total(down, 1..m) = s[m].line /\ Total(along, row(m)..m) = s[m].start
          /\ data[m].length = s[m].length /\ data[m].type = s[m].type
      BY <1>6, <1>7, <1>8
    <3> QED
      BY <3>1
  <2>2. Decode(data) = {Read(m) : m \in 1..n}
    BY <1>3, <1>4
  <2> HIDE DEF Read, Meant
  <2>3. {Read(m) : m \in 1..n} = {Meant(m) : m \in 1..n}
    BY <2>1
  <2> QED
    BY <2>2, <2>3 DEF Meant
<1>10. ToSet(s) = {s[m] : m \in 1..n}
  BY <1>1 DEF ToSet
<1> QED
  BY <1>9, <1>10 DEF s, data

(* What the client paints is what was classified, for every classification *)
(* and length: with ArraysStayInStep the array in hand, and with DecodeIs  *)
(* what it means.                                                          *)
THEOREM PaintsWhatWasMeant == TokensSpec => []TokensAgree
<1>1. Inv /\ ArraysAgree => TokensAgree
  <2> SUFFICES ASSUME Inv, ArraysAgree, record # None PROVE TokensAgree
    BY DEF TokensAgree
  <2>1. record.data = Encode(made[record.id]) /\ record.id \in DOMAIN made
    BY DEF Inv, HeldInv, Held
  <2>2. made[record.id] \in Raws
    BY <2>1 DEF Inv, TypeInv
  <2> QED
    BY <2>1, <2>2, DecodeIs DEF TokensAgree
<1> QED
  BY <1>1, TokensInvariance, ArraysStayInStep, PTL

-----------------------------------------------------------------------------
(***************************************************************************)
(* Scenes: the types, and what the maps owe each other.                    *)
(***************************************************************************)
ScenesOf == [Scenes -> [text : SceneTexts, nodes : Seq(Node)] \cup {None}]
UidMaps == [Uids -> Res \cup {None}]
SceneMaps == [stored : ScenesOf, attach : [Res -> SUBSET Scenes], instance :
    [Res -> SUBSET Scenes],
              uidRefs : [Uids -> SUBSET Scenes]]
Sessions == [uids : UidMaps, index : [uids : UidMaps, byRes : [Res -> Uids \cup {None}]],
    scenes : SceneMaps]
Notices == {n \in [kind : {"write", "delete", "rename"}, from : Res, path : Res] :
              n.kind = "rename" => n.from # n.path}

DiskTyped == /\ disk \in [Res -> SceneTexts \cup Uids \cup {None}]
             /\ \A r \in Res : disk[r] \in Content(r) \cup {None}
ScenesTypes ==
  /\ DiskTyped
  /\ notices \in Seq(Notices) /\ saved \in ScenesOf
  /\ stale \in [live : SUBSET Scenes, saved : SUBSET Scenes]
  /\ drift \subseteq {"lost", "contested", "unread"}

Holding(x) == {s \in Scenes : x.stored[s] # None}
Mirror(x) ==
  /\ \A r \in Res : x.attach[r] = {s \in Holding(x) : r \in AttachedIn(x.stored[s])}
  /\ \A r \in Res : x.instance[r] = {s \in Holding(x) : r \in InstancedIn(x.stored[s])}
  /\ \A u \in Uids : x.uidRefs[u] = {s \in Holding(x) : u \in NamedIn(x.stored[s])}

(* The map and its inverse.                                                *)
Twins(map, x) == x.uids = map /\ \A r \in Res, u \in Uids : (x.byRes[r] = u) = (map[u] = r)

Sound(x) == x \in Sessions /\ Twins(x.uids, x.index) /\ Mirror(x.scenes)

-----------------------------------------------------------------------------
(* A scene is read with its uids resolved.                                 *)
LEMMA StoredType ==
  ASSUME NEW text \in SceneTexts, NEW map \in UidMaps
  PROVE  /\ Stored(text, map) \in [text : SceneTexts, nodes : Seq(Node)]
         /\ Stored(text, map) # None /\ Stored(text, map).text = text
<1> DEFINE Path(ref) == IF ref \in Uids THEN map[ref] ELSE ref
<1>1. text.nodes \in Seq(Node)
  BY ScenesAssumption
<1>2. ASSUME NEW ref \in Refs PROVE Path(ref) \in Refs
  BY DEF Refs, UidMaps
<1>3. Canonical(text, map) = [k \in DOMAIN text.nodes |->
                                [text.nodes[k] EXCEPT !.script = Path(@), !.sub = Path(@)]]
  BY DEF Canonical
<1> HIDE DEF Path
<1>4. ASSUME NEW k \in DOMAIN text.nodes
      PROVE  [text.nodes[k] EXCEPT !.script = Path(@), !.sub = Path(@)] \in Node
  <2>1. text.nodes[k] \in Node
    BY <1>1
  <2> QED
    BY <1>2, <2>1 DEF Node
<1>5. /\ Len(text.nodes) \in Nat /\ DOMAIN text.nodes = 1..Len(text.nodes)
  BY <1>1
<1>6. Canonical(text, map) \in [1..Len(text.nodes) -> Node]
  BY <1>3, <1>4, <1>5
<1>7. Canonical(text, map) \in Seq(Node)
  BY <1>5, <1>6, SeqDef
<1> QED
  BY <1>7, ScenesAssumption DEF Stored

(* Two maps that agree on the uids a text names resolve it alike.          *)
LEMMA StoredSame ==
  ASSUME NEW text \in SceneTexts, NEW map, NEW other, \A u \in UidsOf(text) : map[u] = other[u]
  PROVE  Stored(text, map) = Stored(text, other)
<1> DEFINE Path(ref) == IF ref \in Uids THEN map[ref] ELSE ref
           Away(ref) == IF ref \in Uids THEN other[ref] ELSE ref
<1>1. text.nodes \in Seq(Node)
  BY ScenesAssumption
<1>2. \A k \in DOMAIN text.nodes :
        /\ text.nodes[k].script \in Uids => text.nodes[k].script \in UidsOf(text)
        /\ text.nodes[k].sub \in Uids => text.nodes[k].sub \in UidsOf(text)
  BY DEF UidsOf
<1>3. \A k \in DOMAIN text.nodes : /\ Path(text.nodes[k].script) = Away(text.nodes[k].script)
                                   /\ Path(text.nodes[k].sub) = Away(text.nodes[k].sub)
  BY <1>2
<1>4. /\ Canonical(text, map) = [k \in DOMAIN text.nodes |->
                                   [text.nodes[k] EXCEPT !.script = Path(@), !.sub = Path(@)]]
      /\ Canonical(text, other) = [k \in DOMAIN text.nodes |->
                                     [text.nodes[k] EXCEPT !.script = Away(@), !.sub = Away(@)]]
  BY DEF Canonical
<1> HIDE DEF Path, Away
<1>5. \A k \in DOMAIN text.nodes : [text.nodes[k] EXCEPT !.script = Path(@), !.sub = Path(@)]
                                     = [text.nodes[k] EXCEPT !.script = Away(@),
                                         !.sub = Away(@)]
  <2> TAKE k \in DOMAIN text.nodes
  <2>1. text.nodes[k] \in Node
    BY <1>1
  <2> QED
    BY <1>3, <2>1 DEF Node
<1>6. Canonical(text, map) = Canonical(text, other)
  BY <1>4, <1>5
<1> QED
  BY <1>6 DEF Stored

(* Replacing scenes takes the old ones out of the reverse maps and puts    *)
(* the new ones in.                                                        *)
LEMMA ReplaceKeeps ==
  ASSUME NEW x \in SceneMaps, Mirror(x), NEW S \in SUBSET Scenes,
         NEW new \in [S -> [text : SceneTexts, nodes : Seq(Node)] \cup {None}]
  PROVE  /\ Replace(x, new) \in SceneMaps /\ Mirror(Replace(x, new))
         /\ \A s \in Scenes : Replace(x, new).stored[s] = IF s \in S THEN new[s]
              ELSE x.stored[s]
<1> DEFINE y == Replace(x, new)
<1>1. DOMAIN new = S
  OBVIOUS
<1>2. /\ y.stored = [s \in Scenes |-> IF s \in S THEN new[s] ELSE x.stored[s]]
      /\ y.attach = [k \in DOMAIN x.attach |->
           (x.attach[k] \ {s \in S : x.stored[s] # None /\ k \in AttachedIn(x.stored[s])})
             \cup {s \in S : new[s] # None /\ k \in AttachedIn(new[s])}]
      /\ y.instance = [k \in DOMAIN x.instance |->
           (x.instance[k] \ {s \in S : x.stored[s] # None /\ k \in InstancedIn(x.stored[s])})
             \cup {s \in S : new[s] # None /\ k \in InstancedIn(new[s])}]
      /\ y.uidRefs = [k \in DOMAIN x.uidRefs |->
           (x.uidRefs[k] \ {s \in S : x.stored[s] # None /\ k \in NamedIn(x.stored[s])})
             \cup {s \in S : new[s] # None /\ k \in NamedIn(new[s])}]
      /\ y = [stored |-> y.stored, attach |-> y.attach, instance |-> y.instance,
           uidRefs |-> y.uidRefs]
  BY <1>1 DEF Replace
<1> HIDE DEF y
<1>3. /\ x.stored \in ScenesOf /\ DOMAIN x.attach = Res /\ DOMAIN x.instance = Res
           /\ DOMAIN x.uidRefs = Uids
      /\ \A r \in Res : x.attach[r] \subseteq Scenes /\ x.instance[r] \subseteq Scenes
      /\ \A u \in Uids : x.uidRefs[u] \subseteq Scenes
  BY DEF SceneMaps
<1>4. \A s \in Scenes : y.stored[s] = IF s \in S THEN new[s] ELSE x.stored[s]
  BY <1>2
<1>5. y.stored \in ScenesOf
  BY <1>2, <1>3 DEF ScenesOf
<1>6. /\ y.attach \in [Res -> SUBSET Scenes] /\ y.instance \in [Res -> SUBSET Scenes]
      /\ y.uidRefs \in [Uids -> SUBSET Scenes]
  BY <1>2, <1>3
<1>7. y \in SceneMaps
  BY <1>2, <1>5, <1>6 DEF SceneMaps
<1>8. ASSUME NEW r \in Res PROVE y.attach[r] = {s \in Holding(y) :
                 r \in AttachedIn(y.stored[s])}
  <2>1. x.attach[r] = {s \in Holding(x) : r \in AttachedIn(x.stored[s])}
    BY DEF Mirror
  <2>2. y.attach[r] = (x.attach[r] \ {s \in S : x.stored[s] # None
            /\ r \in AttachedIn(x.stored[s])})
                        \cup {s \in S : new[s] # None /\ r \in AttachedIn(new[s])}
    BY <1>2, <1>3
  <2> QED
    BY <1>4, <2>1, <2>2 DEF Holding
<1>9. ASSUME NEW r \in Res PROVE y.instance[r] = {s \in Holding(y) :
                 r \in InstancedIn(y.stored[s])}
  <2>1. x.instance[r] = {s \in Holding(x) : r \in InstancedIn(x.stored[s])}
    BY DEF Mirror
  <2>2. y.instance[r] = (x.instance[r] \ {s \in S : x.stored[s] # None
            /\ r \in InstancedIn(x.stored[s])})
                          \cup {s \in S : new[s] # None /\ r \in InstancedIn(new[s])}
    BY <1>2, <1>3
  <2> QED
    BY <1>4, <2>1, <2>2 DEF Holding
<1>10. ASSUME NEW u \in Uids PROVE y.uidRefs[u] = {s \in Holding(y) :
                  u \in NamedIn(y.stored[s])}
  <2>1. x.uidRefs[u] = {s \in Holding(x) : u \in NamedIn(x.stored[s])}
    BY DEF Mirror
  <2>2. y.uidRefs[u] = (x.uidRefs[u] \ {s \in S : x.stored[s] # None
            /\ u \in NamedIn(x.stored[s])})
                         \cup {s \in S : new[s] # None /\ u \in NamedIn(new[s])}
    BY <1>2, <1>3
  <2> QED
    BY <1>4, <2>1, <2>2 DEF Holding
<1> QED
  BY <1>4, <1>7, <1>8, <1>9, <1>10 DEF Mirror, y

-----------------------------------------------------------------------------
(* What a step does to the scenes: those of S that exist are read.         *)
LEMMA RereadKeeps ==
  ASSUME NEW x \in SceneMaps, Mirror(x), NEW S \in SUBSET Scenes, NEW map \in UidMaps,
         NEW bad, DiskTyped
  PROVE  /\ Reread(x, S, map, bad) \in SceneMaps /\ Mirror(Reread(x, S, map, bad))
         /\ \A s \in Scenes : Reread(x, S, map, bad).stored[s] =
              IF s \in S \ bad /\ disk[s] # None THEN Stored(disk[s], map) ELSE x.stored[s]
<1> DEFINE E == Existing(S, bad)
           new == [s \in E |-> Stored(disk[s], map)]
<1>1. E \in SUBSET Scenes /\ \A s \in Scenes : s \in E <=> s \in S \ bad /\ disk[s] # None
  BY DEF Existing
<1>2. \A s \in E : disk[s] \in SceneTexts
  BY <1>1 DEF DiskTyped, Content, Res
<1> HIDE DEF E
<1>3. \A s \in E : Stored(disk[s], map) \in [text : SceneTexts, nodes : Seq(Node)]
  BY <1>2, StoredType
<1>4. new \in [E -> [text : SceneTexts, nodes : Seq(Node)] \cup {None}]
  BY <1>3
<1>5. \A s \in E : new[s] = Stored(disk[s], map)
  OBVIOUS
<1>6. Reread(x, S, map, bad) = Replace(x, new)
  BY DEF Reread, E
<1> HIDE DEF new
<1>7. /\ Replace(x, new) \in SceneMaps /\ Mirror(Replace(x, new))
      /\ \A s \in Scenes : Replace(x, new).stored[s] = IF s \in E THEN new[s] ELSE x.stored[s]
  BY <1>1, <1>4, ReplaceKeeps
<1> QED
  BY <1>1, <1>5, <1>6, <1>7

(* Those of G go.                                                          *)
Without(x, G) == Replace(x, [s \in G |-> None])
LEMMA ClearKeeps ==
  ASSUME NEW x \in SceneMaps, Mirror(x), NEW G \in SUBSET Scenes
  PROVE  /\ Without(x, G) \in SceneMaps /\ Mirror(Without(x, G))
         /\ \A s \in Scenes : Without(x, G).stored[s] = IF s \in G THEN None ELSE x.stored[s]
<1> DEFINE new == [s \in G |-> None]
<1>1. new \in [G -> [text : SceneTexts, nodes : Seq(Node)] \cup {None}]
          /\ (\A s \in G : new[s] = None)
  OBVIOUS
<1> HIDE DEF new
<1>2. x \in SceneMaps /\ Mirror(x) /\ G \in SUBSET Scenes
  OBVIOUS
<1>3. /\ Replace(x, new) \in SceneMaps /\ Mirror(Replace(x, new))
      /\ \A s \in Scenes : Replace(x, new).stored[s] = IF s \in G THEN new[s] ELSE x.stored[s]
  BY <1>1, <1>2, ReplaceKeeps
<1> QED
  BY <1>1, <1>3 DEF Without, new

(* What a scene's own file and its deletion do.                            *)
LEMMA ReindexKeeps ==
  ASSUME NEW x, Sound(x), NEW p \in Res, NEW bad, DiskTyped
  PROVE  /\ Sound(Reindexed(x, p, bad)) /\ Reindexed(x, p, bad).uids = x.uids
         /\ \A s \in Scenes : Reindexed(x, p, bad).scenes.stored[s] =
              IF s = p /\ s \notin bad
                THEN IF disk[s] = None THEN None ELSE Stored(disk[s], x.uids)
                ELSE x.scenes.stored[s]
<1> DEFINE y == ReindexScene(x.scenes, p, x.uids, bad)
<1>1. x \in Sessions /\ x.scenes \in SceneMaps /\ x.uids \in UidMaps /\ Mirror(x.scenes)
  BY DEF Sound, Sessions
<1>4. y = IF p \notin bad /\ disk[p] = None THEN Without(x.scenes, {p})
            ELSE Reread(x.scenes, {p}, x.uids, bad)
  BY DEF ReindexScene, Without
<1>5. p \in Scenes => Reindexed(x, p, bad) = [x EXCEPT !.scenes = y]
  BY DEF Reindexed
<1> HIDE DEF y
<1>2. CASE p \notin Scenes
  <2>1. Reindexed(x, p, bad) = x
    BY <1>2 DEF Reindexed
  <2> QED
    BY <1>2, <2>1
<1>3. CASE p \in Scenes
  <2>1. /\ y \in SceneMaps /\ Mirror(y)
        /\ \A s \in Scenes : y.stored[s] = IF s = p /\ s \notin bad
                               THEN IF disk[s] = None THEN None ELSE Stored(disk[s], x.uids)
                               ELSE x.scenes.stored[s]
    <3>2. CASE p \notin bad /\ disk[p] = None
      <4> DEFINE P == {p}  old == x.scenes
      <4>1. y = Without(old, P)
        BY <1>4, <3>2
      <4>2. P \in SUBSET Scenes /\ old \in SceneMaps /\ Mirror(old)
        BY <1>1, <1>3
      <4> HIDE DEF P, old
      <4>3. /\ y \in SceneMaps /\ Mirror(y)
            /\ \A s \in Scenes : y.stored[s] = IF s \in P THEN None ELSE old.stored[s]
        BY <4>1, <4>2, ClearKeeps
      <4> QED
        BY <3>2, <4>3 DEF P, old
    <3>3. CASE p \in bad \/ disk[p] # None
      <4> DEFINE P == {p}  old == x.scenes  map == x.uids
      <4>1. y = Reread(old, P, map, bad)
        BY <1>4, <3>3
      <4>2. P \in SUBSET Scenes /\ old \in SceneMaps /\ Mirror(old) /\ map \in UidMaps
                /\ DiskTyped
        BY <1>1, <1>3
      <4> HIDE DEF P, old, map
      <4>3. /\ y \in SceneMaps /\ Mirror(y)
            /\ \A s \in Scenes : y.stored[s] = IF s \in P \ bad /\ disk[s] # None
                                   THEN Stored(disk[s], map) ELSE old.stored[s]
        <5>1. \A o \in SceneMaps : Mirror(o) => \A S \in SUBSET Scenes : \A m \in UidMaps :
                /\ Reread(o, S, m, bad) \in SceneMaps /\ Mirror(Reread(o, S, m, bad))
                /\ \A s \in Scenes : Reread(o, S, m, bad).stored[s] =
                     IF s \in S \ bad /\ disk[s] # None THEN Stored(disk[s], m) ELSE o.stored[s]
          BY RereadKeeps
        <5> QED
          BY <4>1, <4>2, <5>1
      <4> QED
        BY <3>3, <4>3 DEF P, old, map
    <3> QED
      BY <3>2, <3>3
  <2>2. Reindexed(x, p, bad) = [x EXCEPT !.scenes = y]
    BY <1>3, <1>5
  <2>3. /\ Reindexed(x, p, bad) \in Sessions /\ Reindexed(x, p, bad).scenes = y
        /\ Reindexed(x, p, bad).uids = x.uids /\ Reindexed(x, p, bad).index = x.index
    BY <1>1, <2>1, <2>2 DEF Sessions
  <2> QED
    BY <2>1, <2>3 DEF Sound
<1> QED
  BY <1>2, <1>3

LEMMA DropKeeps ==
  ASSUME NEW x, Sound(x), NEW p \in Res
  PROVE  /\ Sound(Dropped(x, p)) /\ Dropped(x, p).uids = x.uids
         /\ \A s \in Scenes :
              Dropped(x, p).scenes.stored[s] = IF s = p THEN None ELSE x.scenes.stored[s]
<1> DEFINE y == Without(x.scenes, {p})
<1>1. x \in Sessions /\ x.scenes \in SceneMaps /\ x.uids \in UidMaps /\ Mirror(x.scenes)
  BY DEF Sound, Sessions
<1>2. CASE p \notin Scenes
  <2>1. Dropped(x, p) = x
    BY <1>2 DEF Dropped
  <2> QED
    BY <1>2, <2>1
<1>3. CASE p \in Scenes
  <2>1. {p} \in SUBSET Scenes
    BY <1>3
  <2>2. /\ y \in SceneMaps /\ Mirror(y)
        /\ \A s \in Scenes : y.stored[s] = IF s \in {p} THEN None ELSE x.scenes.stored[s]
    BY <1>1, <2>1, ClearKeeps
  <2>3. Dropped(x, p) = [x EXCEPT !.scenes = y]
    BY <1>3 DEF Dropped, RemoveScene, Without
  <2> HIDE DEF y
  <2>4. /\ Dropped(x, p) \in Sessions /\ Dropped(x, p).scenes = y
        /\ Dropped(x, p).uids = x.uids /\ Dropped(x, p).index = x.index
    BY <1>1, <2>2, <2>3 DEF Sessions
  <2> QED
    BY <2>2, <2>4 DEF Sound
<1> QED
  BY <1>2, <1>3

-----------------------------------------------------------------------------
(* What a step does to the map.                                            *)
LEMMA DeclaredType == DiskTyped => \A r \in Res : Declared(r) \in Uids \cup {None}
<1> SUFFICES ASSUME DiskTyped, NEW r \in Res PROVE Declared(r) \in Uids \cup {None}
  OBVIOUS
<1>1. disk[r] \in Content(r) \cup {None}
  BY DEF DiskTyped
<1>2. CASE r \in Scripts
  BY <1>1, <1>2, ScenesAssumption DEF Declared, Content
<1>3. CASE r \notin Scripts /\ disk[r] = None
  BY <1>3 DEF Declared
<1>4. CASE r \notin Scripts /\ disk[r] # None
  <2>1. disk[r] \in SceneTexts
    BY <1>1, <1>4 DEF Content, Res
  <2>2. disk[r].uid \in Uids \cup {None}
    BY <2>1, ScenesAssumption
  <2> QED
    BY <1>4, <2>2 DEF Declared
<1> QED
  BY <1>2, <1>3, <1>4

(* The index's map and its inverse follow the model's.                     *)
LEMMA SyncKeeps ==
  ASSUME NEW map \in UidMaps, NEW x \in [uids : UidMaps, byRes : [Res -> Uids \cup {None}]],
             Twins(map, x),
         NEW r \in Res, NEW u \in Uids \cup {None}
  PROVE  /\ Repointed(map, r, u) \in UidMaps
         /\ SyncIndex(x, r, u) \in [uids : UidMaps, byRes : [Res -> Uids \cup {None}]]
         /\ Twins(Repointed(map, r, u), SyncIndex(x, r, u))
<1> DEFINE old  == x.byRes[r]
           kept == IF old # None /\ old # u THEN [x.uids EXCEPT ![old] = None] ELSE x.uids
           mine == [x.byRes EXCEPT ![r] = IF old = u THEN old ELSE None]
           y    == SyncIndex(x, r, u)
           to   == Repointed(map, r, u)
<1>1. None \notin Uids /\ None \notin Res
  BY ScenesAssumption
<1>2. x.uids = map /\ \A q \in Res, v \in Uids : (x.byRes[q] = v) = (map[v] = q)
  BY DEF Twins
<1>3. map \in [Uids -> Res \cup {None}] /\ x.byRes \in [Res -> Uids \cup {None}]
  BY DEF UidMaps
<1>4. to = [v \in Uids |-> IF v = u THEN r ELSE IF map[v] = r THEN None ELSE map[v]]
  BY DEF Repointed
<1>5. y = IF u = None \/ kept[u] = r
            THEN [uids |-> kept, byRes |-> mine]
            ELSE [uids |-> [kept EXCEPT ![u] = r],
                  byRes |-> [q \in Res |-> IF q = r THEN u ELSE IF q = kept[u] THEN None
                      ELSE mine[q]]]
  BY DEF SyncIndex
<1>6. old \in Uids \cup {None}
  BY <1>3
<1>7. kept \in [Uids -> Res \cup {None}]
      /\ \A v \in Uids : kept[v] = IF old # None /\ old # u /\ v = old THEN None ELSE map[v]
  BY <1>2, <1>3, <1>6
<1>8. mine \in [Res -> Uids \cup {None}]
      /\ \A q \in Res : mine[q] = IF q = r THEN IF old = u THEN u ELSE None ELSE x.byRes[q]
  BY <1>3, <1>6
<1>9. to \in [Uids -> Res \cup {None}]
      /\ \A v \in Uids : to[v] = IF v = u THEN r ELSE IF map[v] = r THEN None ELSE map[v]
  BY <1>3, <1>4
<1>10. \A v \in Uids : (old = v) = (map[v] = r)
  BY <1>2
<1> HIDE DEF old, kept, mine, y, to
<1>11. CASE u = None \/ kept[u] = r
  <2>1. y = [uids |-> kept, byRes |-> mine]
    BY <1>5, <1>11
  <2>2. \A v \in Uids : kept[v] = to[v]
    BY <1>1, <1>6, <1>7, <1>9, <1>10, <1>11
  <2>3. kept = to
    BY <1>7, <1>9, <2>2
  <2>4. ASSUME NEW q \in Res, NEW v \in Uids PROVE (mine[q] = v) = (to[v] = q)
    BY <1>1, <1>2, <1>6, <1>7, <1>8, <1>9, <1>10, <1>11
  <2> QED
    BY <1>7, <1>8, <1>9, <2>1, <2>3, <2>4 DEF Twins, UidMaps, y, to
<1>12. CASE u # None /\ kept[u] # r
  <2> DEFINE far  == [kept EXCEPT ![u] = r]
             back == [q \in Res |-> IF q = r THEN u ELSE IF q = kept[u] THEN None ELSE mine[q]]
  <2>1. y = [uids |-> far, byRes |-> back]
    BY <1>5, <1>12
  <2>2. u \in Uids
    BY <1>12
  <2>3. far \in [Uids -> Res \cup {None}] /\ \A v \in Uids : far[v] = IF v = u THEN r
            ELSE kept[v]
    BY <1>7
  <2>4. back \in [Res -> Uids \cup {None}]
        /\ \A q \in Res : back[q] = IF q = r THEN u ELSE IF q = kept[u] THEN None ELSE mine[q]
    BY <1>8
  <2> HIDE DEF far, back
  <2>5. \A v \in Uids : far[v] = to[v]
    BY <1>1, <1>6, <1>7, <1>9, <1>10, <2>3
  <2>6. far = to
    BY <1>9, <2>3, <2>5
  <2>7. ASSUME NEW q \in Res, NEW v \in Uids PROVE (back[q] = v) = (to[v] = q)
    BY <1>1, <1>2, <1>6, <1>7, <1>8, <1>9, <1>10, <1>12, <2>2, <2>4
  <2> QED
    BY <1>9, <2>1, <2>3, <2>4, <2>6, <2>7 DEF Twins, UidMaps, y, to
<1> QED
  BY <1>11, <1>12

(* A resource is given a uid, or loses the one it had: the maps stay       *)
(* mirrors, and the scenes that name either are read.                      *)
Moved(map, r, u) == {v \in Uids : map[v] = r} \cup ({u} \ {None})
LEMMA ApplyKeeps ==
  ASSUME NEW x, Sound(x), NEW r \in Res, NEW u \in Uids \cup {None}, NEW bad, DiskTyped
  PROVE  /\ Sound(ApplyUid(x, r, u, bad)) /\ ApplyUid(x, r, u, bad).uids = Repointed(x.uids, r,
              u)
         /\ \A s \in Scenes : ApplyUid(x, r, u, bad).scenes.stored[s] =
              IF /\ s \notin bad /\ disk[s] # None /\ x.scenes.stored[s] # None
                 /\ NamedIn(x.scenes.stored[s]) \cap Moved(x.uids, r, u) # {}
                THEN Stored(disk[s], Repointed(x.uids, r, u)) ELSE x.scenes.stored[s]
<1> DEFINE map   == Repointed(x.uids, r, u)
           moved == Moved(x.uids, r, u)
           old   == x.scenes
           S     == UNION {old.uidRefs[v] : v \in moved}
           y     == Reread(old, S, map, bad)
           ix    == SyncIndex(x.index, r, u)
<1>1. /\ x \in Sessions /\ old \in SceneMaps /\ x.uids \in UidMaps /\ Mirror(old) /\ DiskTyped
      /\ x.index \in [uids : UidMaps, byRes : [Res -> Uids \cup {None}]]
           /\ Twins(x.uids, x.index)
  BY DEF Sound, Sessions
<1>2. map \in UidMaps /\ ix \in [uids : UidMaps, byRes : [Res -> Uids \cup {None}]]
          /\ Twins(map, ix)
  BY <1>1, SyncKeeps
<1>3. moved \subseteq Uids
  BY ScenesAssumption DEF Moved
<1>4. ApplyUid(x, r, u, bad) = [uids |-> map, index |-> ix, scenes |-> y]
  BY DEF ApplyUid, Moved
<1>5. \A v \in Uids : old.uidRefs[v] = {s \in Holding(old) : v \in NamedIn(old.stored[s])}
  BY <1>1 DEF Mirror
<1> HIDE DEF map, moved, old, ix
<1>6. S \in SUBSET Scenes
      /\ \A s \in Scenes : s \in S <=> old.stored[s] # None
           /\ NamedIn(old.stored[s]) \cap moved # {}
  <2>1. \A v \in moved : old.uidRefs[v] = {s \in Holding(old) : v \in NamedIn(old.stored[s])}
    BY <1>3, <1>5
  <2>2. \A v \in moved : old.uidRefs[v] \subseteq Scenes
    BY <2>1 DEF Holding
  <2>3. \A s \in Scenes, v \in moved : s \in old.uidRefs[v]
            <=> old.stored[s] # None /\ v \in NamedIn(old.stored[s])
    BY <2>1 DEF Holding
  <2> QED
    BY <2>2, <2>3
<1> HIDE DEF S
<1>7. /\ y \in SceneMaps /\ Mirror(y)
      /\ \A s \in Scenes : y.stored[s] = IF s \in S \ bad
           /\ disk[s] # None THEN Stored(disk[s], map)
                                         ELSE old.stored[s]
  BY <1>1, <1>2, <1>6, RereadKeeps
<1> HIDE DEF y
<1>8. Sound(ApplyUid(x, r, u, bad))
  BY <1>2, <1>4, <1>7 DEF Sound, Sessions
<1>9. \A s \in Scenes : y.stored[s] =
        IF /\ s \notin bad /\ disk[s] # None /\ old.stored[s] # None
           /\ NamedIn(old.stored[s]) \cap moved # {}
          THEN Stored(disk[s], map) ELSE old.stored[s]
  BY <1>6, <1>7
<1> QED
  BY <1>4, <1>8, <1>9 DEF map, moved, old

-----------------------------------------------------------------------------
(* The scan gives a uid to the one resource that declares it.              *)
LEMMA ScanOne ==
  ASSUME DiskTyped, NEW bad
  PROVE  /\ ScanBut(bad) \in UidMaps
         /\ \A u \in Uids, r \in Res : ScanBut(bad)[u] = r => Declared(r) = u
<1>1. ScanBut(bad) = [u \in Uids |-> IF Cardinality(Claims(u) \ bad) = 1
                                     THEN CHOOSE r \in Res \ bad : Declared(r) = u ELSE None]
  BY DEF ScanBut
<1> DEFINE map == ScanBut(bad)
<1>2. ASSUME NEW u \in Uids
      PROVE  map[u] \in Res \cup {None} /\ (map[u] \in Res => Declared(map[u]) = u)
  <2>1. CASE Cardinality(Claims(u) \ bad) = 1
    <3>1. Claims(u) \ bad # {}
      BY <2>1, FS_EmptySet
    <3>2. \E r \in Res \ bad : Declared(r) = u
      BY <3>1 DEF Claims
    <3>3. map[u] = CHOOSE r \in Res \ bad : Declared(r) = u
      BY <1>1, <2>1
    <3> QED
      BY <3>2, <3>3
  <2>2. CASE Cardinality(Claims(u) \ bad) # 1
    <3>1. map[u] = None
      BY <1>1, <2>2
    <3> QED
      BY <3>1, ScenesAssumption
  <2> QED
    BY <2>1, <2>2
<1>3. map \in [Uids -> Res \cup {None}]
  BY <1>1, <1>2
<1> QED
  BY <1>2, <1>3 DEF UidMaps

LEMMA ScanWhole ==
  ASSUME DiskTyped
  PROVE  /\ Scan \in UidMaps
         /\ \A u \in Uids, r \in Res : Scan[u] = r => Declared(r) = u
BY ScanOne DEF Scan

(* With no uid claimed twice it is the declarations turned round.          *)
LEMMA ScanAll ==
  ASSUME DiskTyped, Contested = {}
  PROVE  \A u \in Uids, r \in Res : (Scan[u] = r) = (Declared(r) = u)
<1> SUFFICES ASSUME NEW u \in Uids, NEW r \in Res, Declared(r) = u PROVE Scan[u] = r
  BY ScanWhole
<1>1. Scan[u] = IF Cardinality(Claims(u)) = 1 THEN CHOOSE q \in Res : Declared(q) = u ELSE None
  <2>1. Claims(u) \ {} = Claims(u) /\ Res \ {} = Res
    OBVIOUS
  <2> QED
    BY <2>1 DEF Scan, ScanBut
<1>2. r \in Claims(u) /\ Claims(u) \subseteq Res
  BY DEF Claims
<1>3. IsFiniteSet(Claims(u))
  BY <1>2, ScenesAssumption, FS_Subset
<1>4. Cardinality(Claims(u)) \in Nat /\ Cardinality(Claims(u)) # 0
  BY <1>2, <1>3, FS_CardinalityType, FS_EmptySet
<1>5. ~(Cardinality(Claims(u)) > 1)
  BY DEF Contested
<1>6. Cardinality(Claims(u)) = 1
  BY <1>4, <1>5
<1>7. \A q \in Claims(u) : q = r
  BY <1>2, <1>3, <1>6, FS_Singleton
<1>8. \A q \in Res : Declared(q) = u => q = r
  BY <1>7 DEF Claims
<1> QED
  BY <1>1, <1>6, <1>8

LEMMA OneClaim ==
  ASSUME DiskTyped, Contested = {}, NEW r \in Res, NEW q \in Res, Declared(r) = Declared(q),
             Declared(r) # None
  PROVE  r = q
<1>1. Declared(r) \in Uids
  BY DeclaredType
<1> QED
  BY <1>1, ScanAll

(* A scan of the project: a map, its inverse, and the scenes that name     *)
(* uids read.                                                              *)
LEMMA ScannedKeeps ==
  ASSUME NEW x \in SceneMaps, Mirror(x), NEW bad, DiskTyped, Scanned(x, bad)
  PROVE  /\ Sound(Session') /\ uids' = ScanBut(bad)
         /\ \A s \in Scenes : scenes'.stored[s] =
              IF s \notin bad /\ disk[s] # None /\ x.stored[s] # None
                  /\ NamedIn(x.stored[s]) \cap Uids # {}
                THEN Stored(disk[s], ScanBut(bad)) ELSE x.stored[s]
<1> DEFINE map == ScanBut(bad)
           ix  == [uids |-> map, byRes |-> UidOf(map)]
           S   == UNION {x.uidRefs[u] : u \in Uids}
           y   == Reread(x, S, map, bad)
<1>1. uids' = map /\ index' = ix /\ scenes' = y
  BY DEF Scanned, Rescanned
<1>2. map \in UidMaps /\ \A u \in Uids, r \in Res : map[u] = r => Declared(r) = u
  BY ScanOne
<1>3. S \in SUBSET Scenes
      /\ \A s \in Scenes : s \in S <=> x.stored[s] # None /\ NamedIn(x.stored[s]) \cap Uids # {}
  <2>1. \A u \in Uids : x.uidRefs[u] = {s \in Holding(x) : u \in NamedIn(x.stored[s])}
    BY DEF Mirror
  <2>2. \A u \in Uids : x.uidRefs[u] \subseteq Scenes
    BY <2>1 DEF Holding
  <2>3. \A s \in Scenes, u \in Uids : s \in x.uidRefs[u]
            <=> x.stored[s] # None /\ u \in NamedIn(x.stored[s])
    BY <2>1 DEF Holding
  <2> QED
    BY <2>2, <2>3
<1> HIDE DEF map, S
<1>4. ix.uids = map /\ ix \in [uids : UidMaps, byRes : [Res -> Uids \cup {None}]]
      /\ \A r \in Res : ix.byRes[r] = IF \E u \in Uids : map[u] = r THEN CHOOSE u \in Uids :
           map[u] = r ELSE None
  BY <1>2 DEF UidOf
<1> HIDE DEF ix
<1>5. ASSUME NEW r \in Res, NEW u \in Uids PROVE (ix.byRes[r] = u) = (map[u] = r)
  <2>1. CASE \E v \in Uids : map[v] = r
    <3>1. ix.byRes[r] \in Uids /\ map[ix.byRes[r]] = r
      BY <1>4, <2>1
    <3> QED
      BY <1>2, <3>1
  <2>2. CASE ~\E v \in Uids : map[v] = r
    <3>1. ix.byRes[r] = None
      BY <1>4, <2>2
    <3> QED
      BY <2>2, <3>1, ScenesAssumption
  <2> QED
    BY <2>1, <2>2
<1>6. Twins(map, ix)
  BY <1>4, <1>5 DEF Twins
<1>7. x \in SceneMaps /\ Mirror(x) /\ DiskTyped
  OBVIOUS
<1>8. /\ y \in SceneMaps /\ Mirror(y)
      /\ \A s \in Scenes : y.stored[s] = IF s \in S \ bad
           /\ disk[s] # None THEN Stored(disk[s], map)
                                         ELSE x.stored[s]
  BY <1>2, <1>3, <1>7, RereadKeeps
<1> HIDE DEF y
<1>9. Session' = [uids |-> map, index |-> ix, scenes |-> y]
  BY <1>1 DEF Session
<1>10. Sound(Session')
  BY <1>2, <1>4, <1>6, <1>8, <1>9 DEF Sound, Sessions
<1> QED
  BY <1>1, <1>3, <1>8, <1>10 DEF map

-----------------------------------------------------------------------------
(* What the notices under way will do, in order: whatever is there again   *)
(* after it was removed is brought by a later notice.                      *)
Removes(n, r) == (n.kind = "delete" /\ n.path = r) \/ (n.kind = "rename" /\ n.from = r)
Brings(n, r)  == n.kind # "delete" /\ n.path = r
Waits(r)      == \E i \in DOMAIN notices : Removes(notices[i], r) \/ Brings(notices[i], r)
Order ==
  \A i \in DOMAIN notices, r \in Res :
    Removes(notices[i], r) =>
      disk[r] = None \/ \E j \in DOMAIN notices : j > i /\ Brings(notices[j], r)

(* A scene is right when it is what its file says under the map in use,    *)
(* and known when its stat is enough to tell whether it is.                *)
Right(x, s) == x.scenes.stored[s] = IF disk[s] = None THEN None ELSE Stored(disk[s], x.uids)
Known(x, s) == disk[s] = None \/ x.scenes.stored[s] = None \/ Right(x, s)
Cached(s) == \/ s \in stale.saved \/ disk[s] = None \/ saved[s] = None
           \/ \E map \in UidMaps : saved[s] = Stored(disk[s], map)
SceneInv ==
  "unread" \notin drift =>
    \A s \in Scenes : /\ Waits(s) \/ Right(Session, s)
                      /\ s \in stale.live \/ Known(Session, s)
                      /\ Cached(s)

(* The map is right about a resource when it names it as it declares.      *)
Named(x, r) == \A u \in Uids : (x.uids[u] = r) = (Declared(r) = u)
UidInv == /\ "contested" \notin drift => Contested = {}
          /\ drift = {} => \A r \in Res : Waits(r) \/ Named(Session, r)

ScenesInv == ScenesTypes /\ Sound(Session) /\ Order /\ SceneInv /\ UidInv

-----------------------------------------------------------------------------
(* Each part of a reaction, with every file readable, keeps the scenes     *)
(* right that were right and known that were known.                        *)
Keeps(x, y, s) == (Right(x, s) => Right(y, s)) /\ (Known(x, s) => Known(y, s))

LEMMA ReindexRight ==
  ASSUME NEW x, Sound(x), NEW p \in Res, DiskTyped, NEW s \in Scenes
  PROVE  Keeps(x, Reindexed(x, p, {}), s) /\ (s = p => Right(Reindexed(x, p, {}), s))
<1> DEFINE y == Reindexed(x, p, {})
<1>1. y.uids = x.uids
  BY ReindexKeeps
<1>2. y.scenes.stored[s] = IF s = p THEN IF disk[s] = None THEN None
          ELSE Stored(disk[s], x.uids)
                           ELSE x.scenes.stored[s]
  BY ReindexKeeps
<1> HIDE DEF y
<1>3. Keeps(x, y, s) /\ (s = p => Right(y, s))
  BY <1>1, <1>2 DEF Keeps, Right, Known
<1> QED
  BY <1>3 DEF y

LEMMA DropRight ==
  ASSUME NEW x, Sound(x), NEW p \in Res, NEW s \in Scenes
  PROVE  /\ s # p \/ disk[p] = None => Keeps(x, Dropped(x, p), s)
         /\ Known(x, s) => Known(Dropped(x, p), s)
         /\ s = p => Known(Dropped(x, p), s)
         /\ s = p /\ disk[p] = None => Right(Dropped(x, p), s)
<1> DEFINE y == Dropped(x, p)
<1>1. y.uids = x.uids /\ y.scenes.stored[s] = IF s = p THEN None ELSE x.scenes.stored[s]
  BY DropKeeps
<1> HIDE DEF y
<1>2. /\ s # p \/ disk[p] = None => Keeps(x, y, s)
      /\ Known(x, s) => Known(y, s)
      /\ s = p => Known(y, s)
      /\ s = p /\ disk[p] = None => Right(y, s)
  BY <1>1 DEF Keeps, Right, Known
<1> QED
  BY <1>2 DEF y

LEMMA ApplyRight ==
  ASSUME NEW x, Sound(x), NEW r \in Res, NEW u \in Uids \cup {None}, DiskTyped, NEW s \in Scenes
  PROVE  Keeps(x, ApplyUid(x, r, u, {}), s)
<1> DEFINE y     == ApplyUid(x, r, u, {})
           map   == Repointed(x.uids, r, u)
           moved == Moved(x.uids, r, u)
           hit   == NamedIn(x.scenes.stored[s]) \cap moved # {}
<1>1. y.uids = map
  BY ApplyKeeps
<1>2. y.scenes.stored[s] = IF disk[s] # None /\ x.scenes.stored[s] # None /\ hit
                             THEN Stored(disk[s], map) ELSE x.scenes.stored[s]
  BY ApplyKeeps
<1>3. \A v \in Uids \ moved : map[v] = x.uids[v]
  BY ScenesAssumption DEF Repointed, Moved
<1> HIDE DEF y, map
<1>4. ASSUME disk[s] # None, Right(x, s) PROVE Right(y, s)
  <2>1. x.scenes.stored[s] = Stored(disk[s], x.uids)
    BY <1>4 DEF Right
  <2>2. disk[s] \in SceneTexts
    BY <1>4 DEF DiskTyped, Content, Res
  <2>3. x.uids \in UidMaps
    BY DEF Sound, Sessions
  <2>4. x.scenes.stored[s] # None /\ x.scenes.stored[s].text = disk[s]
    BY <2>1, <2>2, <2>3, StoredType
  <2>5. CASE hit
    BY <1>1, <1>2, <1>4, <2>4, <2>5 DEF Right
  <2>6. CASE ~hit
    <3>1. \A v \in UidsOf(disk[s]) : v \in Uids \ moved
      BY <2>4, <2>6 DEF NamedIn, UidsOf
    <3>2. \A v \in UidsOf(disk[s]) : x.uids[v] = map[v]
      BY <1>3, <3>1
    <3>3. Stored(disk[s], x.uids) = Stored(disk[s], map)
      BY <2>2, <3>2, StoredSame
    <3>4. y.scenes.stored[s] = x.scenes.stored[s]
      BY <1>2, <2>6
    <3> QED
      BY <1>1, <1>4, <2>1, <3>3, <3>4 DEF Right
  <2> QED
    BY <2>5, <2>6
<1>5. ASSUME disk[s] = None PROVE y.scenes.stored[s] = x.scenes.stored[s]
  BY <1>2, <1>5
<1>6. ASSUME x.scenes.stored[s] = None PROVE y.scenes.stored[s] = None
  BY <1>2, <1>6
<1>7. Right(x, s) => Right(y, s)
  BY <1>4, <1>5 DEF Right
<1>8. Known(x, s) => Known(y, s)
  BY <1>6, <1>7 DEF Known
<1>9. Keeps(x, y, s)
  BY <1>7, <1>8 DEF Keeps
<1> QED
  BY <1>9 DEF y

(* And the map right about the resources that declare another uid.         *)
LEMMA ApplyNamed ==
  ASSUME NEW x, Sound(x), NEW r \in Res, NEW u \in Uids \cup {None}, DiskTyped, NEW q \in Res
  PROVE  /\ q # r /\ (u = None \/ Declared(q) # u) /\ Named(x, q) =>
              Named(ApplyUid(x, r, u, {}), q)
         /\ q = r /\ Declared(r) = u => Named(ApplyUid(x, r, u, {}), q)
<1> DEFINE y == ApplyUid(x, r, u, {})
<1>1. y.uids = Repointed(x.uids, r, u)
  BY ApplyKeeps
<1> HIDE DEF y
<1>2. \A v \in Uids : y.uids[v] = IF v = u THEN r ELSE IF x.uids[v] = r THEN None ELSE x.uids[v]
  BY <1>1 DEF Repointed
<1>3. None \notin Uids /\ None \notin Res
  BY ScenesAssumption
<1>4. ASSUME q # r, u = None \/ Declared(q) # u, Named(x, q) PROVE Named(y, q)
  BY <1>2, <1>3, <1>4 DEF Named
<1>5. ASSUME q = r, Declared(r) = u PROVE Named(y, q)
  BY <1>2, <1>3, <1>5 DEF Named
<1> QED
  BY <1>4, <1>5 DEF y

-----------------------------------------------------------------------------
(* A reaction keeps the maps mirrors, whatever it cannot read.             *)
LEMMA ReactionKeeps ==
  ASSUME NEW n \in Notices, NEW bad, DiskTyped, Sound(Session)
  PROVE  Sound(Reaction(n, bad))
<1>1. n.path \in Res /\ n.from \in Res /\ n.kind \in {"write", "delete", "rename"}
  BY DEF Notices
<1>2. /\ \A r \in Res : (IF r \in bad THEN None ELSE Declared(r)) \in Uids \cup {None}
      /\ None \in Uids \cup {None}
  BY DeclaredType
<1>3. \A x : \A r \in Res : Sound(x) => Sound(SyncUid(x, r, bad)) /\ Sound(DropUid(x, r, bad))
  BY <1>2, ApplyKeeps DEF SyncUid, DropUid
<1>4. \A x : \A r \in Res : Sound(x) => Sound(Reindexed(x, r, bad)) /\ Sound(Dropped(x, r))
  BY ReindexKeeps, DropKeeps
<1>5. CASE n.kind = "write"
  <2>1. Reaction(n, bad) = SyncUid(Reindexed(Session, n.path, bad), n.path, bad)
    BY <1>5 DEF Reaction
  <2> QED
    BY <1>1, <1>3, <1>4, <2>1
<1>6. CASE n.kind = "delete"
  <2>1. Reaction(n, bad) = DropUid(Dropped(Session, n.path), n.path, bad)
    BY <1>6 DEF Reaction
  <2> QED
    BY <1>1, <1>3, <1>4, <2>1
<1>7. CASE n.kind = "rename"
  <2>1. Reaction(n, bad) =
          SyncUid(DropUid(Reindexed(Dropped(Session, n.from), n.path, bad), n.from, bad),
              n.path, bad)
    BY <1>7 DEF Reaction
  <2> QED
    BY <1>1, <1>3, <1>4, <2>1
<1> QED
  BY <1>1, <1>5, <1>6, <1>7

(* With every file readable, the scene it brings is right, and so is every *)
(* other that was right and every one that is gone.                        *)
LEMMA ReactionRight ==
  ASSUME NEW n \in Notices, DiskTyped, Sound(Session), NEW s \in Scenes
  PROVE  /\ Brings(n, s) => Right(Reaction(n, {}), s)
         /\ Removes(n, s) /\ disk[s] = None => Right(Reaction(n, {}), s)
         /\ ~Removes(n, s) /\ Right(Session, s) => Right(Reaction(n, {}), s)
         /\ Known(Session, s) => Known(Reaction(n, {}), s)
<1> DEFINE y == Reaction(n, {})
<1>1. n.path \in Res /\ n.from \in Res /\ n.kind \in {"write", "delete", "rename"}
      /\ (n.kind = "rename" => n.from # n.path)
  BY DEF Notices
<1>2. /\ \A r \in Res : (IF r \in {} THEN None ELSE Declared(r)) \in Uids \cup {None}
      /\ None \in Uids \cup {None}
  BY DeclaredType
<1>3. \A x : \A r \in Res : Sound(x) => /\ Sound(SyncUid(x, r, {})) /\ Sound(DropUid(x, r, {}))
                                        /\ Keeps(x, SyncUid(x, r, {}), s)
                                             /\ Keeps(x, DropUid(x, r, {}), s)
  BY <1>2, ApplyKeeps, ApplyRight DEF SyncUid, DropUid
<1>4. \A x : \A r \in Res : Sound(x) => Sound(Reindexed(x, r, {})) /\ Sound(Dropped(x, r))
  BY ReindexKeeps, DropKeeps
<1>5. \A x : \A r \in Res : Sound(x) => /\ Keeps(x, Reindexed(x, r, {}), s)
                                        /\ s = r => Right(Reindexed(x, r, {}), s)
  BY ReindexRight
<1>6. \A x : \A r \in Res : Sound(x) => /\ s # r \/ disk[r] = None => Keeps(x, Dropped(x, r), s)
                                        /\ Known(x, s) => Known(Dropped(x, r), s)
                                        /\ s = r /\ disk[r] = None => Right(Dropped(x, r), s)
  BY DropRight
<1>7. CASE n.kind = "write"
  <2> DEFINE x == Reindexed(Session, n.path, {})
  <2>1. y = SyncUid(x, n.path, {})
    BY <1>7 DEF Reaction
  <2>2. Sound(x) /\ Keeps(Session, x, s) /\ (s = n.path => Right(x, s))
    <3> DEFINE p == n.path
    <3>1. p \in Res
      BY <1>1
    <3> HIDE DEF p
    <3>2. Sound(Reindexed(Session, p, {}))
      BY <1>4, <3>1
    <3>3. Keeps(Session, Reindexed(Session, p, {}), s)
              /\ (s = p => Right(Reindexed(Session, p, {}), s))
      BY <1>5, <3>1
    <3> QED
      BY <3>2, <3>3 DEF p
  <2> HIDE DEF x, y
  <2>3. Keeps(x, y, s)
    BY <1>1, <1>3, <2>1, <2>2
  <2>4. ~Removes(n, s) /\ (Brings(n, s) => s = n.path)
    BY <1>7 DEF Removes, Brings
  <2>5. /\ Brings(n, s) => Right(y, s)
        /\ Removes(n, s) /\ disk[s] = None => Right(y, s)
        /\ ~Removes(n, s) /\ Right(Session, s) => Right(y, s)
        /\ Known(Session, s) => Known(y, s)
    BY <2>2, <2>3, <2>4 DEF Keeps
  <2> QED
    BY <2>5 DEF y
<1>8. CASE n.kind = "delete"
  <2> DEFINE x == Dropped(Session, n.path)
  <2>1. y = DropUid(x, n.path, {})
    BY <1>8 DEF Reaction
  <2>2. /\ Sound(x) /\ (s # n.path => Keeps(Session, x, s))
             /\ (Known(Session, s) => Known(x, s))
        /\ (s = n.path /\ disk[s] = None => Right(x, s))
    BY <1>1, <1>4, <1>6
  <2> HIDE DEF x, y
  <2>3. Keeps(x, y, s)
    BY <1>1, <1>3, <2>1, <2>2
  <2>4. ~Brings(n, s) /\ (Removes(n, s) <=> s = n.path)
    BY <1>8 DEF Removes, Brings
  <2>5. /\ Brings(n, s) => Right(y, s)
        /\ Removes(n, s) /\ disk[s] = None => Right(y, s)
        /\ ~Removes(n, s) /\ Right(Session, s) => Right(y, s)
        /\ Known(Session, s) => Known(y, s)
    BY <2>2, <2>3, <2>4 DEF Keeps
  <2> QED
    BY <2>5 DEF y
<1>9. CASE n.kind = "rename"
  <2> DEFINE a == Dropped(Session, n.from)
             b == Reindexed(a, n.path, {})
             x == DropUid(b, n.from, {})
  <2>1. y = SyncUid(x, n.path, {})
    BY <1>9 DEF Reaction
  <2>2. /\ Sound(a) /\ (s # n.from => Keeps(Session, a, s))
             /\ (Known(Session, s) => Known(a, s))
        /\ (s = n.from /\ disk[s] = None => Right(a, s))
    BY <1>1, <1>4, <1>6
  <2> HIDE DEF a, y
  <2>3. Sound(b) /\ Keeps(a, b, s) /\ (s = n.path => Right(b, s))
    BY <1>1, <1>4, <1>5, <2>2
  <2> HIDE DEF b
  <2>4. Sound(x) /\ Keeps(b, x, s)
    BY <1>1, <1>3, <2>3
  <2> HIDE DEF x
  <2>5. Keeps(x, y, s)
    BY <1>1, <1>3, <2>1, <2>4
  <2>6. (Brings(n, s) <=> s = n.path) /\ (Removes(n, s) <=> s = n.from)
    BY <1>9 DEF Removes, Brings
  <2>7. /\ Brings(n, s) => Right(y, s)
        /\ Removes(n, s) /\ disk[s] = None => Right(y, s)
        /\ ~Removes(n, s) /\ Right(Session, s) => Right(y, s)
        /\ Known(Session, s) => Known(y, s)
    BY <2>2, <2>3, <2>4, <2>5, <2>6 DEF Keeps
  <2> QED
    BY <2>7 DEF y
<1> QED
  BY <1>1, <1>7, <1>8, <1>9

(* With no uid claimed twice, the map it leaves is right about what it     *)
(* brings, about what is gone, and about everything it was right about.    *)
LEMMA ReactionNamed ==
  ASSUME NEW n \in Notices, DiskTyped, Sound(Session), Contested = {}, NEW q \in Res
  PROVE  /\ Brings(n, q) => Named(Reaction(n, {}), q)
         /\ Removes(n, q) /\ disk[q] = None => Named(Reaction(n, {}), q)
         /\ ~Removes(n, q) /\ Named(Session, q) => Named(Reaction(n, {}), q)
<1> DEFINE y == Reaction(n, {})
<1>1. n.path \in Res /\ n.from \in Res /\ n.kind \in {"write", "delete", "rename"}
      /\ (n.kind = "rename" => n.from # n.path)
  BY DEF Notices
<1>2. \A r \in Res : Declared(r) \in Uids \cup {None}
  BY DeclaredType
<1>3. \A r \in Res : q # r => Declared(r) = None \/ Declared(q) # Declared(r)
  BY OneClaim
<1>4. ASSUME NEW x, Sound(x), NEW r \in Res
      PROVE  /\ Sound(SyncUid(x, r, {})) /\ Sound(DropUid(x, r, {}))
             /\ q # r /\ Named(x, q) => Named(SyncUid(x, r, {}), q)
                  /\ Named(DropUid(x, r, {}), q)
             /\ q = r => Named(SyncUid(x, r, {}), q)
             /\ q = r /\ Declared(q) = None => Named(DropUid(x, r, {}), q)
  <2>1. SyncUid(x, r, {}) = ApplyUid(x, r, Declared(r), {})
            /\ DropUid(x, r, {}) = ApplyUid(x, r, None, {})
    BY DEF SyncUid, DropUid
  <2>2. Declared(r) \in Uids \cup {None} /\ None \in Uids \cup {None}
    BY <1>2
  <2>3. Sound(SyncUid(x, r, {})) /\ Sound(DropUid(x, r, {}))
    <3>1. \A u \in Uids \cup {None} : Sound(ApplyUid(x, r, u, {}))
      BY <1>4, ApplyKeeps
    <3> QED
      BY <2>1, <2>2, <3>1
  <2>4. /\ q # r /\ Named(x, q) => Named(SyncUid(x, r, {}), q)
        /\ q = r => Named(SyncUid(x, r, {}), q)
    BY <1>3, <1>4, <2>1, <2>2, ApplyNamed
  <2>5. /\ q # r /\ Named(x, q) => Named(DropUid(x, r, {}), q)
        /\ q = r /\ Declared(q) = None => Named(DropUid(x, r, {}), q)
    BY <1>4, <2>1, <2>2, ApplyNamed
  <2> QED
    BY <2>3, <2>4, <2>5
<1>5. \A x : \A r \in Res : Sound(x) =>
        /\ Sound(Reindexed(x, r, {})) /\ Reindexed(x, r, {}).uids = x.uids
        /\ Sound(Dropped(x, r)) /\ Dropped(x, r).uids = x.uids
  BY ReindexKeeps, DropKeeps
<1>6. disk[q] = None => Declared(q) = None
  BY DEF Declared
<1>7. CASE n.kind = "write"
  <2> DEFINE x == Reindexed(Session, n.path, {})
  <2>1. y = SyncUid(x, n.path, {})
    BY <1>7 DEF Reaction
  <2>2. Sound(x) /\ x.uids = Session.uids
    BY <1>1, <1>5
  <2> HIDE DEF x, y
  <2>3. Named(Session, q) => Named(x, q)
    BY <2>2 DEF Named
  <2>4. ~Removes(n, q) /\ (Brings(n, q) => q = n.path)
    BY <1>7 DEF Removes, Brings
  <2>5. (q = n.path => Named(y, q)) /\ (q # n.path /\ Named(x, q) => Named(y, q))
    BY <1>1, <1>4, <2>1, <2>2
  <2> QED
    BY <2>3, <2>4, <2>5 DEF y
<1>8. CASE n.kind = "delete"
  <2> DEFINE x == Dropped(Session, n.path)
  <2>1. y = DropUid(x, n.path, {})
    BY <1>8 DEF Reaction
  <2>2. Sound(x) /\ x.uids = Session.uids
    BY <1>1, <1>5
  <2> HIDE DEF x, y
  <2>3. Named(Session, q) => Named(x, q)
    BY <2>2 DEF Named
  <2>4. ~Brings(n, q) /\ (Removes(n, q) <=> q = n.path)
    BY <1>8 DEF Removes, Brings
  <2>5. /\ q = n.path /\ disk[q] = None => Named(y, q)
        /\ q # n.path /\ Named(x, q) => Named(y, q)
    BY <1>1, <1>4, <1>6, <2>1, <2>2
  <2> QED
    BY <2>3, <2>4, <2>5 DEF y
<1>9. CASE n.kind = "rename"
  <2> DEFINE a == Dropped(Session, n.from)
             b == Reindexed(a, n.path, {})
             x == DropUid(b, n.from, {})
  <2>1. y = SyncUid(x, n.path, {})
    BY <1>9 DEF Reaction
  <2>2. Sound(a) /\ a.uids = Session.uids
    BY <1>1, <1>5
  <2> HIDE DEF a, y
  <2>3. Sound(b) /\ b.uids = Session.uids
    BY <1>1, <1>5, <2>2
  <2> HIDE DEF b
  <2>4. Named(Session, q) => Named(b, q)
    BY <2>3 DEF Named
  <2>5. /\ Sound(x) /\ (q = n.from /\ disk[q] = None => Named(x, q))
        /\ (q # n.from /\ Named(b, q) => Named(x, q))
    BY <1>1, <1>4, <1>6, <2>3
  <2> HIDE DEF x
  <2>6. (q = n.path => Named(y, q)) /\ (q # n.path /\ Named(x, q) => Named(y, q))
    BY <1>1, <1>4, <2>1, <2>5
  <2>7. (Brings(n, q) <=> q = n.path) /\ (Removes(n, q) <=> q = n.from)
    BY <1>9 DEF Removes, Brings
  <2> QED
    BY <2>4, <2>5, <2>6, <2>7 DEF y
<1> QED
  BY <1>1, <1>7, <1>8, <1>9

-----------------------------------------------------------------------------
(* A walk over the scenes reads those whose stat moved.                    *)
LEMMA ReconciledKeeps ==
  ASSUME NEW x \in SceneMaps, Mirror(x), NEW old, NEW map \in UidMaps, NEW bad, DiskTyped
  PROVE  /\ Reconciled(x, old, map, bad) \in SceneMaps /\ Mirror(Reconciled(x, old, map, bad))
         /\ \A s \in Scenes : Reconciled(x, old, map, bad).stored[s] =
              IF disk[s] = None THEN None
              ELSE IF s \notin bad /\ (x.stored[s] = None
                  \/ s \in old) THEN Stored(disk[s], map)
              ELSE x.stored[s]
<1> DEFINE S    == {s \in Scenes : x.stored[s] = None \/ s \in old}
           read == Reread(x, S, map, bad)
           G    == {r \in Scenes : disk[r] = None}
<1>1. Reconciled(x, old, map, bad) = Without(read, G)
  BY DEF Reconciled, Without
<1>2. S \in SUBSET Scenes /\ \A s \in Scenes : s \in S <=> x.stored[s] = None \/ s \in old
  OBVIOUS
<1>3. G \in SUBSET Scenes /\ \A s \in Scenes : s \in G <=> disk[s] = None
  OBVIOUS
<1> HIDE DEF S, G
<1>4. /\ read \in SceneMaps /\ Mirror(read)
      /\ \A s \in Scenes : read.stored[s] = IF s \in S \ bad
           /\ disk[s] # None THEN Stored(disk[s], map)
                                            ELSE x.stored[s]
  BY <1>2, RereadKeeps
<1> HIDE DEF read
<1>5. /\ Without(read, G) \in SceneMaps /\ Mirror(Without(read, G))
      /\ \A s \in Scenes : Without(read, G).stored[s] = IF s \in G THEN None ELSE read.stored[s]
  BY <1>3, <1>4, ClearKeeps
<1> QED
  BY <1>1, <1>2, <1>3, <1>4, <1>5

(* It starts from no scene.                                                *)
LEMMA NoScenesSound == NoScenes \in SceneMaps /\ Mirror(NoScenes)
                           /\ \A s \in Scenes : NoScenes.stored[s] = None
<1>1. /\ NoScenes.stored = [s \in Scenes |-> None] /\ NoScenes.attach = [r \in Res |-> {}]
      /\ NoScenes.instance = [r \in Res |-> {}] /\ NoScenes.uidRefs = [u \in Uids |-> {}]
  BY DEF NoScenes
<1>2. NoScenes \in SceneMaps
  BY DEF NoScenes, SceneMaps, ScenesOf
<1>3. Holding(NoScenes) = {}
  BY <1>1 DEF Holding
<1> QED
  BY <1>1, <1>2, <1>3 DEF Mirror

LEMMA ScenesStart == ScenesInit => ScenesInv
<1> SUFFICES ASSUME ScenesInit PROVE ScenesInv
  OBVIOUS
<1>1. DiskTyped
  BY DEF ScenesInit, DiskTyped
<1>2. Contested = {} /\ notices = <<>> /\ drift = {} /\ uids = Scan
      /\ index = [uids |-> Scan, byRes |-> [r \in Res |-> Declared(r)]]
      /\ saved = scenes.stored /\ stale = [live |-> {}, saved |-> {}]
  BY DEF ScenesInit
<1>3. Scan \in UidMaps /\ \A u \in Uids, r \in Res : (Scan[u] = r) = (Declared(r) = u)
  BY <1>1, <1>2, ScanWhole, ScanAll
<1>4. scenes = Reread(NoScenes, Scenes, Scan, {})
  <2>1. Existing(Scenes, {}) = {s \in Scenes : disk[s] # None}
    BY DEF Existing
  <2> QED
    BY DEF ScenesInit, Reread
<1>5. Scenes \in SUBSET Scenes
  OBVIOUS
<1>6. /\ scenes \in SceneMaps /\ Mirror(scenes)
      /\ \A s \in Scenes : scenes.stored[s] = IF s \in Scenes \ {} /\ disk[s] # None
                                                THEN Stored(disk[s], Scan)
                                                    ELSE NoScenes.stored[s]
  <2> DEFINE x == NoScenes  map == Scan  S == Scenes
  <2>1. /\ x \in SceneMaps /\ Mirror(x) /\ S \in SUBSET Scenes /\ map \in UidMaps /\ DiskTyped
        /\ scenes = Reread(x, S, map, {})
    BY <1>1, <1>3, <1>4, <1>5, NoScenesSound
  <2> HIDE DEF x, map, S
  <2>2. /\ scenes \in SceneMaps /\ Mirror(scenes)
        /\ \A s \in Scenes : scenes.stored[s] = IF s \in S \ {} /\ disk[s] # None
                                                  THEN Stored(disk[s], map) ELSE x.stored[s]
    BY <2>1, RereadKeeps
  <2> QED
    BY <2>2 DEF x, map, S
<1>7. \A s \in Scenes : scenes.stored[s] = IF disk[s] = None THEN None
          ELSE Stored(disk[s], Scan)
  BY <1>6, NoScenesSound
<1>8. index \in [uids : UidMaps, byRes : [Res -> Uids \cup {None}]] /\ Twins(uids, index)
  <2>1. \A r \in Res : Declared(r) \in Uids \cup {None}
    BY <1>1, DeclaredType
  <2> QED
    BY <1>2, <1>3, <2>1 DEF Twins
<1>9. Session = [uids |-> uids, index |-> index, scenes |-> scenes]
  BY DEF Session
<1>10. Sound(Session)
  BY <1>2, <1>3, <1>6, <1>8, <1>9 DEF Sound, Sessions
<1>11. saved \in ScenesOf
  BY <1>2, <1>6 DEF SceneMaps
<1>12. ScenesTypes
  BY <1>1, <1>2, <1>11 DEF ScenesTypes
<1>13. Order
  BY <1>2 DEF Order
<1>14. \A s \in Scenes : Right(Session, s) /\ Known(Session, s) /\ Cached(s)
  BY <1>2, <1>3, <1>7, <1>9 DEF Right, Known, Cached
<1>15. \A r \in Res : Named(Session, r)
  BY <1>2, <1>3, <1>9 DEF Named
<1>16. SceneInv /\ UidInv
  BY <1>2, <1>14, <1>15 DEF SceneInv, UidInv
<1> QED
  BY <1>10, <1>12, <1>13, <1>16 DEF ScenesInv

-----------------------------------------------------------------------------
(* A change of the disk: what changed is gone, or brought by its notice.   *)
LEMMA WritesKeep ==
  ASSUME ScenesInv, NEW n \in Notices, Writes(n), DiskTyped',
         \A r \in Res : disk'[r] # disk[r] =>
             Brings(n, r) \/ (disk'[r] = None /\ Removes(n, r)),
         \A r \in Res : Removes(n, r) => disk'[r] = None
  PROVE  ScenesInv'
<1>1. /\ ScenesTypes /\ Sound(Session) /\ Order /\ SceneInv /\ UidInv
  BY DEF ScenesInv
<1>2. /\ notices \in Seq(Notices) /\ notices' = Append(notices, n)
      /\ Len(notices) \in Nat /\ DOMAIN notices = 1..Len(notices)
      /\ DOMAIN notices' = 1..(Len(notices) + 1)
      /\ \A i \in DOMAIN notices : notices'[i] = notices[i]
      /\ notices'[Len(notices) + 1] = n
  BY <1>1 DEF ScenesTypes, Writes
<1>3. notices' \in Seq(Notices)
  BY <1>2
<1>4. /\ stale \in [live : SUBSET Scenes, saved : SUBSET Scenes]
      /\ stale' = [live |-> stale.live \cup ({n.path} \cap Scenes),
                   saved |-> stale.saved \cup ({n.path} \cap Scenes)]
  BY <1>1 DEF ScenesTypes, Writes
<1>5. /\ uids' = uids /\ index' = index /\ scenes' = scenes /\ saved' = saved
      /\ drift' = IF Contested' = {} THEN drift ELSE drift \cup {"contested"}
  BY DEF Writes
<1>6. Session' = Session
  BY <1>5 DEF Session
<1>7. ScenesTypes'
  <2>1. saved \in ScenesOf /\ drift \subseteq {"lost", "contested", "unread"}
    BY <1>1 DEF ScenesTypes
  <2>2. drift' \subseteq {"lost", "contested", "unread"}
    BY <1>5, <2>1
  <2>3. stale' \in [live : SUBSET Scenes, saved : SUBSET Scenes]
    BY <1>4
  <2> QED
    BY <1>3, <1>5, <2>1, <2>2, <2>3 DEF ScenesTypes
<1>8. Order'
  <2> SUFFICES ASSUME NEW i \in DOMAIN notices', NEW r \in Res, Removes(notices'[i], r),
                          disk'[r] # None
               PROVE  \E j \in DOMAIN notices' : j > i /\ Brings(notices'[j], r)
    BY DEF Order, Removes, Brings
  <2>1. i \in DOMAIN notices
    BY <1>2
  <2>2. Removes(notices[i], r)
    BY <1>2, <2>1
  <2>3. CASE disk[r] = None
    <3>1. Brings(n, r)
      BY <2>3
    <3> QED
      BY <1>2, <2>1, <3>1
  <2>4. CASE disk[r] # None
    <3>1. PICK j \in DOMAIN notices : j > i /\ Brings(notices[j], r)
      BY <1>1, <2>1, <2>2, <2>4 DEF Order
    <3> QED
      BY <1>2, <3>1
  <2> QED
    BY <2>3, <2>4
<1>9. /\ \A r \in Res : Waits(r) => Waits(r)'
      /\ \A r \in Res : disk'[r] # disk[r] => Waits(r)'
  <2>1. ASSUME NEW r \in Res, Waits(r) PROVE Waits(r)'
    <3>1. PICK i \in DOMAIN notices : Removes(notices[i], r) \/ Brings(notices[i], r)
      BY <2>1 DEF Waits
    <3>2. i \in DOMAIN notices' /\ notices'[i] = notices[i]
      BY <1>2
    <3>3. Removes(notices'[i], r) \/ Brings(notices'[i], r)
      BY <3>1, <3>2
    <3>4. \E k \in DOMAIN notices' : Removes(notices'[k], r) \/ Brings(notices'[k], r)
      BY <3>2, <3>3
    <3> QED
      BY <3>4 DEF Waits, Removes, Brings
  <2>2. ASSUME NEW r \in Res, disk'[r] # disk[r] PROVE Waits(r)'
    <3>1. Removes(n, r) \/ Brings(n, r)
      BY <2>2
    <3>2. Len(notices) + 1 \in DOMAIN notices'
      BY <1>2
    <3>3. \E k \in DOMAIN notices' : Removes(notices'[k], r) \/ Brings(notices'[k], r)
      BY <1>2, <3>1, <3>2
    <3> QED
      BY <3>3 DEF Waits, Removes, Brings
  <2> QED
    BY <2>1, <2>2
<1>10. SceneInv'
  <2> SUFFICES ASSUME "unread" \notin drift', NEW s \in Scenes
               PROVE  /\ Waits(s)' \/ Right(Session, s)'
                      /\ s \in stale'.live \/ Known(Session, s)'
                      /\ Cached(s)'
    BY DEF SceneInv
  <2>1. /\ Waits(s) \/ Right(Session, s)
        /\ s \in stale.live \/ Known(Session, s)
        /\ Cached(s)
    BY <1>1, <1>5 DEF SceneInv
  <2>2. s \in Res
    BY DEF Res
  <2>3. CASE disk'[s] = disk[s]
    <3>1. (Right(Session, s)' <=> Right(Session, s))
              /\ (Known(Session, s)' <=> Known(Session, s))
      BY <1>6, <2>3 DEF Right, Known
    <3>2. Cached(s)'
      BY <1>4, <1>5, <2>1, <2>3 DEF Cached
    <3> QED
      BY <1>4, <1>9, <2>1, <2>2, <3>1, <3>2
  <2>4. CASE disk'[s] # disk[s]
    <3>1. Waits(s)'
      BY <1>9, <2>2, <2>4
    <3>2. disk'[s] = None \/ n.path = s
      BY <2>2, <2>4 DEF Brings
    <3>3. disk'[s] = None \/ (s \in stale'.live /\ s \in stale'.saved)
      BY <1>4, <3>2
    <3> QED
      BY <3>1, <3>3 DEF Known, Cached
  <2> QED
    BY <2>3, <2>4
<1>11. UidInv'
  <2>1. "contested" \notin drift' => Contested' = {}
    BY <1>5
  <2>2. ASSUME drift' = {}, NEW r \in Res PROVE Waits(r)' \/ Named(Session, r)'
    <3>1. Waits(r) \/ Named(Session, r)
      BY <1>1, <1>5, <2>2 DEF UidInv
    <3>2. CASE disk'[r] = disk[r]
      <4>1. Declared(r)' = Declared(r)
        BY <3>2 DEF Declared
      <4>2. Named(Session, r)' <=> Named(Session, r)
        BY <1>6, <4>1 DEF Named
      <4> QED
        BY <1>9, <3>1, <4>2
    <3> QED
      BY <1>9, <3>2
  <2> QED
    BY <2>1, <2>2 DEF UidInv
<1> QED
  BY <1>1, <1>6, <1>7, <1>8, <1>10, <1>11 DEF ScenesInv

LEMMA WriteSteps ==
  ASSUME ScenesInv, NEW p \in Res
  PROVE  /\ WriteFile(p) => ScenesInv'
         /\ DeleteFile(p) => ScenesInv'
         /\ \A q \in Res : RenameFile(p, q) => ScenesInv'
<1>1. DiskTyped /\ disk \in [Res -> SceneTexts \cup Uids \cup {None}]
      /\ \A r \in Res : disk[r] \in Content(r) \cup {None}
  BY DEF ScenesInv, ScenesTypes, DiskTyped
<1>2. \A r \in Res : Content(r) \subseteq SceneTexts \cup Uids
  BY DEF Content
<1>3. ASSUME WriteFile(p) PROVE ScenesInv'
  <2> DEFINE n == Notice("write", p, p)
  <2>1. n \in Notices /\ n.kind = "write" /\ n.path = p
    BY DEF Notice, Notices
  <2>2. PICK c \in Content(p) \ {disk[p]} : disk' = [disk EXCEPT ![p] = c]
    BY <1>3 DEF WriteFile
  <2>3. Writes(n)
    BY <1>3 DEF WriteFile
  <2> HIDE DEF n
  <2>4. DiskTyped'
    BY <1>1, <1>2, <2>2 DEF DiskTyped, Content
  <2>5. /\ \A r \in Res : disk'[r] # disk[r] =>
             Brings(n, r) \/ (disk'[r] = None /\ Removes(n, r))
        /\ \A r \in Res : Removes(n, r) => disk'[r] = None
    <3>1. \A r \in Res : disk'[r] = IF r = p THEN c ELSE disk[r]
      BY <1>1, <2>2
    <3> QED
      BY <2>1, <3>1 DEF Brings, Removes
  <2> QED
    BY <2>1, <2>3, <2>4, <2>5, WritesKeep
<1>4. ASSUME DeleteFile(p) PROVE ScenesInv'
  <2> DEFINE n == Notice("delete", p, p)
  <2>1. n \in Notices /\ n.kind = "delete" /\ n.path = p
    BY DEF Notice, Notices
  <2>2. disk' = [disk EXCEPT ![p] = None] /\ Writes(n)
    BY <1>4 DEF DeleteFile
  <2> HIDE DEF n
  <2>4. DiskTyped'
    BY <1>1, <1>2, <2>2 DEF DiskTyped, Content
  <2>5. /\ \A r \in Res : disk'[r] # disk[r] =>
             Brings(n, r) \/ (disk'[r] = None /\ Removes(n, r))
        /\ \A r \in Res : Removes(n, r) => disk'[r] = None
    <3>1. \A r \in Res : disk'[r] = IF r = p THEN None ELSE disk[r]
      BY <1>1, <2>2
    <3> QED
      BY <2>1, <3>1 DEF Brings, Removes
  <2> QED
    BY <2>1, <2>2, <2>4, <2>5, WritesKeep
<1>5. ASSUME NEW q \in Res, RenameFile(p, q) PROVE ScenesInv'
  <2> DEFINE n == Notice("rename", p, q)
  <2>1. p # q /\ disk[p] # None /\ Content(p) = Content(q)
    <3>1. p # q /\ disk[p] # None /\ ({p, q} \subseteq Scenes \/ {p, q} \subseteq Scripts)
      BY <1>5 DEF RenameFile
    <3>2. (p \in Scenes /\ q \in Scenes) \/ (p \in Scripts /\ q \in Scripts)
      BY <3>1
    <3>3. p \in Scenes <=> q \in Scenes
      BY <3>2, ScenesAssumption
    <3> QED
      BY <3>1, <3>3 DEF Content
  <2>2. n \in Notices /\ n.kind = "rename" /\ n.from = p /\ n.path = q
    BY <2>1 DEF Notice, Notices
  <2>3. disk' = [disk EXCEPT ![q] = disk[p], ![p] = None] /\ Writes(n)
    BY <1>5 DEF RenameFile
  <2> HIDE DEF n
  <2>4. disk' \in [Res -> SceneTexts \cup Uids \cup {None}]
        /\ \A r \in Res : disk'[r] = IF r = p THEN None ELSE IF r = q THEN disk[p] ELSE disk[r]
    BY <1>1, <2>1, <2>3
  <2>5. \A r \in Res : disk'[r] \in Content(r) \cup {None}
    BY <1>1, <2>1, <2>4
  <2>6. DiskTyped'
    BY <2>4, <2>5 DEF DiskTyped, Content
  <2>7. /\ \A r \in Res : disk'[r] # disk[r] =>
             Brings(n, r) \/ (disk'[r] = None /\ Removes(n, r))
        /\ \A r \in Res : Removes(n, r) => disk'[r] = None
    <3>1. \A r \in Res : Removes(n, r) <=> r = p
      BY <2>2 DEF Removes
    <3>2. \A r \in Res : Brings(n, r) <=> r = q
      BY <2>2 DEF Brings
    <3> QED
      BY <2>4, <3>1, <3>2
  <2> QED
    BY <2>2, <2>3, <2>6, <2>7, WritesKeep
<1> QED
  BY <1>3, <1>4, <1>5

(* A notice is handled: what waited for it alone is right now.             *)
LEMMA HandleStep == ASSUME ScenesInv, NEW bad \in SUBSET Res, HandleNotice(bad) PROVE ScenesInv'
<1> DEFINE n == Head(notices)
<1>1. /\ ScenesTypes /\ Sound(Session) /\ Order /\ SceneInv /\ UidInv /\ DiskTyped
  BY DEF ScenesInv, ScenesTypes
<1>2. /\ notices \in Seq(Notices) /\ notices # <<>> /\ notices' = Tail(notices)
  BY <1>1 DEF ScenesTypes, HandleNotice
<1>3. /\ Len(notices) \in Nat \ {0} /\ DOMAIN notices = 1..Len(notices) /\ n \in Notices
           /\ n = notices[1]
      /\ notices' \in Seq(Notices) /\ DOMAIN notices' = 1..(Len(notices) - 1)
      /\ \A i \in 1..(Len(notices) - 1) : notices'[i] = notices[i + 1]
  BY <1>2
<1>4. /\ disk' = disk /\ saved' = saved
      /\ uids' = Reaction(n, bad).uids /\ index' = Reaction(n, bad).index
      /\ scenes' = Reaction(n, bad).scenes
      /\ stale' = [stale EXCEPT !.live = @ \ (IF n.kind = "delete" THEN {} ELSE {n.path} \ bad)]
      /\ drift' = drift \cup (IF bad = {} THEN {} ELSE {"unread"})
  BY DEF HandleNotice, Become, Restat, Drifting
<1> HIDE DEF n
<1>5. Session' = Reaction(n, bad)
  <2>1. Reaction(n, bad) \in Sessions
    BY <1>1, <1>3, ReactionKeeps DEF Sound
  <2>2. Session' = [uids |-> Reaction(n, bad).uids, index |-> Reaction(n, bad).index,
                    scenes |-> Reaction(n, bad).scenes]
    BY <1>4 DEF Session
  <2> QED
    BY <2>1, <2>2 DEF Sessions
<1>6. Sound(Session')
  BY <1>1, <1>3, <1>5, ReactionKeeps
<1>7. /\ stale \in [live : SUBSET Scenes, saved : SUBSET Scenes]
      /\ stale' \in [live : SUBSET Scenes, saved : SUBSET Scenes] /\ stale'.saved = stale.saved
      /\ \A s \in Scenes : s \in stale.live => s \in stale'.live \/ Brings(n, s)
  BY <1>1, <1>4 DEF ScenesTypes, Brings
<1>8. ScenesTypes'
  <2>1. saved \in ScenesOf /\ drift \subseteq {"lost", "contested", "unread"}
    BY <1>1 DEF ScenesTypes
  <2>2. drift' \subseteq {"lost", "contested", "unread"}
    BY <1>4, <2>1
  <2>3. DiskTyped'
    BY <1>1, <1>4 DEF DiskTyped, Content
  <2> QED
    BY <1>3, <1>4, <1>7, <2>1, <2>2, <2>3 DEF ScenesTypes
<1>9. ASSUME NEW i \in DOMAIN notices', NEW r \in Res, Removes(notices'[i], r), disk'[r] # None
      PROVE  \E j \in DOMAIN notices' : j > i /\ Brings(notices'[j], r)
  <2>1. i + 1 \in DOMAIN notices /\ notices'[i] = notices[i + 1] /\ i \in Nat
    BY <1>3
  <2>2. PICK j \in DOMAIN notices : j > i + 1 /\ Brings(notices[j], r)
    BY <1>1, <1>4, <1>9, <2>1 DEF Order
  <2>3. j - 1 \in DOMAIN notices' /\ notices'[j - 1] = notices[j] /\ j - 1 > i
    BY <1>3, <2>1, <2>2
  <2> QED
    BY <2>2, <2>3
<1>10. Order'
  BY <1>9 DEF Order, Removes, Brings
<1>11. ASSUME NEW r \in Res, ~Waits(r)'
       PROVE  /\ Removes(n, r) => disk[r] = None
              /\ Waits(r) => Removes(n, r) \/ Brings(n, r)
  <2>1. \A i \in DOMAIN notices' : ~Removes(notices'[i], r) /\ ~Brings(notices'[i], r)
    BY <1>11 DEF Waits, Removes, Brings
  <2>2. \A j \in DOMAIN notices : j > 1 => j - 1 \in DOMAIN notices'
            /\ notices'[j - 1] = notices[j]
    BY <1>3
  <2>3. \A j \in DOMAIN notices : j > 1 => ~Removes(notices[j], r) /\ ~Brings(notices[j], r)
    BY <2>1, <2>2
  <2>4. Removes(n, r) => disk[r] = None
    <3>1. 1 \in DOMAIN notices
      BY <1>3
    <3> QED
      BY <1>1, <1>3, <2>3, <3>1 DEF Order
  <2>5. Waits(r) => Removes(n, r) \/ Brings(n, r)
    <3>1. \A j \in DOMAIN notices : j = 1 \/ j > 1
      BY <1>3
    <3> QED
      BY <1>3, <2>3, <3>1 DEF Waits
  <2> QED
    BY <2>4, <2>5
<1>12. SceneInv'
  <2> SUFFICES ASSUME "unread" \notin drift', NEW s \in Scenes
               PROVE  /\ Waits(s)' \/ Right(Session, s)'
                      /\ s \in stale'.live \/ Known(Session, s)'
                      /\ Cached(s)'
    BY DEF SceneInv
  <2>1. bad = {} /\ "unread" \notin drift
    BY <1>4
  <2>2. /\ Waits(s) \/ Right(Session, s)
        /\ s \in stale.live \/ Known(Session, s)
        /\ Cached(s)
    BY <1>1, <2>1 DEF SceneInv
  <2>3. s \in Res
    BY DEF Res
  <2>4. /\ Right(Session, s)' <=> Right(Reaction(n, {}), s)
        /\ Known(Session, s)' <=> Known(Reaction(n, {}), s)
    BY <1>4, <1>5, <2>1 DEF Right, Known
  <2>5. /\ Brings(n, s) => Right(Reaction(n, {}), s)
        /\ Removes(n, s) /\ disk[s] = None => Right(Reaction(n, {}), s)
        /\ ~Removes(n, s) /\ Right(Session, s) => Right(Reaction(n, {}), s)
        /\ Known(Session, s) => Known(Reaction(n, {}), s)
    BY <1>1, <1>3, ReactionRight
  <2>6. Waits(s)' \/ Right(Session, s)'
    BY <1>11, <2>2, <2>3, <2>4, <2>5
  <2>7. s \in stale'.live \/ Known(Session, s)'
    <3>1. Right(Reaction(n, {}), s) => Known(Reaction(n, {}), s)
      BY DEF Known
    <3> QED
      BY <1>7, <2>2, <2>4, <2>5, <3>1
  <2>8. Cached(s)'
    BY <1>4, <1>7, <2>2 DEF Cached
  <2> QED
    BY <2>6, <2>7, <2>8
<1>13. UidInv'
  <2>1. Contested' = Contested
    BY <1>4 DEF Contested, Claims, Declared
  <2>2. "contested" \notin drift' => Contested' = {}
    BY <1>1, <1>4, <2>1 DEF UidInv
  <2>3. ASSUME drift' = {}, NEW r \in Res PROVE Waits(r)' \/ Named(Session, r)'
    <3>1. bad = {} /\ drift = {}
      BY <1>4, <2>3
    <3>2. Contested = {} /\ (Waits(r) \/ Named(Session, r))
      BY <1>1, <3>1 DEF UidInv
    <3>3. Named(Session, r)' <=> Named(Reaction(n, {}), r)
      <4>1. Declared(r)' = Declared(r)
        BY <1>4 DEF Declared
      <4> QED
        BY <1>5, <3>1, <4>1 DEF Named
    <3>4. /\ Brings(n, r) => Named(Reaction(n, {}), r)
          /\ Removes(n, r) /\ disk[r] = None => Named(Reaction(n, {}), r)
          /\ ~Removes(n, r) /\ Named(Session, r) => Named(Reaction(n, {}), r)
      BY <1>1, <1>3, <3>2, ReactionNamed
    <3> QED
      BY <1>11, <3>2, <3>3, <3>4
  <2> QED
    BY <2>2, <2>3 DEF UidInv
<1> QED
  BY <1>6, <1>8, <1>10, <1>12, <1>13 DEF ScenesInv

-----------------------------------------------------------------------------
(* The events of an overflow are lost: the walk puts every scene right.    *)
LEMMA OverflowStep == ASSUME ScenesInv, NEW bad, Overflow(bad) PROVE ScenesInv'
<1>1. /\ ScenesTypes /\ Sound(Session) /\ SceneInv /\ UidInv /\ DiskTyped
  BY DEF ScenesInv, ScenesTypes
<1>2. /\ disk' = disk /\ saved' = saved /\ uids' = uids /\ index' = index /\ notices' = <<>>
      /\ scenes' = Reconciled(scenes, stale.live, uids, {})
      /\ stale' = [stale EXCEPT !.live = @ \ Scenes]
      /\ drift' = drift \cup {"lost"}
  BY DEF Overflow, Become, Restat, Session
<1>3. /\ Session = [uids |-> uids, index |-> index, scenes |-> scenes]
      /\ Session' = [uids |-> uids', index |-> index', scenes |-> scenes']
  BY DEF Session
<1>4. /\ scenes \in SceneMaps /\ Mirror(scenes) /\ uids \in UidMaps /\ Twins(uids, index)
      /\ index \in [uids : UidMaps, byRes : [Res -> Uids \cup {None}]]
  BY <1>1, <1>3 DEF Sound, Sessions
<1>5. /\ scenes' \in SceneMaps /\ Mirror(scenes')
      /\ \A s \in Scenes : scenes'.stored[s] =
           IF disk[s] = None THEN None
           ELSE IF s \notin {} /\ (scenes.stored[s] = None
               \/ s \in stale.live) THEN Stored(disk[s], uids)
           ELSE scenes.stored[s]
  <2> DEFINE old == stale.live
  <2>1. scenes' = Reconciled(scenes, old, uids, {})
    BY <1>2
  <2> HIDE DEF old
  <2>2. /\ scenes' \in SceneMaps /\ Mirror(scenes')
        /\ \A s \in Scenes : scenes'.stored[s] =
             IF disk[s] = None THEN None
             ELSE IF s \notin {} /\ (scenes.stored[s] = None
                 \/ s \in old) THEN Stored(disk[s], uids)
             ELSE scenes.stored[s]
    BY <1>1, <1>4, <2>1, ReconciledKeeps
  <2> QED
    BY <2>2 DEF old
<1>6. Sound(Session')
  BY <1>2, <1>3, <1>4, <1>5 DEF Sound, Sessions
<1>7. stale \in [live : SUBSET Scenes, saved : SUBSET Scenes]
      /\ stale' \in [live : SUBSET Scenes, saved : SUBSET Scenes] /\ stale'.saved = stale.saved
  BY <1>1, <1>2 DEF ScenesTypes
<1>8. ScenesTypes'
  <2>1. DiskTyped'
    BY <1>1, <1>2 DEF DiskTyped, Content
  <2>2. saved \in ScenesOf /\ drift \subseteq {"lost", "contested", "unread"}
    BY <1>1 DEF ScenesTypes
  <2>3. drift' \subseteq {"lost", "contested", "unread"}
    BY <1>2, <2>2
  <2> QED
    BY <1>2, <1>7, <2>1, <2>2, <2>3 DEF ScenesTypes
<1>9. Order'
  BY <1>2 DEF Order
<1>10. SceneInv'
  <2> SUFFICES ASSUME "unread" \notin drift', NEW s \in Scenes
               PROVE  Right(Session, s)' /\ Cached(s)'
    BY DEF SceneInv, Known
  <2>1. (s \in stale.live \/ Known(Session, s)) /\ Cached(s)
    BY <1>1, <1>2 DEF SceneInv
  <2>2. Cached(s)'
    BY <1>2, <1>7, <2>1 DEF Cached
  <2>3. Right(Session, s)'
    BY <1>2, <1>3, <1>5, <2>1 DEF Known, Right
  <2> QED
    BY <2>2, <2>3
<1>11. UidInv'
  <2>1. Contested' = Contested
    BY <1>2 DEF Contested, Claims, Declared
  <2> QED
    BY <1>1, <1>2, <2>1 DEF UidInv
<1> QED
  BY <1>6, <1>8, <1>9, <1>10, <1>11 DEF ScenesInv

(* A scan makes the map right about everything when no uid is claimed      *)
(* twice, and every scene that was stored from its file, with any map.     *)
LEMMA ScannedRight ==
  ASSUME NEW x \in SceneMaps, Mirror(x), DiskTyped, Scanned(x, {}), NEW s \in Scenes,
             disk' = disk,
         \/ disk[s] = None /\ x.stored[s] = None
         \/ disk[s] # None /\ \E map \in UidMaps : x.stored[s] = Stored(disk[s], map)
  PROVE  Right(Session, s)'
<1>1. uids' = Scan /\ Scan \in UidMaps
  BY ScannedKeeps, ScanWhole DEF Scan
<1>2. scenes'.stored[s] =
        IF s \notin {} /\ disk[s] # None /\ x.stored[s] # None
            /\ NamedIn(x.stored[s]) \cap Uids # {}
          THEN Stored(disk[s], Scan) ELSE x.stored[s]
  BY ScannedKeeps DEF Scan
<1>3. Right(Session, s)' <=> scenes'.stored[s] = IF disk[s] = None THEN None
          ELSE Stored(disk[s], Scan)
  BY <1>1 DEF Right, Session
<1>4. CASE disk[s] = None
  BY <1>2, <1>3, <1>4
<1>5. CASE disk[s] # None
  <2>1. PICK map \in UidMaps : x.stored[s] = Stored(disk[s], map)
    BY <1>5
  <2>2. disk[s] \in SceneTexts
    BY <1>5 DEF DiskTyped, Content, Res
  <2>3. x.stored[s] # None /\ x.stored[s].text = disk[s]
    BY <2>1, <2>2, StoredType
  <2>4. CASE NamedIn(x.stored[s]) \cap Uids # {}
    BY <1>2, <1>3, <1>5, <2>3, <2>4
  <2>5. CASE NamedIn(x.stored[s]) \cap Uids = {}
    <3>1. \A u \in UidsOf(disk[s]) : map[u] = Scan[u]
      BY <2>3, <2>5 DEF NamedIn, UidsOf
    <3>2. Stored(disk[s], map) = Stored(disk[s], Scan)
      BY <2>2, <3>1, StoredSame
    <3> QED
      BY <1>2, <1>3, <1>5, <2>1, <2>5, <3>2
  <2> QED
    BY <2>4, <2>5
<1> QED
  BY <1>4, <1>5

LEMMA ScannedNamed ==
  ASSUME DiskTyped, NEW x \in SceneMaps, Mirror(x), NEW bad, Scanned(x, bad), disk' = disk
  PROVE  UidInv'
<1>1. uids' = ScanBut(bad)
  BY ScannedKeeps
<1>2. Contested' = Contested
  BY DEF Contested, Claims, Declared
<1>3. (drift \cap {"unread"}) \cup (IF Contested = {} THEN {}
          ELSE {"contested"}) \subseteq drift'
      /\ (drift' = {} => bad = {})
  BY DEF Scanned, Drifting
<1>4. "contested" \notin drift' => Contested = {}
  BY <1>3
<1>5. ASSUME drift' = {}, NEW r \in Res PROVE Named(Session, r)'
  <2>1. \A u \in Uids : (Scan[u] = r) = (Declared(r) = u)
    BY <1>4, <1>5, ScanAll
  <2>2. Declared(r)' = Declared(r)
    BY DEF Declared
  <2>3. Session'.uids = Scan
    BY <1>1, <1>3, <1>5 DEF Session, Scan
  <2> QED
    BY <2>1, <2>2, <2>3 DEF Named
<1> QED
  BY <1>2, <1>4, <1>5 DEF UidInv

LEMMA ReloadStep == ASSUME ScenesInv, NEW bad \in SUBSET Res,
                               ReloadProject(bad) PROVE ScenesInv'
<1>1. /\ ScenesTypes /\ Sound(Session) /\ Order /\ SceneInv /\ DiskTyped
  BY DEF ScenesInv, ScenesTypes
<1>2. /\ disk' = disk /\ saved' = saved /\ notices' = notices /\ stale' = stale
           /\ Scanned(scenes, bad)
  BY DEF ReloadProject
<1>3. Session = [uids |-> uids, index |-> index, scenes |-> scenes]
  BY DEF Session
<1>4. scenes \in SceneMaps /\ Mirror(scenes) /\ uids \in UidMaps
  BY <1>1, <1>3 DEF Sound, Sessions
<1>5. Sound(Session')
  BY <1>1, <1>2, <1>4, ScannedKeeps
<1>6. drift' = (drift \cap {"unread"}) \cup (IF Contested = {} THEN {} ELSE {"contested"})
                 \cup (IF bad = {} THEN {} ELSE {"unread"})
  BY <1>2 DEF Scanned, Drifting
<1>7. ScenesTypes'
  <2>1. DiskTyped'
    BY <1>1, <1>2 DEF DiskTyped, Content
  <2>2. drift' \subseteq {"lost", "contested", "unread"}
    BY <1>6
  <2> QED
    BY <1>1, <1>2, <2>1, <2>2 DEF ScenesTypes
<1>8. Order'
  BY <1>1, <1>2 DEF Order, Removes, Brings
<1>9. SceneInv'
  <2> SUFFICES ASSUME "unread" \notin drift', NEW s \in Scenes
               PROVE  /\ Waits(s)' \/ Right(Session, s)'
                      /\ s \in stale'.live \/ Known(Session, s)'
                      /\ Cached(s)'
    BY DEF SceneInv
  <2>1. bad = {} /\ "unread" \notin drift
    BY <1>6
  <2>2. (Waits(s) \/ Right(Session, s)) /\ (s \in stale.live \/ Known(Session, s)) /\ Cached(s)
    BY <1>1, <2>1 DEF SceneInv
  <2>3. Waits(s)' <=> Waits(s)
    BY <1>2 DEF Waits, Removes, Brings
  <2>4. Right(Session, s) => Right(Session, s)'
    <3> HAVE Right(Session, s)
    <3>1. scenes.stored[s] = IF disk[s] = None THEN None ELSE Stored(disk[s], uids)
      BY <1>3 DEF Right
    <3> QED
      BY <1>1, <1>2, <1>4, <2>1, <3>1, ScannedRight
  <2>5. scenes.stored[s] = None => scenes'.stored[s] = None
    BY <1>1, <1>2, <1>4, ScannedKeeps
  <2>6. Known(Session, s) => Known(Session, s)'
    BY <1>2, <1>3, <2>4, <2>5 DEF Known, Session
  <2>7. Cached(s)'
    BY <1>2, <2>2 DEF Cached
  <2> QED
    BY <1>2, <2>2, <2>3, <2>4, <2>6, <2>7
<1>10. UidInv'
  BY <1>1, <1>2, <1>4, ScannedNamed
<1> QED
  BY <1>5, <1>7, <1>8, <1>9, <1>10 DEF ScenesInv

LEMMA SaveStep == ASSUME ScenesInv, SaveCache PROVE ScenesInv'
<1>1. /\ ScenesTypes /\ Sound(Session) /\ Order /\ SceneInv /\ UidInv /\ DiskTyped
  BY DEF ScenesInv, ScenesTypes
<1>2. /\ disk' = disk /\ notices' = notices /\ uids' = uids /\ index' = index
           /\ scenes' = scenes
      /\ drift' = drift /\ saved' = scenes.stored
           /\ stale' = [stale EXCEPT !.saved = stale.live]
  BY DEF SaveCache
<1>3. Session' = Session /\ Session = [uids |-> uids, index |-> index, scenes |-> scenes]
  BY <1>2 DEF Session
<1>4. scenes \in SceneMaps /\ uids \in UidMaps
  BY <1>1, <1>3 DEF Sound, Sessions
<1>5. stale' \in [live : SUBSET Scenes, saved : SUBSET Scenes]
      /\ stale'.live = stale.live /\ stale'.saved = stale.live
  BY <1>1, <1>2 DEF ScenesTypes
<1>6. ScenesTypes'
  <2>1. DiskTyped'
    BY <1>1, <1>2 DEF DiskTyped, Content
  <2>2. saved' \in ScenesOf
    BY <1>2, <1>4 DEF SceneMaps
  <2> QED
    BY <1>1, <1>2, <1>5, <2>1, <2>2 DEF ScenesTypes
<1>7. Order'
  BY <1>1, <1>2 DEF Order, Removes, Brings
<1>8. SceneInv'
  <2> SUFFICES ASSUME "unread" \notin drift', NEW s \in Scenes
               PROVE  /\ Waits(s)' \/ Right(Session, s)'
                      /\ s \in stale'.live \/ Known(Session, s)'
                      /\ Cached(s)'
    BY DEF SceneInv
  <2>1. (Waits(s) \/ Right(Session, s)) /\ (s \in stale.live \/ Known(Session, s))
    BY <1>1, <1>2 DEF SceneInv
  <2>2. (Waits(s)' <=> Waits(s)) /\ (Right(Session, s)' <=> Right(Session, s))
        /\ (Known(Session, s)' <=> Known(Session, s))
    BY <1>2, <1>3 DEF Waits, Removes, Brings, Right, Known
  <2>3. s \in stale.live \/ disk[s] = None \/ scenes.stored[s] = None
          \/ scenes.stored[s] = Stored(disk[s], uids)
    BY <1>3, <2>1 DEF Known, Right
  <2>4. s \in stale'.saved \/ disk'[s] = None \/ saved'[s] = None
          \/ \E map \in UidMaps : saved'[s] = Stored(disk[s], map)
    BY <1>2, <1>4, <1>5, <2>3
  <2>5. Cached(s)'
    BY <1>2, <2>4 DEF Cached
  <2> QED
    BY <1>5, <2>1, <2>2, <2>5
<1>9. UidInv'
  <2>1. Contested' = Contested /\ \A r \in Res : Declared(r)' = Declared(r)
    BY <1>2 DEF Contested, Claims, Declared
  <2>2. \A r \in Res : (Waits(r)' <=> Waits(r)) /\ (Named(Session, r)' <=> Named(Session, r))
    BY <1>2, <1>3, <2>1 DEF Waits, Removes, Brings, Named
  <2> QED
    BY <1>1, <1>2, <2>1, <2>2 DEF UidInv
<1> QED
  BY <1>1, <1>3, <1>6, <1>7, <1>8, <1>9 DEF ScenesInv

(* A new session: what the cache kept is what its file says, with a map of *)
(* some earlier session, or its stat moved and the walk reads it again.    *)
LEMMA WarmStep == ASSUME ScenesInv, NEW bad \in SUBSET Res, WarmStart(bad) PROVE ScenesInv'
<1> DEFINE base == Replace(NoScenes, saved)
           mid  == Reconciled(base, stale.saved, Empty, bad)
<1>1. /\ ScenesTypes /\ SceneInv /\ DiskTyped /\ saved \in ScenesOf
  BY DEF ScenesInv, ScenesTypes
<1>2. /\ disk' = disk /\ saved' = scenes'.stored /\ notices' = <<>> /\ Scanned(mid, bad)
      /\ stale' = [live |-> bad \cap stale.saved, saved |-> bad \cap stale.saved]
  BY DEF WarmStart
<1>3. /\ base \in SceneMaps /\ Mirror(base) /\ \A s \in Scenes : base.stored[s] = saved[s]
  <2> DEFINE x == NoScenes  S == Scenes
  <2>1. x \in SceneMaps /\ Mirror(x) /\ S \in SUBSET Scenes
        /\ saved \in [S -> [text : SceneTexts, nodes : Seq(Node)] \cup {None}]
    BY <1>1, NoScenesSound DEF ScenesOf
  <2> HIDE DEF x, S
  <2>2. /\ Replace(x, saved) \in SceneMaps /\ Mirror(Replace(x, saved))
        /\ \A s \in Scenes : Replace(x, saved).stored[s] = IF s \in S THEN saved[s]
             ELSE x.stored[s]
    BY <2>1, ReplaceKeeps
  <2> QED
    BY <2>2 DEF x, S
<1>4. Empty \in UidMaps
  BY DEF Empty, UidMaps
<1> HIDE DEF base
<1>5. /\ mid \in SceneMaps /\ Mirror(mid)
      /\ \A s \in Scenes : mid.stored[s] =
           IF disk[s] = None THEN None
           ELSE IF s \notin bad /\ (saved[s] = None
               \/ s \in stale.saved) THEN Stored(disk[s], Empty)
           ELSE saved[s]
  <2> DEFINE old == stale.saved  map == Empty
  <2>1. map \in UidMaps /\ mid = Reconciled(base, old, map, bad)
        /\ base \in SceneMaps /\ Mirror(base) /\ DiskTyped
    BY <1>1, <1>3, <1>4
  <2> HIDE DEF old, map, mid
  <2>2. /\ mid \in SceneMaps /\ Mirror(mid)
        /\ \A s \in Scenes : mid.stored[s] =
             IF disk[s] = None THEN None
             ELSE IF s \notin bad /\ (base.stored[s] = None
                 \/ s \in old) THEN Stored(disk[s], map)
             ELSE base.stored[s]
    <3>1. /\ Reconciled(base, old, map, bad) \in SceneMaps
               /\ Mirror(Reconciled(base, old, map, bad))
          /\ \A s \in Scenes : Reconciled(base, old, map, bad).stored[s] =
               IF disk[s] = None THEN None
               ELSE IF s \notin bad /\ (base.stored[s] = None
                   \/ s \in old) THEN Stored(disk[s], map)
               ELSE base.stored[s]
      <4>1. \A x \in SceneMaps : Mirror(x) => \A o : \A m \in UidMaps : \A b :
           /\ Reconciled(x, o, m, b) \in SceneMaps /\ Mirror(Reconciled(x, o, m, b))
           /\ \A s \in Scenes : Reconciled(x, o, m, b).stored[s] =
               IF disk[s] = None THEN None
               ELSE IF s \notin b /\ (x.stored[s] = None \/ s \in o) THEN Stored(disk[s], m)
               ELSE x.stored[s]
        BY <2>1, ReconciledKeeps
      <4>2. base \in SceneMaps /\ Mirror(base) /\ map \in UidMaps
        BY <2>1
      <4> QED
        BY <4>1, <4>2
    <3> QED
      BY <2>1, <3>1
  <2> QED
    BY <1>3, <2>2 DEF old, map
<1> HIDE DEF mid
<1>6. Sound(Session') /\ uids' = ScanBut(bad)
  BY <1>1, <1>2, <1>5, ScannedKeeps
<1>7. drift' = (drift \cap {"unread"}) \cup (IF Contested = {} THEN {} ELSE {"contested"})
                 \cup (IF bad = {} THEN {} ELSE {"unread"})
  BY <1>2 DEF Scanned, Drifting
<1>8. ScenesTypes'
  <2>1. DiskTyped'
    BY <1>1, <1>2 DEF DiskTyped, Content
  <2>2. drift' \subseteq {"lost", "contested", "unread"}
    BY <1>7
  <2>3. saved' \in ScenesOf
    BY <1>2, <1>6 DEF Sound, Sessions, SceneMaps, Session
  <2>4. stale' \in [live : SUBSET Scenes, saved : SUBSET Scenes]
    BY <1>1, <1>2 DEF ScenesTypes
  <2> QED
    BY <1>2, <2>1, <2>2, <2>3, <2>4 DEF ScenesTypes
<1>9. Order'
  BY <1>2 DEF Order
<1>10. SceneInv'
  <2> SUFFICES ASSUME "unread" \notin drift', NEW s \in Scenes
               PROVE  Right(Session, s)' /\ Cached(s)'
    BY DEF SceneInv, Known
  <2>1. bad = {} /\ "unread" \notin drift
    BY <1>7
  <2>2. Cached(s)
    BY <1>1, <2>1 DEF SceneInv
  <2>3. \/ disk[s] = None /\ mid.stored[s] = None
        \/ disk[s] # None /\ \E map \in UidMaps : mid.stored[s] = Stored(disk[s], map)
    BY <1>4, <1>5, <2>1, <2>2 DEF Cached
  <2>4. Right(Session, s)'
    BY <1>1, <1>2, <1>5, <2>1, <2>3, ScannedRight
  <2>5. scenes'.stored[s] = IF disk[s] = None THEN None ELSE Stored(disk[s], Scan)
    BY <1>2, <1>6, <2>1, <2>4 DEF Right, Session, Scan
  <2>6. disk'[s] = None \/ \E map \in UidMaps : saved'[s] = Stored(disk[s], map)
    <3>1. Scan \in UidMaps
      BY <1>1, ScanWhole
    <3> QED
      BY <1>2, <2>5, <3>1
  <2> QED
    BY <1>2, <2>4, <2>6 DEF Cached
<1>11. UidInv'
  BY <1>1, <1>2, <1>5, ScannedNamed
<1> QED
  BY <1>6, <1>8, <1>9, <1>10, <1>11 DEF ScenesInv

LEMMA ScenesStutter == ASSUME ScenesInv, UNCHANGED sceneVars PROVE ScenesInv'
<1>1. /\ ScenesTypes /\ Sound(Session) /\ Order /\ SceneInv /\ UidInv
  BY DEF ScenesInv
<1>2. /\ disk' = disk /\ notices' = notices /\ uids' = uids /\ index' = index
           /\ scenes' = scenes
      /\ saved' = saved /\ stale' = stale /\ drift' = drift
  BY DEF sceneVars
<1>3. Session' = Session
  BY <1>2 DEF Session
<1>4. ScenesTypes' /\ Order'
  BY <1>1, <1>2 DEF ScenesTypes, DiskTyped, Content, Order, Removes, Brings
<1>5. \A r \in Res : (Waits(r)' <=> Waits(r)) /\ Declared(r)' = Declared(r)
  BY <1>2 DEF Waits, Removes, Brings, Declared
<1>6. SceneInv'
  <2>1. \A s \in Scenes : /\ Right(Session, s)' <=> Right(Session, s)
                          /\ Known(Session, s)' <=> Known(Session, s)
                          /\ Cached(s)' <=> Cached(s)
    BY <1>2, <1>3 DEF Right, Known, Cached
  <2> QED
    BY <1>1, <1>2, <1>5, <2>1 DEF SceneInv, Res
<1>7. UidInv'
  <2>1. Contested' = Contested
    BY <1>2 DEF Contested, Claims, Declared
  <2>2. \A r \in Res : Named(Session, r)' <=> Named(Session, r)
    BY <1>3, <1>5 DEF Named
  <2> QED
    BY <1>1, <1>2, <1>5, <2>1, <2>2 DEF UidInv
<1> QED
  BY <1>1, <1>3, <1>4, <1>6, <1>7 DEF ScenesInv

(* The invariant of scenes and uids, of every behaviour.                   *)
THEOREM SceneInvariance == ScenesSpec => []ScenesInv
<1>1. ASSUME ScenesInv, [ScenesNext]_sceneVars PROVE ScenesInv'
  <2>1. CASE UNCHANGED sceneVars
    BY <1>1, <2>1, ScenesStutter
  <2>2. CASE \E p \in Res : WriteFile(p) \/ DeleteFile(p)
    BY <1>1, <2>2, WriteSteps
  <2>3. CASE \E p, q \in Res : RenameFile(p, q)
    BY <1>1, <2>3, WriteSteps
  <2>4. CASE \E bad \in SUBSET Res : HandleNotice(bad) \/ Overflow(bad) \/ ReloadProject(bad)
                 \/ WarmStart(bad)
    BY <1>1, <2>4, HandleStep, OverflowStep, ReloadStep, WarmStep
  <2>5. CASE SaveCache
    BY <1>1, <2>5, SaveStep
  <2> QED
    BY <1>1, <2>1, <2>2, <2>3, <2>4, <2>5 DEF ScenesNext
<1> QED
  BY <1>1, ScenesStart, PTL DEF ScenesSpec

(* The project's uid map, the index's, its inverse and the reverse maps of *)
(* the scene index stay mirrors of each other and of the stored scenes.    *)
THEOREM MapsStayMirrors == ScenesSpec => []MapsMirror
<1>1. ScenesInv => MapsMirror
  <2> SUFFICES ASSUME ScenesInv PROVE MapsMirror
    OBVIOUS
  <2>1. Session = [uids |-> uids, index |-> index, scenes |-> scenes]
    BY DEF Session
  <2>2. Twins(uids, index) /\ Mirror(scenes)
    BY <2>1 DEF ScenesInv, Sound
  <2> QED
    BY <2>2 DEF MapsMirror, Twins, Mirror, Holding
<1> QED
  BY <1>1, SceneInvariance, PTL

(* Once the file events are handled, every scene is what its file says,    *)
(* with its uids resolved by the map in use.                               *)
THEOREM ScenesFollowDisk == ScenesSpec => []ScenesSettle
<1>1. ScenesInv => ScenesSettle
  <2> SUFFICES ASSUME ScenesInv, notices = <<>>, "unread" \notin drift, NEW s \in Scenes
               PROVE  scenes.stored[s] = IF disk[s] = None THEN None ELSE Stored(disk[s], uids)
    BY DEF ScenesSettle
  <2>1. ~Waits(s)
    BY DEF Waits
  <2>2. Right(Session, s)
    BY <2>1 DEF ScenesInv, SceneInv
  <2> QED
    BY <2>2 DEF Right, Session
<1> QED
  BY <1>1, SceneInvariance, PTL

(* And the map is what a scan of the project would give, when no event was *)
(* lost and no uid claimed twice since the last one.                       *)
THEOREM UidsFollowDisk == ScenesSpec => []UidsSettle
<1>1. ScenesInv => UidsSettle
  <2> SUFFICES ASSUME ScenesInv, notices = <<>>, drift = {} PROVE uids = Scan
    BY DEF UidsSettle
  <2>1. Contested = {} /\ DiskTyped /\ Session.uids = uids
    BY DEF ScenesInv, UidInv, ScenesTypes, Session
  <2>2. \A r \in Res : ~Waits(r)
    BY DEF Waits
  <2>3. \A r \in Res, u \in Uids : (uids[u] = r) = (Declared(r) = u)
    BY <2>1, <2>2 DEF ScenesInv, UidInv, Named
  <2>4. \A u \in Uids, r \in Res : (Scan[u] = r) = (Declared(r) = u)
    BY <2>1, ScanAll
  <2>5. uids \in [Uids -> Res \cup {None}] /\ Scan \in [Uids -> Res \cup {None}]
    BY <2>1, ScanWhole DEF ScenesInv, Sound, Sessions, UidMaps
  <2>6. \A u \in Uids : uids[u] = Scan[u]
    BY <2>3, <2>4, <2>5
  <2> QED
    BY <2>5, <2>6
<1> QED
  BY <1>1, SceneInvariance, PTL

-----------------------------------------------------------------------------
(* Documents: positions.                                                   *)
LEMMA TextsAreSequences ==
  ASSUME NEW t \in Texts
  PROVE  t \in Seq(Chars) /\ Len(t) \in Nat /\ Len(t) <= MaxLen
<1>1. PICK m \in 0..MaxLen : t \in [1..m -> Chars]
  BY DocumentsAssumption DEF Texts, BoundedSeq, SeqOf
<1> QED
  BY <1>1, DocumentsAssumption

(* One more character is at least one more unit.                           *)
LEMMA UnitsFinite ==
  ASSUME NEW t, NEW i \in Nat, NEW j \in Nat
  PROVE  IsFiniteSet(UnitsOf(t, i, j)) /\ Units(t, i, j) \in Nat
<1>1. IsFiniteSet((i + 1)..j) /\ IsFiniteSet(1..4)
  <2>1. i + 1 \in Int /\ j \in Int /\ 1 \in Int /\ 4 \in Int
    OBVIOUS
  <2> QED
    BY <2>1, FS_Interval
<1>2. IsFiniteSet(((i + 1)..j) \X (1..4))
  BY <1>1, FS_Product
<1>3. UnitsOf(t, i, j) \in SUBSET (((i + 1)..j) \X (1..4))
  BY DEF UnitsOf
<1>4. IsFiniteSet(UnitsOf(t, i, j))
  BY <1>2, <1>3, FS_Subset
<1> QED
  BY <1>4, FS_CardinalityType DEF Units

LEMMA UnitsGrow ==
  ASSUME enc \in DOMAIN Width, NEW t \in Texts,
         NEW i \in Nat, NEW j \in Nat, NEW k \in Nat, i <= j, j < k, k <= Len(t)
  PROVE  Units(t, i, j) < Units(t, i, k)
<1> DEFINE U(m) == UnitsOf(t, i, m)
<1>1. U(j) \subseteq U(k)
  <2>1. (i + 1)..j \subseteq (i + 1)..k
    OBVIOUS
  <2> QED
    BY <2>1 DEF UnitsOf
<1>2. <<k, 1>> \in U(k) /\ <<k, 1>> \notin U(j)
  <2>1. t[k] \in Chars /\ k \in (i + 1)..k /\ k \notin (i + 1)..j
    BY TextsAreSequences
  <2>2. Width[enc][t[k]] \in 1..4
    BY <2>1, DocumentsAssumption
  <2>3. 1 <= Width[enc][t[k]]
    BY <2>2
  <2> QED
    BY <2>1, <2>3 DEF UnitsOf
<1>3. IsFiniteSet(U(k)) /\ Units(t, i, j) \in Nat /\ Units(t, i, k) \in Nat
  BY UnitsFinite
<1>4. /\ Cardinality(U(j)) <= Cardinality(U(k))
      /\ Cardinality(U(k)) = Cardinality(U(j)) => U(k) = U(j)
  <2> HIDE DEF U
  <2> QED
    BY <1>1, <1>3, FS_Subset
<1>5. Cardinality(U(j)) = Units(t, i, j) /\ Cardinality(U(k)) = Units(t, i, k)
  BY DEF Units
<1> QED
  BY <1>2, <1>3, <1>4, <1>5

(* Line starts are counted: a line start between two offsets makes the     *)
(* second one's line later.                                                *)
Started(t, i, breaks) == {s \in LineStarts(t, breaks) : s <= i}

LEMMA StartsFinite ==
  ASSUME NEW t, Len(t) \in Nat, NEW breaks, NEW i \in Nat
  PROVE  /\ LineStarts(t, breaks) \in SUBSET (0..Len(t)) /\ 0 \in LineStarts(t, breaks)
         /\ IsFiniteSet(LineStarts(t, breaks)) /\ IsFiniteSet(Started(t, i, breaks))
         /\ Cardinality(LineStarts(t, breaks)) \in Nat \ {0}
         /\ Cardinality(Started(t, i, breaks)) \in Nat \ {0}
         /\ Cardinality(Started(t, i, breaks)) <= Cardinality(LineStarts(t, breaks))
         /\ LineOf(t, i, breaks) = Cardinality(Started(t, i, breaks)) - 1
<1> DEFINE L == LineStarts(t, breaks)
           S == Started(t, i, breaks)
<1>1. L \in SUBSET (0..Len(t)) /\ 0 \in L
  BY DEF LineStarts
<1>2. S \in SUBSET L /\ 0 \in S
  BY <1>1 DEF Started
<1>3. LineOf(t, i, breaks) = Cardinality(S) - 1
  BY DEF LineOf, Started
<1> HIDE DEF L, S
<1>4. IsFiniteSet(L)
  <2>1. IsFiniteSet(0..Len(t))
    BY FS_Interval
  <2> QED
    BY <1>1, <2>1, FS_Subset
<1>5. IsFiniteSet(S) /\ Cardinality(S) <= Cardinality(L)
  BY <1>2, <1>4, FS_Subset
<1>6. /\ Cardinality(L) \in Nat /\ Cardinality(S) \in Nat
      /\ Cardinality(L) # 0 /\ Cardinality(S) # 0
  BY <1>1, <1>2, <1>4, <1>5, FS_CardinalityType, FS_EmptySet
<1> QED
  BY <1>1, <1>3, <1>4, <1>5, <1>6 DEF L, S

LEMMA LinesGrow ==
  ASSUME NEW t, Len(t) \in Nat, NEW breaks, NEW i \in Nat, NEW j \in Nat,
         NEW s \in LineStarts(t, breaks), i < s, s <= j
  PROVE  LineOf(t, i, breaks) < LineOf(t, j, breaks)
<1> DEFINE A == Started(t, i, breaks)
           B == Started(t, j, breaks)
<1>1. /\ IsFiniteSet(B) /\ Cardinality(A) \in Nat /\ Cardinality(B) \in Nat
      /\ LineOf(t, i, breaks) = Cardinality(A) - 1
      /\ LineOf(t, j, breaks) = Cardinality(B) - 1
      /\ LineStarts(t, breaks) \in SUBSET (0..Len(t))
  BY StartsFinite
<1>2. A \in SUBSET B
  <2>1. \A x \in LineStarts(t, breaks) : x \in Nat
    BY <1>1
  <2> QED
    BY <2>1 DEF Started
<1>3. s \in B /\ s \notin A
  BY <1>1 DEF Started
<1> HIDE DEF A, B
<1>4. Cardinality(A) <= Cardinality(B) /\ (Cardinality(B) = Cardinality(A) => B = A)
  BY <1>1, <1>2, FS_Subset
<1> QED
  BY <1>1, <1>3, <1>4

(* The line of an offset starts at the last line start up to it, and ends  *)
(* at the offset or behind it.                                             *)
LEMMA LineFound ==
  ASSUME NEW t, Len(t) \in Nat, NEW breaks, NEW i \in 0..Len(t)
  PROVE  LET s == StartOf(t, LineOf(t, i, breaks), breaks)
             e == EndOf(t, s, breaks)
         IN  /\ s \in LineStarts(t, breaks) /\ s \in 0..i
             /\ \A x \in LineStarts(t, breaks) : x <= i => x <= s
             /\ e \in i..Len(t)
             /\ LineOf(t, i, breaks) \in 0..(Cardinality(LineStarts(t, breaks)) - 1)
<1> DEFINE L == LineStarts(t, breaks)
           S == Started(t, i, breaks)
           m == Max(S)
           e == EndOf(t, m, breaks)
<1>1. L \in SUBSET (0..Len(t)) /\ 0 \in L
  BY StartsFinite
<1>2. S \in SUBSET (0..Len(t)) /\ 0 \in S
  BY <1>1 DEF Started
<1>3. m \in S /\ \A x \in S : x <= m
  <2> HIDE DEF S
  <2> QED
    BY <1>2, MaxExists
<1>4. m \in L /\ m \in 0..i /\ \A x \in L : x <= i => x <= m
  BY <1>1, <1>3 DEF Started
<1>5. LineOf(t, m, breaks) = LineOf(t, i, breaks)
  <2>1. Started(t, m, breaks) = S
    <3>1. \A x \in L : x <= m <=> x <= i
      BY <1>1, <1>4
    <3> QED
      BY <3>1 DEF Started
  <2> QED
    BY <1>4, <2>1, StartsFinite
<1>6. ASSUME NEW x \in L, LineOf(t, x, breaks) = LineOf(t, i, breaks) PROVE x = m
  <2>1. x \in Nat /\ m \in Nat
    BY <1>1, <1>4
  <2>2. /\ LineOf(t, x, breaks) \in Int /\ LineOf(t, m, breaks) \in Int
    BY <2>1, StartsFinite
  <2>3. ~(x < m)
    BY <1>4, <1>5, <1>6, <2>1, <2>2, LinesGrow
  <2>4. ~(m < x)
    BY <1>5, <1>6, <2>1, <2>2, LinesGrow
  <2> QED
    BY <2>1, <2>3, <2>4
<1>7. StartOf(t, LineOf(t, i, breaks), breaks) = m
  BY <1>4, <1>5, <1>6 DEF StartOf
<1>8. e \in i..Len(t)
  <2> DEFINE E == {x \in L : x > m} \cup {Len(t)}
  <2>1. E \in SUBSET Nat /\ E # {}
    BY <1>1
  <2>2. \A x \in E : x \in i..Len(t)
    BY <1>1, <1>4
  <2>3. e = Min(E)
    BY DEF EndOf
  <2> HIDE DEF E, e
  <2> QED
    BY <2>1, <2>2, <2>3, MinExists
<1>9. LineOf(t, i, breaks) \in 0..(Cardinality(L) - 1)
  BY StartsFinite
<1> HIDE DEF m, L
<1> QED
  BY <1>4, <1>7, <1>8, <1>9 DEF L

(* An offset is what the position made from it leads back to, where the    *)
(* rope has the protocol's lines.                                          *)
LEMMA RoundTrip ==
  ASSUME Odd = {}, enc \in DOMAIN Width, NEW t \in Texts, NEW i \in 0..Len(t)
  PROVE  ToOffset(t, ToPosition(t, i, {})) = i
<1> DEFINE n == LineOf(t, i, {})
           s == StartOf(t, n, {})
           e == EndOf(t, s, {})
           last == Cardinality(LineStarts(t, {})) - 1
           K == {k \in s..e : Units(t, s, k) <= Units(t, s, i)}
<1>1. Len(t) \in Nat
  BY TextsAreSequences
<1>2. /\ s \in LineStarts(t, {}) /\ s \in 0..i
      /\ e \in i..Len(t) /\ n \in 0..last
  BY <1>1, LineFound
<1>3. last \in Nat
  BY <1>1, StartsFinite
<1>4. Min({n, last}) = n
  <2>1. {n, last} \in SUBSET Nat /\ \A x \in {n, last} : n <= x
    BY <1>2, <1>3
  <2> HIDE DEF n, last
  <2> QED
    BY <2>1, MinIs
<1>5. i \in K /\ \A k \in K : k <= i
  <2>1. i \in K
    <3>1. Units(t, s, i) \in Nat
      BY <1>2, UnitsFinite
    <3> QED
      BY <1>2, <3>1
  <2>2. ASSUME NEW k \in s..e, i < k PROVE k \notin K
    <3>1. /\ s \in Nat /\ i \in Nat /\ k \in Nat /\ s <= i /\ k <= Len(t)
      BY <1>1, <1>2, <2>2
    <3>2. Units(t, s, i) < Units(t, s, k) /\ Units(t, s, i) \in Nat /\ Units(t, s, k) \in Nat
      BY <2>2, <3>1, UnitsGrow, UnitsFinite
    <3> QED
      BY <3>2
  <2> QED
    BY <1>2, <2>1, <2>2
<1>6. Max(K) = i
  <2>1. K \in SUBSET Nat
    BY <1>2
  <2> HIDE DEF K
  <2> QED
    BY <1>5, <2>1, MaxIs
<1>7. ToOffset(t, ToPosition(t, i, {})) = Max(K)
  BY <1>4 DEF ToOffset, ToPosition
<1> QED
  BY <1>6, <1>7

LEMMA SpliceIsText ==
  ASSUME NEW t \in Texts, NEW i \in 0..Len(t), NEW j \in i..Len(t), NEW new \in Seq(Chars),
         Len(t) - (j - i) + Len(new) <= MaxLen
  PROVE  Splice(t, i, j, new) \in Texts
<1>1. t \in Seq(Chars) /\ Len(t) \in Nat /\ Len(new) \in Nat
  BY TextsAreSequences
<1> DEFINE a == SubSeq(t, 1, i)
           b == SubSeq(t, j + 1, Len(t))
           r == a \o new \o b
<1>2. a \in Seq(Chars) /\ Len(a) = i /\ b \in Seq(Chars) /\ Len(b) = Len(t) - j
  BY <1>1
<1> HIDE DEF a, b
<1>3. /\ a \o new \in Seq(Chars) /\ Len(a \o new) = i + Len(new)
      /\ r \in Seq(Chars) /\ Len(r) = Len(a \o new) + Len(b)
  BY <1>2, ConcatProperties
<1> HIDE DEF r
<1>4. Len(r) \in 0..MaxLen /\ r \in [1..Len(r) -> Chars]
  <2>1. Len(r) \in Nat /\ Len(r) = i + Len(new) + (Len(t) - j)
    BY <1>1, <1>2, <1>3
  <2>2. Len(r) <= MaxLen /\ MaxLen \in Nat
    BY <1>1, <2>1, DocumentsAssumption
  <2> QED
    BY <1>3, <2>1, <2>2
<1>5. r \in Texts
  BY <1>4 DEF Texts, BoundedSeq, SeqOf
<1> QED
  BY <1>5 DEF Splice, r, a, b

-----------------------------------------------------------------------------
(* The texts the notifications under way lead through, from the server's   *)
(* to the client's.                                                        *)
Buffer == Texts \cup {None}
Leads(h) ==
  /\ h \in [0..Len(wire) -> Buffer]
  /\ h[0] = server /\ h[Len(wire)] = client
  /\ \A k \in 1..Len(wire) : h[k] = Handled(h[k - 1], wire[k])

Notifications ==
  [kind : {"open", "full"}, text : Texts] \cup [kind : {"close"}]
  \cup [kind : {"edit"}, text : Seq(Chars), start : [line : Nat, character : Nat],
        end : [line : Nat, character : Nat]]

BufferInv ==
  /\ enc \in DOMAIN Width
  /\ server \in Buffer /\ client \in Buffer
  /\ wire \in Seq(Notifications)
  /\ \E h : Leads(h)

LEMMA PositionType ==
  ASSUME NEW t \in Texts, NEW i \in 0..Len(t)
  PROVE  ToPosition(t, i, {}) \in [line : Nat, character : Nat]
<1>1. Len(t) \in Nat
  BY TextsAreSequences
<1> DEFINE n == LineOf(t, i, {})
           s == StartOf(t, n, {})
<1>2. s \in 0..i /\ n \in 0..(Cardinality(LineStarts(t, {})) - 1)
  BY <1>1, LineFound
<1>3. n \in Nat /\ s \in Nat
  BY <1>1, <1>2, StartsFinite
<1>4. Units(t, s, i) \in Nat
  BY <1>1, <1>3, UnitsFinite
<1> QED
  BY <1>3, <1>4 DEF ToPosition

LEMMA BufferInit == Init => BufferInv
<1> SUFFICES ASSUME Init PROVE BufferInv
  OBVIOUS
<1>1. enc \in DOMAIN Width
  BY DocumentsAssumption DEF Init, Negotiate
<1>2. wire = <<>> /\ client = None /\ server = None /\ Len(wire) = 0
  BY DEF Init
<1>3. Leads([k \in 0..0 |-> None])
  BY <1>2 DEF Leads, Buffer
<1> QED
  BY <1>1, <1>2, <1>3 DEF BufferInv, Buffer

(* A client that sends one more notification.                              *)
LEMMA SendKeeps ==
  ASSUME BufferInv, NEW n \in Notifications, Send(n), NEW text \in Buffer,
         client' = text, UNCHANGED <<enc, server>>, Handled(client, n) = text
  PROVE  BufferInv'
<1>1. PICK h : Leads(h)
  BY DEF BufferInv
<1>2. /\ wire \in Seq(Notifications) /\ Len(wire) \in Nat
      /\ wire' = Append(wire, n) /\ wire' \in Seq(Notifications)
      /\ Len(wire') = Len(wire) + 1 /\ wire'[Len(wire) + 1] = n
      /\ \A k \in 1..Len(wire) : wire'[k] = wire[k]
  BY DEF BufferInv, Send
<1> DEFINE g == [k \in 0..Len(wire) + 1 |-> IF k <= Len(wire) THEN h[k] ELSE text]
<1>3. /\ h \in [0..Len(wire) -> Buffer] /\ h[0] = server /\ h[Len(wire)] = client
      /\ \A k \in 1..Len(wire) : h[k] = Handled(h[k - 1], wire[k])
  BY <1>1 DEF Leads
<1>4. /\ g \in [0..Len(wire') -> Buffer] /\ g[0] = server /\ g[Len(wire')] = text
  BY <1>2, <1>3
<1>5. ASSUME NEW k \in 1..Len(wire') PROVE g[k] = Handled(g[k - 1], wire'[k])
  <2>1. CASE k <= Len(wire)
    <3>1. k \in 1..Len(wire) /\ g[k] = h[k] /\ g[k - 1] = h[k - 1] /\ wire'[k] = wire[k]
      BY <1>2, <1>5, <2>1
    <3> QED
      BY <1>3, <3>1
  <2>2. CASE k > Len(wire)
    <3>1. k = Len(wire) + 1 /\ g[k] = text /\ g[k - 1] = client /\ wire'[k] = n
      BY <1>2, <1>3, <1>5, <2>2
    <3> QED
      BY <3>1
  <2> QED
    BY <1>2, <2>1, <2>2
<1> HIDE DEF g
<1>6. PICK f : f = g
  OBVIOUS
<1>7. server' = server /\ client' = text /\ enc' = enc
  OBVIOUS
<1>8. \A a, b : Handled(a, b)' = Handled(a, b)
  BY <1>7 DEF Handled, Applied, ToOffset, Units, UnitsOf
<1>9. Leads(f)'
  <2>1. ASSUME NEW k \in 1..Len(wire') PROVE f[k] = Handled(f[k - 1], wire[k])'
    BY <1>5, <1>6, <1>8
  <2> QED
    BY <1>3, <1>4, <1>6, <1>7, <2>1 DEF Leads, Buffer
<1> QED
  BY <1>2, <1>7, <1>9 DEF BufferInv, Buffer

LEMMA ChangeKeeps ==
  ASSUME Odd = {} PROVE BufferInv /\ DidChange => BufferInv'
<1> SUFFICES ASSUME BufferInv, DidChange PROVE BufferInv'
  OBVIOUS
<1>1. PICK i, j \in Boundaries(client), new \in BoundedSeq(Chars, 1) :
        /\ i <= j /\ Len(client) - (j - i) + Len(new) <= MaxLen
        /\ client' = Splice(client, i, j, new)
        /\ Send([kind |-> "edit", text |-> new,
                 start |-> ToPosition(client, i, {}), end |-> ToPosition(client, j, {})])
  BY DEF DidChange
<1> DEFINE p == ToPosition(client, i, {})
           q == ToPosition(client, j, {})
           n == [kind |-> "edit", text |-> new, start |-> p, end |-> q]
<1>2. client # None /\ client \in Texts /\ enc \in DOMAIN Width /\ UNCHANGED <<enc, server>>
  BY DEF DidChange, BufferInv, Buffer
<1>3. Len(client) \in Nat /\ i \in 0..Len(client) /\ j \in i..Len(client)
  BY <1>1, <1>2, TextsAreSequences DEF Boundaries
<1>4. new \in Seq(Chars)
  <2>1. PICK m \in 0..1 : new \in [1..m -> Chars]
    BY DEF BoundedSeq, SeqOf
  <2> QED
    BY <2>1
<1>5. Splice(client, i, j, new) \in Texts
  BY <1>1, <1>2, <1>3, <1>4, SpliceIsText
<1>6. p \in [line : Nat, character : Nat] /\ q \in [line : Nat, character : Nat]
  <2>1. j \in 0..Len(client)
    BY <1>3
  <2> QED
    BY <1>2, <1>3, <2>1, PositionType
<1>7. ToOffset(client, p) = i /\ ToOffset(client, q) = j
  <2>1. j \in 0..Len(client)
    BY <1>3
  <2> QED
    BY <1>2, <1>3, <2>1, RoundTrip
<1> HIDE DEF p, q
<1>8. n \in Notifications /\ n.kind = "edit" /\ n.start = p /\ n.end = q /\ n.text = new
  BY <1>4, <1>6 DEF Notifications
<1>9. Max({i, j}) = j
  <2>1. {i, j} \in SUBSET Nat /\ \A x \in {i, j} : x <= j
    BY <1>1, <1>3
  <2> QED
    BY <2>1, MaxIs
<1> HIDE DEF n
<1>10. Handled(client, n) = Splice(client, i, j, new)
  BY <1>2, <1>7, <1>8, <1>9 DEF Handled, Applied
<1>11. Send(n)
  BY <1>1 DEF n, p, q
<1>12. PICK text \in Texts : text = Splice(client, i, j, new)
  BY <1>5
<1> QED
  BY <1>1, <1>2, <1>8, <1>10, <1>11, <1>12, SendKeeps DEF Buffer

LEMMA HandleKeeps == BufferInv /\ Handle => BufferInv'
<1> SUFFICES ASSUME BufferInv, Handle PROVE BufferInv'
  OBVIOUS
<1>1. PICK h : Leads(h)
  BY DEF BufferInv
<1>2. /\ wire \in Seq(Notifications) /\ wire # <<>> /\ wire' = Tail(wire)
      /\ server' = Handled(server, Head(wire)) /\ enc' = enc /\ client' = client
  BY DEF BufferInv, Handle
<1>3. /\ Len(wire) \in Nat \ {0} /\ Head(wire) = wire[1]
      /\ wire' \in Seq(Notifications) /\ Len(wire') = Len(wire) - 1
      /\ \A k \in 1..Len(wire') : wire'[k] = wire[k + 1]
  BY <1>2, HeadTailProperties
<1>4. /\ h \in [0..Len(wire) -> Buffer] /\ h[0] = server /\ h[Len(wire)] = client
      /\ \A k \in 1..Len(wire) : h[k] = Handled(h[k - 1], wire[k])
  BY <1>1 DEF Leads
<1>5. PICK g : g = [k \in 0..Len(wire) - 1 |-> h[k + 1]]
  OBVIOUS
<1>6. /\ g \in [0..Len(wire') -> Buffer] /\ g[Len(wire')] = client
  BY <1>3, <1>4, <1>5
<1>7. g[0] = server' /\ server' \in Buffer
  <2>1. h[1] = Handled(h[1 - 1], wire[1]) /\ g[0] = h[1] /\ h[1] \in Buffer
    BY <1>3, <1>4, <1>5
  <2> QED
    BY <1>2, <1>3, <1>4, <2>1
<1>8. \A a, b : Handled(a, b)' = Handled(a, b)
  BY <1>2 DEF Handled, Applied, ToOffset, Units, UnitsOf
<1>9. ASSUME NEW k \in 1..Len(wire') PROVE g[k] = Handled(g[k - 1], wire[k])'
  <2>1. /\ k + 1 \in 1..Len(wire) /\ g[k] = h[k + 1] /\ g[k - 1] = h[(k + 1) - 1]
        /\ wire'[k] = wire[k + 1]
    BY <1>3, <1>5
  <2>2. h[k + 1] = Handled(h[(k + 1) - 1], wire[k + 1])
    BY <1>4, <2>1
  <2> QED
    BY <1>8, <2>1, <2>2
<1>10. Leads(g)'
  BY <1>2, <1>6, <1>7, <1>9 DEF Leads, Buffer
<1> QED
  BY <1>2, <1>3, <1>7, <1>10 DEF BufferInv, Buffer

LEMMA DocumentsStep ==
  ASSUME Odd = {} PROVE BufferInv /\ [Next]_vars => BufferInv'
<1> SUFFICES ASSUME BufferInv, [Next]_vars PROVE BufferInv'
  OBVIOUS
<1>1. CASE DidOpen
  <2>1. PICK text \in Texts : text = client'
    BY <1>1 DEF DidOpen
  <2>2. [kind |-> "open", text |-> text] \in Notifications
    BY DEF Notifications
  <2>3. Handled(client, [kind |-> "open", text |-> text]) = text
    BY DEF Handled
  <2> QED
    BY <1>1, <2>1, <2>2, <2>3, SendKeeps DEF DidOpen, Buffer
<1>2. CASE DidClose
  <2>1. [kind |-> "close"] \in Notifications
    BY DEF Notifications
  <2>2. Handled(client, [kind |-> "close"]) = None
    BY DEF Handled
  <2> QED
    BY <1>2, <2>1, <2>2, SendKeeps DEF DidClose, Buffer
<1>3. CASE DidChange
  BY <1>3, ChangeKeeps
<1>4. CASE Handle
  BY <1>4, HandleKeeps
<1>5. CASE DidReplace
  <2>1. PICK text \in Texts : text = client'
    BY <1>5 DEF DidReplace
  <2>2. [kind |-> "full", text |-> text] \in Notifications
    BY DEF Notifications
  <2>3. Handled(client, [kind |-> "full", text |-> text]) = text
    BY <1>5 DEF Handled, DidReplace
  <2> QED
    BY <1>5, <2>1, <2>2, <2>3, SendKeeps DEF DidReplace, Buffer
<1>6. CASE UNCHANGED vars
  <2>1. enc' = enc /\ client' = client /\ server' = server /\ wire' = wire
    BY <1>6 DEF vars
  <2>2. \A a, b : Handled(a, b)' = Handled(a, b)
    BY <2>1 DEF Handled, Applied, ToOffset, Units, UnitsOf
  <2>3. \A h : Leads(h)' = Leads(h)
    BY <2>1, <2>2 DEF Leads
  <2> QED
    BY <2>1, <2>3 DEF BufferInv
<1> QED
  BY <1>1, <1>2, <1>3, <1>4, <1>5, <1>6 DEF Next

LEMMA BufferInvariance == ASSUME Odd = {} PROVE Spec => []BufferInv
BY BufferInit, DocumentsStep, PTL DEF Spec

(* Where the rope has the protocol's line ends: once every notification is *)
(* handled the server has the client's text, whatever the alphabet, the    *)
(* widths of its characters in the negotiated encoding, the edits, and the *)
(* number of them under way.                                               *)
THEOREM BuffersStayInStep == ASSUME Odd = {} PROVE Spec => []BuffersInStep
<1>1. BufferInv => BuffersInStep
  <2> SUFFICES ASSUME BufferInv, wire = <<>> PROVE server = client
    BY DEF BuffersInStep
  <2>1. PICK h : Leads(h)
    BY DEF BufferInv
  <2>2. Len(wire) = 0
    OBVIOUS
  <2> QED
    BY <2>1, <2>2 DEF Leads
<1> QED
  BY <1>1, BufferInvariance, PTL

-----------------------------------------------------------------------------
(* Positions a server sends, and the edits made of them.                   *)

(* A client finds the offset a position was made from, unless it lies      *)
(* inside a line end: no line end of the line lies before the offset.      *)
LEMMA ClientRoundTrip ==
  ASSUME enc \in DOMAIN Width, NEW t \in Texts, NEW i \in Boundaries(t)
  PROVE  ClientOffset(t, ToPosition(t, i, {})) = i
<1> DEFINE n == LineOf(t, i, {})
           s == StartOf(t, n, {})
           e == EndOf(t, s, {})
           line == {k \in s..e : \A m \in (s + 1)..k : t[m] \notin {LF, CR}}
           K == {k \in line : Units(t, s, k) <= Units(t, s, i)}
<1>1. Len(t) \in Nat /\ t \in Seq(Chars) /\ i \in 0..Len(t)
  BY TextsAreSequences DEF Boundaries
<1>2. /\ s \in LineStarts(t, {}) /\ s \in 0..i
      /\ \A x \in LineStarts(t, {}) : x <= i => x <= s
      /\ e \in i..Len(t) /\ n \in 0..(Cardinality(LineStarts(t, {})) - 1)
  BY <1>1, LineFound
<1>3. ~(n >= Cardinality(LineStarts(t, {})))
  <2>1. Cardinality(LineStarts(t, {})) \in Nat
    BY <1>1, StartsFinite
  <2> HIDE DEF n
  <2> QED
    BY <1>2, <2>1
<1>4. ASSUME NEW m \in (s + 1)..i PROVE t[m] \notin {LF, CR}
  <2>1. m \in 1..Len(t) /\ m > s /\ m <= i
    BY <1>1, <1>2
  <2>2. ~EndsLine(t, m, {})
    <3>1. EndsLine(t, m, {}) => m \in LineStarts(t, {})
      BY <2>1 DEF LineStarts
    <3>2. s \in Nat /\ m \in Nat
      BY <1>1, <1>2, <2>1
    <3> QED
      BY <1>2, <2>1, <3>1, <3>2
  <2>3. t[m] # LF
    BY <2>2 DEF EndsLine
  <2>4. ASSUME t[m] = CR PROVE FALSE
    <3>1. m < Len(t) /\ t[m + 1] = LF
      BY <2>2, <2>4 DEF EndsLine
    <3>2. m # i
      BY <1>1, <2>1, <2>4, <3>1 DEF Boundaries
    <3>3. m + 1 \in 1..Len(t) /\ m + 1 > s /\ m + 1 <= i
      BY <1>1, <1>2, <2>1, <3>1, <3>2
    <3>4. m + 1 \in LineStarts(t, {})
      BY <3>1, <3>3 DEF LineStarts, EndsLine
    <3> QED
      BY <1>1, <1>2, <3>3, <3>4
  <2> QED
    BY <2>3, <2>4
<1>5. i \in K /\ \A k \in K : k <= i
  <2>1. i \in K
    <3>1. Units(t, s, i) \in Nat
      BY <1>1, <1>2, UnitsFinite
    <3>2. i \in s..e
      BY <1>1, <1>2
    <3> QED
      BY <1>4, <3>1, <3>2
  <2>2. ASSUME NEW k \in s..e, i < k PROVE k \notin K
    <3>1. /\ s \in Nat /\ i \in Nat /\ k \in Nat /\ s <= i /\ k <= Len(t)
      BY <1>1, <1>2, <2>2
    <3>2. Units(t, s, i) < Units(t, s, k) /\ Units(t, s, i) \in Nat /\ Units(t, s, k) \in Nat
      BY <2>2, <3>1, UnitsGrow, UnitsFinite
    <3> QED
      BY <3>2
  <2> QED
    BY <1>1, <1>2, <2>1, <2>2
<1>6. Max(K) = i
  <2>1. K \in SUBSET Nat
    BY <1>1, <1>2
  <2> HIDE DEF K
  <2> QED
    BY <1>5, <2>1, MaxIs
<1>7. ClientOffset(t, ToPosition(t, i, {})) = Max(K)
  BY <1>3 DEF ClientOffset, ToPosition
<1> QED
  BY <1>6, <1>7

(* A text is what two of its cuts part it into.                            *)
LEMMA Parted ==
  ASSUME NEW f \in Seq(Chars), NEW a \in 0..Len(f), NEW b \in a..Len(f)
  PROVE  SubSeq(f, 1, a) \o SubSeq(f, a + 1, b) \o SubSeq(f, b + 1, Len(f)) = f
<1> DEFINE A == SubSeq(f, 1, a)
           B == SubSeq(f, a + 1, b)
           C == SubSeq(f, b + 1, Len(f))
           AB == A \o B
<1>1. /\ A \in Seq(Chars) /\ Len(A) = a /\ \A k \in 1..a : A[k] = f[k]
      /\ B \in Seq(Chars) /\ Len(B) = b - a /\ \A k \in 1..(b - a) : B[k] = f[a + k]
      /\ C \in Seq(Chars) /\ Len(C) = Len(f) - b /\ \A k \in 1..(Len(f) - b) : C[k] = f[b + k]
  OBVIOUS
<1> HIDE DEF A, B, C
<1>2. /\ AB \in Seq(Chars) /\ Len(AB) = b
      /\ \A k \in 1..b : AB[k] = IF k <= a THEN A[k] ELSE B[k - a]
  <2>1. /\ A \o B \in Seq(Chars) /\ Len(A \o B) = Len(A) + Len(B)
        /\ \A k \in 1..Len(A) + Len(B) : (A \o B)[k] = IF k <= Len(A) THEN A[k]
                                                       ELSE B[k - Len(A)]
    <3>1. A \in Seq(Chars) /\ B \in Seq(Chars)
      BY <1>1
    <3> QED
      BY <3>1, ConcatProperties
  <2>2. Len(A) = a /\ Len(A) + Len(B) = b
    BY <1>1
  <2> QED
    BY <2>1, <2>2
<1>3. \A k \in 1..b : AB[k] = f[k]
  BY <1>1, <1>2
<1> HIDE DEF AB
<1>4. /\ AB \o C \in Seq(Chars) /\ Len(AB \o C) = Len(f)
      /\ \A k \in 1..Len(f) : (AB \o C)[k] = IF k <= b THEN AB[k] ELSE C[k - b]
  <2>1. AB \in Seq(Chars) /\ C \in Seq(Chars)
    BY <1>1, <1>2
  <2>2. /\ AB \o C \in Seq(Chars) /\ Len(AB \o C) = Len(AB) + Len(C)
        /\ \A k \in 1..Len(AB) + Len(C) : (AB \o C)[k] = IF k <= Len(AB) THEN AB[k]
                                                         ELSE C[k - Len(AB)]
    BY <2>1, ConcatProperties
  <2>3. Len(AB) = b /\ Len(AB) + Len(C) = Len(f)
    BY <1>1, <1>2
  <2> QED
    BY <2>2, <2>3
<1>5. \A k \in 1..Len(f) : (AB \o C)[k] = f[k]
  BY <1>1, <1>3, <1>4
<1>6. AB \o C = f
  BY <1>4, <1>5, SeqEqual
<1> QED
  BY <1>6 DEF AB, A, B, C

(* The pieces a formatter's edit leaves alone: two texts are the same      *)
(* before the prefix and behind the suffix, which do not meet, and both    *)
(* are cuts.                                                               *)
LEMMA PrefixAndSuffix ==
  ASSUME NEW t \in Seq(Chars), NEW f \in Seq(Chars)
  PROVE  LET p == CommonPrefix(t, f)
             d == CommonSuffix(t, f)
         IN  /\ p \in Cuts(t) /\ p \in 0..(Len(t) - d) /\ p \in 0..(Len(f) - d) /\ d \in Nat
             /\ SubSeq(t, 1, p) = SubSeq(f, 1, p)
             /\ SameTail(t, f, d)
<1> DEFINE P == {c \in Cuts(t) \cap Cuts(f) : SubSeq(t, 1, c) = SubSeq(f, 1, c)}
           p == Max(P)
           least == Min({Len(t), Len(f)})
           D == {d \in 0..(least - p) : SameTail(t, f, d)}
<1>1. Len(t) \in Nat /\ Len(f) \in Nat
  OBVIOUS
<1>2. /\ Cuts(t) \in SUBSET (0..Len(t)) /\ Cuts(f) \in SUBSET (0..Len(f))
      /\ 0 \in Cuts(t) \cap Cuts(f)
  BY <1>1 DEF Cuts
<1>3. p \in P
  <2>1. P \in SUBSET (0..Len(t)) /\ 0 \in P
    BY <1>2
  <2> HIDE DEF P
  <2> QED
    BY <1>1, <2>1, MaxExists
<1>4. least \in {Len(t), Len(f)} /\ least <= Len(t) /\ least <= Len(f)
  BY <1>1, MinExists
<1>5. p \in 0..least /\ p \in Cuts(t) /\ SubSeq(t, 1, p) = SubSeq(f, 1, p)
  BY <1>1, <1>2, <1>3, <1>4
<1> HIDE DEF p, P
<1>6. Max(D) \in D
  <2>1. least - p \in Nat /\ D \in SUBSET (0..(least - p))
    BY <1>1, <1>4, <1>5
  <2>2. 0 \in D
    <3>1. SubSeq(t, Len(t) - 0 + 1, Len(t)) = <<>> /\ SubSeq(f, Len(f) - 0 + 1, Len(f)) = <<>>
      BY <1>1
    <3>2. Len(t) - 0 \in Cuts(t) /\ Len(f) - 0 \in Cuts(f)
      BY <1>1 DEF Cuts
    <3>3. SameTail(t, f, 0)
      BY <3>1, <3>2 DEF SameTail
    <3> QED
      BY <2>1, <3>3
  <2> HIDE DEF D, least
  <2> QED
    BY <2>1, <2>2, MaxExists
<1>7. /\ Max(D) \in Nat /\ p \in 0..(Len(t) - Max(D)) /\ p \in 0..(Len(f) - Max(D))
      /\ SameTail(t, f, Max(D))
  BY <1>1, <1>4, <1>5, <1>6
<1>8. CommonPrefix(t, f) = p /\ CommonSuffix(t, f) = Max(D)
  BY DEF CommonPrefix, CommonSuffix, p, P
<1> HIDE DEF D, least
<1> QED
  BY <1>5, <1>7, <1>8

LEMMA CutsAreBoundaries ==
  ASSUME NEW t \in Seq(Chars) PROVE Cuts(t) \subseteq Boundaries(t)
BY DocumentsAssumption DEF Cuts, Boundaries

LEMMA EditLands ==
  ASSUME Odd = {}, enc \in DOMAIN Width, NEW t \in Texts, NEW f \in Texts
  PROVE  LET e == MinimalEdit(t, f)
         IN  Splice(t, ClientOffset(t, e.start), ClientOffset(t, e.end), e.text) = f
<1> DEFINE p == CommonPrefix(t, f)
           d == CommonSuffix(t, f)
           e == MinimalEdit(t, f)
<1>1. /\ t \in Seq(Chars) /\ Len(t) \in Nat /\ f \in Seq(Chars) /\ Len(f) \in Nat
  BY TextsAreSequences
<1>2. /\ p \in Cuts(t) /\ p \in 0..(Len(t) - d) /\ p \in 0..(Len(f) - d) /\ d \in Nat
      /\ SubSeq(t, 1, p) = SubSeq(f, 1, p)
      /\ SameTail(t, f, d)
  BY <1>1, PrefixAndSuffix
<1>3. /\ e.start = ToPosition(t, p, {}) /\ e.end = ToPosition(t, Len(t) - d, {})
      /\ e.text = SubSeq(f, p + 1, Len(f) - d)
  BY DEF MinimalEdit
<1> HIDE DEF p, d, e
<1>4. p \in Boundaries(t) /\ Len(t) - d \in Boundaries(t)
  BY <1>1, <1>2, CutsAreBoundaries DEF SameTail
<1>5. ClientOffset(t, e.start) = p /\ ClientOffset(t, e.end) = Len(t) - d
  BY <1>3, <1>4, ClientRoundTrip
<1>6. SubSeq(t, (Len(t) - d) + 1, Len(t)) = SubSeq(f, (Len(f) - d) + 1, Len(f))
  BY <1>2 DEF SameTail
<1>7. Splice(t, p, Len(t) - d, e.text)
        = SubSeq(f, 1, p) \o SubSeq(f, p + 1, Len(f) - d) \o SubSeq(f, (Len(f) - d) + 1, Len(f))
  BY <1>2, <1>3, <1>6 DEF Splice
<1>8. p \in 0..Len(f) /\ Len(f) - d \in p..Len(f)
  BY <1>1, <1>2
<1>9. Splice(t, p, Len(t) - d, e.text) = f
  BY <1>1, <1>7, <1>8, Parted
<1> QED
  BY <1>5, <1>9 DEF e

(* Where the rope has the protocol's line ends: a position the server      *)
(* sends of a text both have is the same place for the client, and a       *)
(* formatter's edit makes of the text what the formatter printed.          *)
THEOREM EditsDoLand == ASSUME Odd = {} PROVE Spec => []EditsLand
<1>1. BufferInv => EditsLand
  <2>1. SUFFICES ASSUME BufferInv, server # None PROVE PositionsAgree /\ FormatLands
    BY DEF EditsLand
  <2>2. server \in Texts /\ enc \in DOMAIN Width
    BY <2>1 DEF BufferInv, Buffer
  <2>3. PositionsAgree
    <3>1. Boundaries(server) \in SUBSET (0..Len(server))
      BY DEF Boundaries
    <3> QED
      BY <2>2, <3>1, RoundTrip, ClientRoundTrip DEF PositionsAgree
  <2>4. FormatLands
    BY <2>2, EditLands DEF FormatLands
  <2> QED
    BY <2>3, <2>4
<1> QED
  BY <1>1, BufferInvariance, PTL
=============================================================================
