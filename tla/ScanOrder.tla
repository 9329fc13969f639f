----------------------------- MODULE ScanOrder -----------------------------
(***************************************************************************)
(* The order in which the editor's first scan reaches two script files     *)
(* (crates/gd_project/src/scan_order.rs), which decides between files that *)
(* declare one class name: the later one owns it, and the registry keeps   *)
(* the maximum of its declarers.  The comparison of paths is checked       *)
(* against the walk it stands for, and the comparison of names for being   *)
(* an order at all: its rules for underscores, dots and numbers each look  *)
(* at a different part of the names.                                       *)
(*                                                                         *)
(* A name is a sequence of characters, a path one of names.                *)
(***************************************************************************)
EXTENDS Integers, Sequences, FiniteSets, FiniteSetsExt, SequencesExt

CONSTANTS
  Names,    \* the file and directory names to compare
  Code,     \* character -> its code point
  Upper,    \* character -> its upper case
  Digits,   \* digit character -> its value
  Trees     \* the projects to walk: sets of paths of files

CONSTANTS Underscore, Dot

Letters == DOMAIN Code
Words   == Seq(Letters)

\* A file is no directory.
ASSUME OrderAssumption ==
  /\ Code \in [Letters -> Nat] /\ \A c, d \in Letters : Code[c] = Code[d] => c = d
  /\ Upper \in [Letters -> Letters]
  /\ Underscore # Dot
  /\ Names \subseteq Words
  /\ \A t \in Trees :
       /\ IsFiniteSet(t) /\ t \subseteq Seq(Names) \ {<<>>}
       /\ \A f, h \in t : IsPrefix(f, h) => f = h

\* The comparisons return -1, 0 or 1, like Ordering.
Sign(x, y) == IF x < y THEN -1 ELSE IF x > y THEN 1 ELSE 0

BeginsWith(s, c) == s # <<>> /\ Head(s) = c

CompareBytes[ab \in Words \X Words] ==
  LET a == ab[1]
      b == ab[2]
  IN  IF a = <<>> \/ b = <<>> THEN Sign(Len(a), Len(b))
      ELSE IF Head(a) # Head(b) THEN Sign(Code[Head(a)], Code[Head(b)])
      ELSE CompareBytes[<<Tail(a), Tail(b)>>]

\* digit_run_end, strip_leading_zeros: where the number a name starts with ends,
\* and its digits without the leading zeros.
RunEnd(s) == Max({k \in 0..Len(s) : \A i \in 1..k : s[i] \in DOMAIN Digits})
Zeros(s)  == Max({k \in 0..RunEnd(s) : \A i \in 1..k : Digits[s[i]] = 0})
Significant(s) == SubSeq(s, Zeros(s) + 1, RunEnd(s))

\* compare_digit_runs: the longer number, then digit by digit.
CompareNumbers(x, y) ==
  IF Len(x) # Len(y) THEN Sign(Len(x), Len(y)) ELSE CompareBytes[<<x, y>>]

\* natural_nocase_cmp after its dots: a number sorts before any other character.
IsNumber(s) == s # <<>> /\ Head(s) \in DOMAIN Digits
Beyond(s)   == IF IsNumber(s) THEN SubSeq(s, RunEnd(s) + 1, Len(s)) ELSE Tail(s)
CompareNatural[ab \in Words \X Words] ==
  LET a == ab[1]
      b == ab[2]
      sign == IF IsNumber(a) /\ IsNumber(b) THEN CompareNumbers(Significant(a), Significant(b))
              ELSE IF IsNumber(a) THEN -1
              ELSE IF IsNumber(b) THEN 1
              ELSE Sign(Code[Upper[Head(a)]], Code[Upper[Head(b)]])
  IN  IF a = <<>> \/ b = <<>> THEN Sign(Len(a), Len(b))
      ELSE IF sign # 0 THEN sign ELSE CompareNatural[<<Beyond(a), Beyond(b)>>]

\* natural_nocase_cmp: leading dots, as long as either name has one.
CompareDots[ab \in Words \X Words] ==
  LET a == ab[1]
      b == ab[2]
  IN  IF ~BeginsWith(a, Dot) /\ ~BeginsWith(b, Dot) THEN CompareNatural[ab]
      ELSE IF ~BeginsWith(a, Dot) THEN 1
      ELSE IF ~BeginsWith(b, Dot) THEN -1
      ELSE IF Len(b) = 1 THEN 1
      ELSE IF Len(a) = 1 THEN -1
      ELSE CompareDots[<<Tail(a), Tail(b)>>]

\* filenocasecmp: leading underscores before everything but a dot.
CompareNames[ab \in Words \X Words] ==
  LET a == ab[1]
      b == ab[2]
      underA == BeginsWith(a, Underscore)
      underB == BeginsWith(b, Underscore)
  IN  IF a = <<>> \/ b = <<>> \/ (~underA /\ ~underB) THEN CompareDots[ab]
      ELSE IF ~underA THEN (IF Head(a) = Dot THEN -1 ELSE 1)
      ELSE IF ~underB THEN (IF Head(b) = Dot THEN 1 ELSE -1)
      ELSE CompareNames[<<Tail(a), Tail(b)>>]

\* Mutant: names that differ in case or zeros only are equal.
NameOrderNoCase(a, b) == CompareNames[<<a, b>>]

NameOrder(a, b) ==
  IF CompareNames[<<a, b>>] # 0 THEN CompareNames[<<a, b>>] ELSE CompareBytes[<<a, b>>]

\* The names two paths start with in common.
Shared(a, b) == Max({k \in 0..Len(a) : k <= Len(b) /\ \A i \in 1..k : a[i] = b[i]})

\* Mutant: the names decide before what they are.
ScanOrderByName(a, b) ==
  LET n == Shared(a, b)
  IN  IF n = Len(a) \/ n = Len(b) THEN Sign(Len(a), Len(b)) ELSE NameOrder(a[n + 1], b[n + 1])

\* godot_scan_order: a file comes after everything in the directories beside it.
GodotScanOrder(a, b) ==
  LET n == Shared(a, b)
      fileA == n + 1 = Len(a)
      fileB == n + 1 = Len(b)
  IN  IF n = Len(a) \/ n = Len(b) THEN Sign(Len(a), Len(b))
      ELSE IF fileA /\ ~fileB THEN 1
      ELSE IF fileB /\ ~fileA THEN -1
      ELSE NameOrder(a[n + 1], b[n + 1])

(***************************************************************************)
(* What is compared: two names, or two files of a project.                 *)
(***************************************************************************)
VARIABLES left, right, tree

orderVars == <<left, right, tree>>

OrderInit ==
  \/ tree = {} /\ left \in Names /\ right \in Names
  \/ tree \in Trees /\ left \in tree /\ right \in tree

OrderNext == UNCHANGED orderVars

OrderSpec == OrderInit /\ [][OrderNext]_orderVars

\* _first_scan_process_scripts, below the first k names of the files: each
\* subdirectory is walked, by name, before the next, then the directory's own
\* files follow, by name.
First(names) == CHOOSE n \in names : \A m \in names \ {n} : NameOrder(n, m) = -1
Walk ==
  LET Levels == {at \in Nat \X SUBSET tree : \A f \in at[2] : Len(f) > at[1]}
      walk[at \in Levels] ==
        LET k     == at[1]
            files == at[2]
            deep  == {f \in files : Len(f) > k + 1}
            dir   == First({f[k + 1] : f \in deep})
            below == {f \in deep : f[k + 1] = dir}
            name  == First({f[k + 1] : f \in files})
            own   == CHOOSE f \in files : f[k + 1] = name
        IN  IF files = {} THEN <<>>
            ELSE IF deep # {} THEN walk[<<k + 1, below>>] \o walk[<<k, files \ below>>]
            ELSE <<own>> \o walk[<<k, files \ {own}>>]
  IN  walk[<<0, tree>>]

Place(file) == CHOOSE n \in DOMAIN Walk : Walk[n] = file

(***************************************************************************)
(* Properties.                                                             *)
(***************************************************************************)
\* The comparison of names is a strict total order, whatever mix of dots,
\* underscores, numbers and cases two names have.
NamesAreOrdered ==
  tree = {} /\ left # right =>
    /\ NameOrder(left, right) \in {-1, 1}
    /\ NameOrder(right, left) = -NameOrder(left, right)
    /\ NameOrder(left, right) = -1 =>
         \A next \in Names : NameOrder(right, next) = -1 => NameOrder(left, next) = -1

\* The comparison of two paths agrees with the walk.
WalkAgrees ==
  tree # {} => GodotScanOrder(left, right) = Sign(Place(left), Place(right))

\* "The answer never depends on insertion order" (scan_order.rs): the names are
\* ordered, so that the last of several declarers is one file; and nothing but
\* two paths is looked at, and yet every file of a project falls where the scan
\* of the whole project reaches it.
LastScannedWins == NamesAreOrdered /\ WalkAgrees
=============================================================================
