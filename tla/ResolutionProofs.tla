-------------------------- MODULE ResolutionProofs --------------------------
(***************************************************************************)
(* What a name stands for, whatever classes, names and files a project has. *)
(* The bases the resolver leaves are sound (Inheritance): no circle at any *)
(* moment, roots that stay true, no class left out of a pass without an    *)
(* error; and they are the links of the interface index, which reads the   *)
(* same clauses on its own. Of several files that declare a class, the last *)
(* the editor scans is one file, found from the paths alone (ScanOrder).   *)
(***************************************************************************)
EXTENDS Inheritance, ScanOrder, SequenceTheorems, FiniteSetTheorems, WellFoundedInduction, TLAPS

(***************************************************************************)
(* The inductive invariant.                                                *)
(***************************************************************************)
\* What a clause may lead to, and what it may lead to when it is kept: a class of
\* the file has been entered by then.
Found(at)  == /\ at.kind \in {"class", "script", "native", "unknown"}
              /\ at.kind = "class" => at.of \in Own
Usable(at) == Found(at) /\ (at.kind = "class" => base[at.of] # Unset)

\* A call is for a class that has the sentinel and no root.
FrameSound(f) ==
  /\ f.class \in Own /\ base[f.class] = Resolving /\ root[f.class] = "unknown"
  /\ f.at = Unset \/ Usable(f.at)

Shape == /\ project \in Projects
         /\ DOMAIN base = Own /\ DOMAIN root = Own
         /\ next \in 1..End
         /\ \E V : frames \in Seq(V)

FramesSound ==
  /\ \A i \in 1..Len(frames) : FrameSound(frames[i])
  /\ \A i, j \in 1..Len(frames) : frames[i].class = frames[j].class => i = j

BasesUsable ==
  \A c \in Own :
    /\ base[c].kind = "class" => Usable(base[c])
    /\ base[c] \in {Unset, Resolving} => root[c] = "unknown"

\* Behind the driver every class is settled, and the outermost call is the
\* driver's.
Progress ==
  /\ ~failed => \A i \in 1..(next - 1) : Settled(project.order[i])
  /\ frames # <<>> => next < End /\ frames[Len(frames)].class = project.order[next]

IInv == Shape /\ FramesSound /\ BasesUsable /\ Progress /\ ChainsEnd /\ RootsHold

-----------------------------------------------------------------------------
(* A set of natural numbers has a smallest one.                            *)
LEMMA MinExists ==
  ASSUME NEW S \in SUBSET Nat, S # {}
  PROVE  Min(S) \in S /\ \A x \in S : Min(S) <= x
<1> DEFINE R == {ss \in Nat \X Nat : ss[1] < ss[2]}
<1>1. IsWellFoundedOn(R, Nat)
  BY NatLessThanWellFounded DEF OpToRel
<1>2. PICK m \in S : \A y \in S : <<y, m>> \notin R
  <2> HIDE DEF R
  <2> QED
    BY <1>1, WFMin
<1>3. \A y \in S : m <= y
  <2> TAKE y \in S
  <2>1. y \in Nat /\ m \in Nat
    OBVIOUS
  <2>2. ~ (y < m)
    BY <1>2, <2>1
  <2> QED
    BY <2>1, <2>2
<1> QED
  BY <1>3 DEF Min

(* How classes nest.                                                       *)
LEMMA Nesting ==
  ASSUME project \in Projects
  PROVE  /\ Own \subseteq Classes /\ Nil \notin Classes /\ IsFiniteSet(Classes)
         /\ project.order \in Seq(Classes)
         /\ \A c \in Classes :
              /\ project.outer[c] \in Classes \cup {Nil}
              /\ project.outer[c] # Nil => (c \in Own <=> project.outer[c] \in Own)
              /\ Clause(c) \in {Nil} \cup [path  : Classes \cup {Nil, Missing},
                                         names : Seq(STRING)]
         /\ \A c, d \in Own : c \in Heads /\ d \in Heads => c = d
         /\ \E depth \in [Classes -> Nat] :
              \A c \in Classes : project.outer[c] # Nil => depth[project.outer[c]] < depth[c]
<1>1. Classes = DOMAIN project.outer /\ Own = Range(project.order)
  BY DEF Classes, Own
<1>2. /\ IsFiniteSet(Classes) /\ Nil \notin Classes
      /\ project.outer \in [Classes -> Classes \cup {Nil}]
      /\ project.clause \in [Classes -> {Nil} \cup [path  : Classes \cup {Nil, Missing},
                                                names : Seq(STRING)]]
      /\ project.order \in Seq(Classes)
      /\ \A c \in Classes : project.outer[c] # Nil => (c \in Own <=> project.outer[c] \in Own)
      /\ \A c, d \in Own : project.outer[c] = Nil /\ project.outer[d] = Nil => c = d
  BY <1>1, ProjectsAssumption
<1>3. PICK depth \in [Classes -> 0..Cardinality(Classes)] :
        \A c \in Classes : project.outer[c] # Nil => depth[project.outer[c]] < depth[c]
  BY <1>1, ProjectsAssumption
<1>4. depth \in [Classes -> Nat]
  OBVIOUS
<1>5. Own \subseteq Classes
  BY <1>2 DEF Own, Range
<1> QED
  BY <1>2, <1>3, <1>4, <1>5 DEF Clause, Heads

(* An inner class of a class of the file is of the file.                   *)
LEMMA InnerIsOwn ==
  ASSUME project \in Projects, NEW c \in Own, NEW n, Inner(c, n) # Nil
  PROVE  Inner(c, n) \in Own
<1>1. Inner(c, n) \in {d \in Classes : project.outer[d] = c /\ project.name[d] = n}
  BY DEF Inner, OneOf
<1> QED
  BY <1>1, Nesting

(* The head of a clause leads to nothing but what a clause may lead to.    *)
LEMMA HeadedIsFound ==
  ASSUME project \in Projects, NEW c
  PROVE  Headed(c) = Failure \/ Found(Headed(c))
<1> DEFINE n == Head(Clause(c).names)
<1>1. \A x : Found(Native(x)) /\ Found(Script(x))
  BY DEF Found, Native, Script, Unknown
<1>2. \A x \in Own : Found(Class(x))
  BY DEF Found, Class
<1>3. InScope(c, n) = Failure \/ Found(InScope(c, n))
  <2> DEFINE scope == Scope(c)
             hits  == {i \in 1..Len(scope) : scope[i] \in Own /\ Named(scope[i], n)}
             at    == scope[Min(hits)]
  <2>1. CASE hits = {}
    BY <2>1, <1>1 DEF InScope
  <2>2. CASE hits # {}
    <3>1. hits \in SUBSET Nat
      OBVIOUS
    <3>2. Min(hits) \in hits
      <4> HIDE DEF hits
      <4> QED
        BY <2>2, <3>1, MinExists
    <3>3. at \in Own
      BY <3>2
    <3>4. Inner(at, n) # Nil => Inner(at, n) \in Own
      BY <3>3, InnerIsOwn
    <3>5. InScope(c, n) = IF project.name[at] = n THEN Class(at)
                          ELSE IF Inner(at, n) # Nil THEN Class(Inner(at, n))
                          ELSE IF project.member[at][n] = Other THEN Failure
                          ELSE Script(project.member[at][n])
      BY <2>2 DEF InScope
    <3> HIDE DEF at
    <3> QED
      BY <3>3, <3>4, <3>5, <1>1, <1>2
  <2> QED
    BY <2>1, <2>2
<1> HIDE DEF n
<1>4. Headed(c) = IF Clause(c).path = Missing THEN Failure
      ELSE IF Clause(c).path # Nil THEN Script(Clause(c).path)
      ELSE IF Clause(c).names = <<>> THEN Failure
      ELSE IF Global(n) # Nil
           THEN IF Global(n) \in Own THEN Class(Global(n)) ELSE Script(Global(n))
      ELSE IF n \notin project.natives THEN InScope(c, n)
      ELSE IF n \in project.singletons THEN Failure ELSE Native(n)
  BY DEF Headed, n
<1> QED
  BY <1>1, <1>2, <1>3, <1>4

(* So does a segment.                                                      *)
LEMMA NestedIsFound ==
  ASSUME project \in Projects, NEW at, Found(at), NEW n
  PROVE  Nested(at, n) = Failure \/ Found(Nested(at, n))
<1>1. \A x : Found(Script(x))
  BY DEF Found, Script, Unknown
<1>2. \A x \in Own : Found(Class(x))
  BY DEF Found, Class
<1>3. CASE at.kind = "class" /\ Inner(at.of, n) # Nil
  <2>1. Inner(at.of, n) \in Own
    BY <1>3, InnerIsOwn DEF Found
  <2> QED
    BY <1>1, <1>2, <1>3, <2>1 DEF Nested
<1>4. CASE ~(at.kind = "class" /\ Inner(at.of, n) # Nil)
  BY <1>1, <1>4 DEF Nested
<1> QED
  BY <1>3, <1>4

-----------------------------------------------------------------------------
(* The initial states.                                                     *)
LEMMA Starts == InheritInit => IInv
<1> SUFFICES ASSUME InheritInit
             PROVE  IInv
  OBVIOUS
<1> USE DEF InheritInit
<1>1. project.order \in Seq(Classes) /\ Len(project.order) \in Nat
  BY Nesting
<1>2. Shape
  <2>1. frames \in Seq({})
    BY EmptySeq
  <2> QED
    BY <1>1, <2>1 DEF Shape, End
<1>3. FramesSound /\ Progress
  BY DEF FramesSound, Progress
<1>4. \A c \in Own : base[c] = Unset /\ base[c].kind = "unset" /\ root[c] = "unknown"
  BY DEF Unset
<1>5. BasesUsable /\ RootsHold /\ ChainsEnd
  BY <1>4 DEF BasesUsable, RootsHold, ChainsEnd
<1> QED
  BY <1>2, <1>3, <1>5 DEF IInv

(* An error: the tables stay, the calls are gone, the driver goes on.      *)
LEMMA FailKeeps ==
  ASSUME IInv, Fail, next < End
  PROVE  IInv'
<1> USE DEF IInv, Fail
<1>1. Own' = Own /\ End' = End
  BY DEF Own, End
<1>2. End \in Nat /\ next \in Nat
  BY Nesting DEF Shape, End
<1>3. next' \in 1..End
  <2>1. CASE project.dialect = "4.6"
    BY <1>2, <2>1 DEF Shape
  <2>2. CASE project.dialect # "4.6"
    <3> DEFINE K == {k \in (next + 1)..End :
                      k = End \/ project.order[next] \notin Around[project.order[k]]}
    <3>1. K \in SUBSET Nat /\ End \in K
      BY <1>2
    <3>2. Min(K) \in K
      <4> HIDE DEF K
      <4> QED
        BY <3>1, MinExists
    <3>3. Min(K) \in 1..End
      BY <3>2, <1>2
    <3> QED
      BY <3>3, <2>2 DEF Behind
  <2> QED
    BY <2>1, <2>2
<1>4. Shape'
  <2>1. frames' \in Seq({})
    BY EmptySeq
  <2> QED
    BY <1>1, <1>3, <2>1 DEF Shape
<1>5. FramesSound' /\ Progress'
  BY DEF FramesSound, Progress
<1>6. BasesUsable' /\ RootsHold' /\ ChainsEnd'
  BY <1>1 DEF BasesUsable, Usable, Found, RootsHold, ChainsEnd
<1> QED
  BY <1>4, <1>5, <1>6

(* A class is entered that was not before.                                 *)
LEMMA EnterKeeps ==
  ASSUME IInv, NEW c \in Own, base[c] = Unset, next < End,
         NEW V, NEW calls \in Seq(V), Enter(c, calls),
         \A i \in 1..Len(calls) :
            /\ calls[i].class \in Own /\ base[calls[i].class] = Resolving
            /\ root[calls[i].class] = "unknown"
            /\ calls[i].at = Unset \/ (Found(calls[i].at)
                 /\ (calls[i].at.kind = "class" => calls[i].at.of = c \/ base[calls[i].at.of] # Unset)),
         \A i, j \in 1..Len(calls) : calls[i].class = calls[j].class => i = j,
         IF calls = <<>> THEN c = project.order[next]
         ELSE calls[Len(calls)].class = project.order[next]
  PROVE  IInv'
<1> USE DEF IInv, Enter
<1>1. Own' = Own /\ End' = End
  BY DEF Own, End
<1>2. /\ DOMAIN base' = Own
      /\ base'[c] = Resolving
      /\ \A d \in Own : d # c => base'[d] = base[d]
  BY DEF Shape
<1>3. Resolving # Unset /\ Resolving.kind = "resolving"
  BY DEF Resolving, Unset
<1>4. frames' = <<Frame(c)>> \o calls
  OBVIOUS
<1>5. /\ frames' \in Seq(V \cup {Frame(c)}) /\ Len(frames') = Len(calls) + 1
      /\ frames'[1] = Frame(c) /\ \A i \in 2..Len(frames') : frames'[i] = calls[i - 1]
  <2> HIDE DEF IInv, Enter
  <2>1. calls \in Seq(V \cup {Frame(c)}) /\ <<Frame(c)>> \in Seq(V \cup {Frame(c)})
    BY SeqMonotonic
  <2> QED
    BY <1>4, <2>1, ConcatProperties
<1>6. Len(calls) \in Nat
  OBVIOUS
<1>7. Shape'
  BY <1>1, <1>2, <1>5 DEF Shape
<1>8. \A at : Found(at) /\ (at.kind = "class" => at.of = c \/ base[at.of] # Unset)
               => Usable(at)'
  BY <1>1, <1>2, <1>3 DEF Found, Usable
<1>9. ASSUME NEW f, f = Frame(c)
      PROVE  FrameSound(f)'
  <2>1. f.class = c /\ f.at \in {Unset, Native(Implicit)}
    BY <1>9 DEF Frame
  <2>2. Found(Native(Implicit)) /\ Native(Implicit).kind # "class"
    BY DEF Found, Native
  <2>3. root'[c] = "unknown"
    BY DEF BasesUsable
  <2> QED
    BY <1>1, <1>2, <1>8, <2>1, <2>2, <2>3 DEF FrameSound
<1>10. \A i \in 1..Len(calls) : calls[i].class # c /\ FrameSound(calls[i])'
  <2> TAKE i \in 1..Len(calls)
  <2>1. calls[i].class # c
    BY <1>3
  <2> QED
    BY <1>1, <1>2, <1>8, <2>1 DEF FrameSound
<1>11. FramesSound'
  <2>1. \A i \in 1..Len(frames') : i = 1 \/ (i \in 2..Len(frames') /\ i - 1 \in 1..Len(calls))
    BY <1>5, <1>6
  <2>2. Frame(c).class = c
    BY DEF Frame
  <2> HIDE DEF IInv, Enter
  <2>3. ASSUME NEW i \in 1..Len(frames')
        PROVE  FrameSound(frames[i])'
    <3>1. PICK f : f = frames'[i]
      OBVIOUS
    <3>2. FrameSound(f)'
      BY <1>5, <1>9, <1>10, <2>1, <3>1
    <3> QED
      BY <3>1, <3>2 DEF FrameSound
  <2>4. ASSUME NEW i \in 1..Len(frames'), NEW j \in 1..Len(frames'),
               frames'[i].class = frames'[j].class
        PROVE  i = j
    <3>1. CASE i = 1 \/ j = 1
      BY <1>5, <1>10, <2>1, <2>2, <2>4, <3>1
    <3>2. CASE i # 1 /\ j # 1
      <4>1. calls[i - 1].class = calls[j - 1].class /\ i - 1 \in 1..Len(calls)
            /\ j - 1 \in 1..Len(calls)
        BY <1>5, <2>1, <2>4, <3>2
      <4>2. i - 1 = j - 1
        BY <4>1
      <4> QED
        BY <4>2
    <3> QED
      BY <3>1, <3>2
  <2> QED
    BY <2>3, <2>4 DEF FramesSound
<1>12. \A d \in Own :
        d # c /\ base[d].kind = "class" => base[d].of # c /\ base'[base[d].of] # Unset
  BY <1>2 DEF BasesUsable, Usable, Found
<1>13. BasesUsable'
  BY <1>1, <1>2, <1>3, <1>8 DEF BasesUsable, Usable
<1>14. Progress'
  <2>1. frames' # <<>> /\ frames'[Len(frames')].class = project.order[next]
    <3>1. CASE calls = <<>>
      <4>1. Len(frames') = 1 /\ Frame(c).class = c
        BY <1>5, <3>1 DEF Frame
      <4> QED
        BY <1>5, <3>1, <4>1
    <3>2. CASE calls # <<>>
      <4>1. Len(calls) > 0
        BY <3>2, EmptySeq
      <4>2. Len(frames') \in 2..Len(frames') /\ Len(frames') - 1 = Len(calls)
        BY <1>5, <1>6, <4>1
      <4>3. frames'[Len(frames')] = calls[Len(calls)]
        BY <1>5, <4>2
      <4> QED
        BY <1>5, <1>6, <4>1, <4>3, <3>2
    <3> QED
      BY <3>1, <3>2
  <2>2. \A i \in 1..(next - 1) : project.order[i] \in Own
    <3>1. project \in Projects /\ next \in 1..(Len(project.order) + 1)
      BY DEF Shape, End
    <3>2. project.order \in Seq(Classes)
      BY <3>1, Nesting
    <3> HIDE DEF IInv, Enter
    <3>3. \A i \in 1..(next - 1) : i \in DOMAIN project.order
      BY <3>1, <3>2
    <3> QED
      BY <3>3 DEF Own, Range
  <2>3. \A d \in Own : Settled(d) => Settled(d)'
    BY <1>2 DEF Settled
  <2> QED
    BY <1>1, <2>1, <2>2, <2>3 DEF Progress
<1>15. RootsHold' /\ ChainsEnd'
  BY <1>1, <1>2, <1>3, <1>12 DEF RootsHold, ChainsEnd
<1> QED
  BY <1>7, <1>11, <1>13, <1>14, <1>15

(* The innermost call and those that wait for it.                          *)
LEMMA Calls ==
  ASSUME IInv, frames # <<>>
  PROVE  /\ Len(frames) \in Nat \ {0} /\ Head(frames) = frames[1]
         /\ \E V : Tail(frames) \in Seq(V)
         /\ Len(Tail(frames)) = Len(frames) - 1
         /\ \A i \in 1..Len(Tail(frames)) : Tail(frames)[i] = frames[i + 1]
         /\ FrameSound(Head(frames)) /\ next < End
<1>1. PICK V : frames \in Seq(V)
  BY DEF IInv, Shape
<1>2. /\ Len(frames) \in Nat \ {0} /\ Head(frames) = frames[1] /\ Tail(frames) \in Seq(V)
      /\ Len(Tail(frames)) = Len(frames) - 1
      /\ \A i \in 1..Len(Tail(frames)) : Tail(frames)[i] = frames[i + 1]
  BY <1>1, HeadTailProperties, EmptySeq
<1>3. FrameSound(frames[1]) /\ next < End
  BY <1>2 DEF IInv, FramesSound, Progress
<1> QED
  BY <1>2, <1>3

(* A clause followed one name further.                                     *)
LEMMA AdvanceKeeps ==
  ASSUME IInv, frames # <<>>, NEW at, at = Failure \/ Found(at), NEW rest, Advance(at, rest)
  PROVE  IInv'
<1>1. PICK calls : calls = <<[class |-> Head(frames).class, at |-> at, names |-> rest]>>
                             \o Tail(frames)
  OBVIOUS
<1>2. PICK V : Tail(frames) \in Seq(V)
  BY Calls
<1>3. /\ calls \in Seq(V \cup {[class |-> Head(frames).class, at |-> at, names |-> rest]})
      /\ Len(calls) = Len(frames)
      /\ calls[1] = [class |-> Head(frames).class, at |-> at, names |-> rest]
      /\ \A i \in 2..Len(frames) : calls[i] = frames[i]
  <2> DEFINE f == [class |-> Head(frames).class, at |-> at, names |-> rest]
  <2>1. Tail(frames) \in Seq(V \cup {f}) /\ <<f>> \in Seq(V \cup {f})
    BY <1>2, SeqMonotonic
  <2>2. Len(<<f>>) = 1 /\ <<f>>[1] = f
    OBVIOUS
  <2> HIDE DEF f
  <2>3. calls = <<f>> \o Tail(frames)
    BY <1>1 DEF f
  <2>4. /\ calls \in Seq(V \cup {f}) /\ Len(calls) = Len(frames)
        /\ calls[1] = f /\ \A i \in 2..Len(frames) : calls[i] = frames[i]
    BY <2>1, <2>2, <2>3, Calls, ConcatProperties
  <2> QED
    BY <2>4 DEF f
<1>4. /\ calls[1].class = frames[1].class /\ calls[1].at = at
      /\ \A i \in 1..Len(calls) : i = 1 \/ calls[i] = frames[i]
      /\ \A i \in 1..Len(calls) : calls[i].class = frames[i].class
      /\ \A i \in 1..Len(calls) : FrameSound(frames[i])
      /\ \A i, j \in 1..Len(calls) : calls[i].class = calls[j].class => i = j
  BY <1>3, Calls DEF IInv, FramesSound
<1>5. calls # <<>> /\ calls[Len(calls)].class = project.order[next]
  BY <1>3, <1>4, Calls DEF IInv, Progress
<1>6. next < End
  BY Calls
<1>7. CASE at = Failure
  BY <1>6, <1>7, FailKeeps DEF Advance
<1>8. CASE at # Failure /\ at.kind = "class" /\ base[at.of] = Unset
  <2>1. PICK c : c = at.of
    OBVIOUS
  <2>2. c \in Own /\ base[c] = Unset /\ Enter(c, calls)
    BY <1>1, <1>8, <2>1 DEF Advance, Found
  <2>3. \A i \in 1..Len(calls) :
          /\ calls[i].class \in Own /\ base[calls[i].class] = Resolving
          /\ root[calls[i].class] = "unknown"
          /\ calls[i].at = Unset \/ (Found(calls[i].at)
               /\ (calls[i].at.kind = "class" => calls[i].at.of = c \/ base[calls[i].at.of] # Unset))
    BY <1>4, <1>8, <2>1 DEF FrameSound, Usable
  <2> QED
    BY <1>3, <1>4, <1>5, <1>6, <2>2, <2>3, EnterKeeps
<1>9. CASE at # Failure /\ ~(at.kind = "class" /\ base[at.of] = Unset)
  <2>1. frames' = calls /\ UNCHANGED <<project, base, root, next, failed>>
    BY <1>1, <1>9 DEF Advance
  <2>2. Own' = Own /\ End' = End
    BY <2>1 DEF Own, End
  <2>3. Usable(at)
    BY <1>9 DEF Usable
  <2>4. \A i \in 1..Len(calls) : FrameSound(calls[i])
    BY <1>4, <2>3 DEF FrameSound
  <2>5. \A f : FrameSound(f) => FrameSound(f)'
    BY <2>1, <2>2 DEF FrameSound, Usable, Found
  <2>6. \A i \in 1..Len(calls) : FrameSound(calls[i])'
    BY <2>4, <2>5
  <2>7. FramesSound'
    BY <1>4, <2>1, <2>6 DEF FramesSound
  <2>8. Shape'
    BY <1>3, <2>1, <2>2 DEF IInv, Shape
  <2>9. Progress'
    BY <1>5, <1>6, <2>1, <2>2 DEF IInv, Progress, Settled
  <2>10. BasesUsable' /\ RootsHold' /\ ChainsEnd'
    BY <2>1, <2>2 DEF IInv, BasesUsable, Usable, Found, RootsHold, ChainsEnd
  <2> QED
    BY <2>7, <2>8, <2>9, <2>10 DEF IInv
<1> QED
  BY <1>7, <1>8, <1>9

(* A base that does not lead back closes no circle: a set of classes closed*)
(* under the bases that had c in it and a set that leads from the new base *)
(* past c have a closed set in common that was there before.               *)
LEMMA NoCircle ==
  ASSUME ChainsEnd, DOMAIN base = Own, NEW c \in Own, NEW at,
         at.kind = "class" => at.of \in Own /\ ~LeadsTo(at.of, c),
         Own' = Own, base' = [base EXCEPT ![c] = at]
  PROVE  ChainsEnd'
<1>1. base'[c] = at /\ \A e \in Own : e # c => base'[e] = base[e]
  OBVIOUS
<1>2. SUFFICES ASSUME NEW S \in SUBSET Own, S # {},
                      \A e \in S : base'[e].kind = "class" /\ base'[e].of \in S
               PROVE  FALSE
  BY DEF ChainsEnd
<1>3. CASE c \notin S
  BY <1>1, <1>2, <1>3 DEF ChainsEnd
<1>4. CASE c \in S
  <2>1. at.kind = "class" /\ at.of \in S
    BY <1>1, <1>2, <1>4
  <2>2. PICK T \in SUBSET Own :
          /\ at.of \in T /\ c \notin T
          /\ \A e \in T : base[e].kind = "class" => base[e].of \in T
    BY <2>1 DEF LeadsTo
  <2>3. \A e \in S \cap T : base[e].kind = "class" /\ base[e].of \in S \cap T
    BY <1>1, <1>2, <2>2
  <2>4. S \cap T \in SUBSET Own /\ S \cap T # {}
    BY <2>1, <2>2
  <2> QED
    BY <2>3, <2>4 DEF ChainsEnd
<1> QED
  BY <1>3, <1>4

(* A class is done.                                                        *)
LEMMA FinishKeeps ==
  ASSUME IInv, Finish
  PROVE  IInv'
<1>1. frames # <<>> /\ Head(frames).at # Unset
  BY DEF Finish
<1>2. PICK c, at : c = Head(frames).class /\ at = Head(frames).at
  OBVIOUS
<1>3. /\ c \in Own /\ base[c] = Resolving /\ root[c] = "unknown" /\ Usable(at)
      /\ next < End /\ c = frames[1].class
  BY <1>1, <1>2, Calls DEF FrameSound
<1>4. CASE at.kind = "class" /\ LeadsTo(at.of, c)
  <2>1. Fail
    BY <1>2, <1>4 DEF Finish
  <2> QED
    BY <2>1, <1>3, FailKeeps
<1>5. CASE ~(at.kind = "class" /\ LeadsTo(at.of, c))
  <2>1. /\ base' = [base EXCEPT ![c] = at]
        /\ root' = [root EXCEPT ![c] = RootOf(at)]
        /\ frames' = Tail(frames)
        /\ next' = IF Tail(frames) = <<>> THEN next + 1 ELSE next
        /\ UNCHANGED <<project, failed>>
    BY <1>2, <1>5 DEF Finish
  <2>2. Own' = Own /\ End' = End
    BY <2>1 DEF Own, End
  <2>3. DOMAIN base = Own /\ DOMAIN root = Own /\ next \in 1..End /\ End \in Nat
    BY Nesting DEF IInv, Shape, End
  <2>4. /\ DOMAIN base' = Own /\ DOMAIN root' = Own
        /\ base'[c] = at /\ root'[c] = RootOf(at)
        /\ \A d \in Own : d # c => base'[d] = base[d] /\ root'[d] = root[d]
    BY <1>3, <2>1, <2>3
  <2>5. Unset # Resolving /\ at \notin {Unset, Resolving} /\ Settled(c)'
    BY <1>3, <2>4 DEF Usable, Found, Unset, Resolving, Settled
  <2>6. /\ Len(frames') = Len(frames) - 1 /\ \E V : frames' \in Seq(V)
        /\ \A i \in 1..Len(frames') : frames'[i] = frames[i + 1] /\ i + 1 \in 1..Len(frames)
    BY <1>1, <2>1, Calls
  <2>7. next' \in 1..End
    BY <1>3, <2>1, <2>3
  <2>8. Shape'
    BY <2>1, <2>2, <2>4, <2>6, <2>7 DEF IInv, Shape
  <2>9. \A x : Usable(x) => Usable(x)'
    BY <2>2, <2>4, <2>5 DEF Usable, Found
  <2>10. FramesSound'
    <3>1. \A i \in 1..Len(frames') : frames'[i].class # c
      BY <1>1, <1>3, <2>6, Calls DEF IInv, FramesSound
    <3>2. \A f : FrameSound(f) /\ f.class # c => FrameSound(f)'
      BY <2>2, <2>4, <2>9 DEF FrameSound
    <3>3. ASSUME NEW i \in 1..Len(frames')
          PROVE  FrameSound(frames[i])'
      <4>1. PICK f : f = frames'[i]
        OBVIOUS
      <4>2. FrameSound(f) /\ f.class # c
        BY <2>6, <3>1, <4>1 DEF IInv, FramesSound
      <4>3. FrameSound(f)'
        BY <3>2, <4>2
      <4> QED
        BY <4>1, <4>3 DEF FrameSound
    <3>4. ASSUME NEW i \in 1..Len(frames'), NEW j \in 1..Len(frames'),
                 frames'[i].class = frames'[j].class
          PROVE  i = j
      <4>1. i + 1 = j + 1
        BY <2>6, <3>4 DEF IInv, FramesSound
      <4> QED
        BY <4>1
    <3> QED
      BY <3>3, <3>4 DEF FramesSound
  <2>11. BasesUsable'
    BY <1>3, <2>2, <2>4, <2>5, <2>9 DEF IInv, BasesUsable
  <2>12. Progress'
    <3>1. \A i \in 1..(next - 1) : project.order[i] \in Own
      BY Nesting DEF IInv, Shape, Own, Range, End
    <3>2. \A d \in Own : Settled(d) => Settled(d)'
      BY <2>4, <2>5 DEF Settled
    <3>3. CASE Tail(frames) = <<>>
      <4>1. Len(frames) = 1
        BY <1>1, <3>3, Calls
      <4>2. project.order[next] = c
        BY <1>1, <1>3, <4>1 DEF IInv, Progress
      <4>3. next' = next + 1 /\ frames' = <<>>
        BY <2>1, <3>3
      <4>4. \A i \in 1..(next' - 1) : i \in 1..(next - 1) \/ i = next
        BY <4>3, <2>3
      <4>5. ~failed => \A i \in 1..(next' - 1) : Settled(project.order[i])'
        <5>1. SUFFICES ASSUME ~failed, NEW i \in 1..(next' - 1)
                       PROVE  Settled(project.order[i])'
          OBVIOUS
        <5>2. PICK d : d = project.order[i]
          OBVIOUS
        <5>3. Settled(d)'
          BY <2>5, <3>1, <3>2, <4>2, <4>4, <5>1, <5>2 DEF IInv, Progress
        <5> QED
          BY <2>1, <5>2, <5>3 DEF Settled
      <4> QED
        BY <2>1, <4>3, <4>5 DEF Progress
    <3>4. CASE Tail(frames) # <<>>
      <4>1. Len(frames') \in 1..Len(frames')
        BY <1>1, <2>1, <2>6, <3>4, Calls, EmptySeq
      <4>2. frames'[Len(frames')] = frames[Len(frames)]
        BY <1>1, <2>6, <4>1, Calls
      <4>3. next' = next
        BY <2>1, <3>4
      <4>4. ~failed => \A i \in 1..(next' - 1) : Settled(project.order[i])'
        <5>1. SUFFICES ASSUME ~failed, NEW i \in 1..(next' - 1)
                       PROVE  Settled(project.order[i])'
          OBVIOUS
        <5>2. PICK d : d = project.order[i]
          OBVIOUS
        <5>3. Settled(d)'
          BY <3>1, <3>2, <4>3, <5>1, <5>2 DEF IInv, Progress
        <5> QED
          BY <2>1, <5>2, <5>3 DEF Settled
      <4> QED
        BY <1>1, <1>3, <2>1, <2>2, <4>2, <4>3, <4>4 DEF IInv, Progress
    <3> QED
      BY <3>3, <3>4
  <2>13. RootsHold'
    <3>1. LeadsTo(c, c)
      BY DEF LeadsTo
    <3>2. at.kind = "class" => at.of # c /\ at.of \in Own /\ RootOf(at) = root[at.of]
      BY <1>3, <1>5, <3>1 DEF Usable, Found, RootOf
    <3>3. \A d \in Own : base[d].kind = "class" => base[d].of \in Own
      BY DEF IInv, BasesUsable, Usable, Found
    <3>4. ASSUME NEW d \in Own, base'[d].kind = "class", root'[d] # "unknown"
          PROVE  root'[d] = root'[base'[d].of]
      <4>1. CASE d = c
        BY <2>4, <3>2, <3>4, <4>1
      <4>2. CASE d # c
        BY <1>3, <2>4, <3>3, <3>4, <4>2 DEF IInv, RootsHold
      <4> QED
        BY <4>1, <4>2
    <3> QED
      BY <2>2, <3>4 DEF RootsHold
  <2>14. ChainsEnd'
    BY <1>3, <1>5, <2>1, <2>2, <2>3, NoCircle DEF IInv, Usable, Found
  <2> QED
    BY <2>8, <2>10, <2>11, <2>12, <2>13, <2>14 DEF IInv
<1> QED
  BY <1>4, <1>5

(* The driver's step.                                                      *)
LEMMA VisitKeeps ==
  ASSUME IInv, Visit
  PROVE  IInv'
<1>1. PICK c : c = project.order[next]
  OBVIOUS
<1>2. /\ frames = <<>> /\ next < End /\ next \in 1..End /\ End \in Nat
      /\ project.order \in Seq(Classes) /\ c \in Own
  BY <1>1, Nesting DEF IInv, Shape, Visit, Own, Range, End
<1>3. CASE base[c] = Unset /\ Enter(c, <<>>)
  <2>1. <<>> \in Seq({}) /\ Len(<<>>) = 0
    OBVIOUS
  <2>2. PICK calls : calls = <<>>
    OBVIOUS
  <2>3. Enter(c, calls) /\ calls \in Seq({}) /\ Len(calls) = 0
    BY <1>3, <2>1, <2>2
  <2>4. \A i \in 1..Len(calls) : FALSE
    BY <2>3
  <2>5. IF calls = <<>> THEN c = project.order[next]
        ELSE calls[Len(calls)].class = project.order[next]
    BY <1>1, <2>2
  <2>6. c \in Own /\ base[c] = Unset /\ next < End
    BY <1>2, <1>3
  <2> QED
    BY <2>3, <2>4, <2>5, <2>6, EnterKeeps
<1>4. CASE Fail
  BY <1>2, <1>4, FailKeeps
<1>5. CASE /\ base[c] \notin {Unset, Resolving}
           /\ next' = next + 1 /\ UNCHANGED <<project, base, root, frames, failed>>
  <2>1. Own' = Own /\ End' = End /\ next' \in 1..End
    BY <1>2, <1>5 DEF Own, End
  <2>2. Settled(c)
    BY <1>5 DEF Settled
  <2>3. \A i \in 1..(next' - 1) : i \in 1..(next - 1) \/ i = next
    BY <1>2, <1>5
  <2>4. ~failed => \A i \in 1..(next' - 1) : Settled(project.order[i])
    BY <1>1, <2>2, <2>3 DEF IInv, Progress
  <2>5. Progress'
    BY <1>2, <1>5, <2>4 DEF Progress, Settled
  <2>6. Shape'
    BY <1>5, <2>1 DEF IInv, Shape
  <2>7. FramesSound' /\ BasesUsable' /\ RootsHold' /\ ChainsEnd'
    BY <1>5, <2>1
      DEF IInv, FramesSound, FrameSound, BasesUsable, Usable, Found, RootsHold, ChainsEnd
  <2> QED
    BY <2>5, <2>6, <2>7 DEF IInv
<1> QED
  BY <1>1, <1>3, <1>4, <1>5 DEF Visit

(* Every step, and none.                                                   *)
LEMMA StepKeeps == IInv /\ [InheritNext]_inheritVars => IInv'
<1> SUFFICES ASSUME IInv, [InheritNext]_inheritVars
             PROVE  IInv'
  OBVIOUS
<1>1. CASE Visit
  BY <1>1, VisitKeeps
<1>2. CASE Look
  <2>1. PICK c, at, rest :
          /\ c = Head(frames).class /\ at = Headed(c)
          /\ rest = IF Clause(c).path = Nil /\ Clause(c).names # <<>> THEN Tail(Clause(c).names)
                    ELSE Clause(c).names
    OBVIOUS
  <2>2. frames # <<>> /\ Advance(at, rest)
    BY <1>2, <2>1 DEF Look
  <2>3. at = Failure \/ Found(at)
    BY <2>1, HeadedIsFound DEF IInv, Shape
  <2> QED
    BY <2>2, <2>3, AdvanceKeeps
<1>3. CASE Nest
  <2>1. PICK at, rest : /\ at = Nested(Head(frames).at, Head(Head(frames).names))
                        /\ rest = Tail(Head(frames).names)
    OBVIOUS
  <2>2. frames # <<>> /\ Head(frames).at # Unset /\ Advance(at, rest)
    BY <1>3, <2>1 DEF Nest
  <2>3. Found(Head(frames).at)
    BY <2>2, Calls DEF FrameSound, Usable
  <2>4. at = Failure \/ Found(at)
    BY <2>1, <2>3, NestedIsFound DEF IInv, Shape
  <2> QED
    BY <2>2, <2>4, AdvanceKeeps
<1>4. CASE Finish
  BY <1>4, FinishKeeps
<1>5. CASE UNCHANGED inheritVars
  <2>1. UNCHANGED <<project, base, root, frames, next, failed>>
    BY <1>5 DEF inheritVars
  <2>2. Own' = Own /\ End' = End
    BY <2>1 DEF Own, End
  <2> QED
    BY <2>1, <2>2 DEF IInv, Shape, FramesSound, FrameSound, BasesUsable, Usable, Found, Progress,
      Settled, RootsHold, ChainsEnd
<1> QED
  BY <1>1, <1>2, <1>3, <1>4, <1>5 DEF InheritNext

(* Behind the last class every class is settled.                           *)
LEMMA SettledAtEnd ==
  ASSUME IInv, Clean, NEW c \in Own
  PROVE  Settled(c)
<1>1. project.order \in Seq(Classes) /\ next = Len(project.order) + 1 /\ ~failed
  BY Nesting DEF IInv, Shape, Clean, End
<1>2. PICK i \in 1..Len(project.order) : project.order[i] = c
  BY <1>1 DEF Own, Range
<1>3. i \in 1..(next - 1)
  BY <1>1
<1> QED
  BY <1>1, <1>2, <1>3 DEF IInv, Progress

(* The bases are sound at every moment of the pass, over any classes of any*)
(* project: walks_back_to and the later walks over bases end, a copied     *)
(* native root stays its base's, and a pass without an error leaves no     *)
(* class out.                                                              *)
THEOREM BasesAreSound == InheritSpec => []BasesSound
<1>1. IInv => BasesSound
  BY SettledAtEnd DEF IInv, BasesSound, CleanIsComplete
<1> QED
  BY Starts, StepKeeps, <1>1, PTL DEF InheritSpec

(***************************************************************************)
(* Recursive functions. Their definitions choose a function that satisfies *)
(* an equation; that there is one is what these two facts are for.         *)
(***************************************************************************)

\* A set of numbers has a least one.
LEMMA LeastExists ==
  ASSUME NEW S \in SUBSET Nat, S # {}
  PROVE  \E m \in S : \A x \in S : m <= x
  BY MinExists
WellDefined(X, T, F, size) ==
  /\ T # {} /\ F \in [X -> [[X -> T] -> T]] /\ size \in [X -> Nat]
  /\ \A x \in X, f, g \in [X -> T] :
       (\A y \in X : size[y] < size[x] => f[y] = g[y]) => F[x][f] = F[x][g]

\* A definition by recursion has a solution when every value depends on values
\* for smaller arguments only. A recursive function of the model is the one the
\* definition chooses: it satisfies its equation because some function does.
LEMMA Recursion ==
  ASSUME NEW X, NEW T, NEW F, NEW size, WellDefined(X, T, F, size)
  PROVE  \E f \in [X -> T] : \A x \in X : f[x] = F[x][f]
<1> USE DEF WellDefined
<1> DEFINE Upto(n, f) == f \in [X -> T] /\ \A x \in X : size[x] < n => f[x] = F[x][f]
<1>1. ASSUME NEW n \in Nat, NEW m \in Nat, NEW f, NEW g, Upto(n, f), Upto(m, g)
      PROVE  \A x \in X : size[x] < n /\ size[x] < m => f[x] = g[x]
  <2> DEFINE Bad == {k \in Nat : \E x \in X : k = size[x] /\ k < n /\ k < m /\ f[x] # g[x]}
  <2>1. SUFFICES ASSUME Bad # {} PROVE FALSE
    OBVIOUS
  <2>2. PICK k \in Bad : \A i \in Bad : k <= i
    BY <2>1, LeastExists
  <2>3. PICK x \in X : k = size[x] /\ k < n /\ k < m /\ f[x] # g[x]
    BY <2>2
  <2>4. ASSUME NEW y \in X, size[y] < size[x] PROVE f[y] = g[y]
    <3>1. size[y] \in Nat /\ size[y] < n /\ size[y] < m /\ ~(k <= size[y])
      BY <2>3, <2>4
    <3> QED
      BY <2>2, <3>1
  <2>5. F[x][f] = F[x][g]
    BY <1>1, <2>4
  <2> QED
    BY <1>1, <2>3, <2>5
<1>2. ASSUME NEW n \in Nat PROVE \E f : Upto(n, f)
  <2> DEFINE Bad == {k \in Nat : ~\E f : Upto(k, f)}
  <2>1. SUFFICES ASSUME Bad # {} PROVE FALSE
    OBVIOUS
  <2>2. PICK k \in Bad : \A i \in Bad : k <= i
    BY <2>1, LeastExists
  <2>3. k # 0
    <3>1. PICK t \in T : TRUE
      OBVIOUS
    <3>2. Upto(0, [x \in X |-> t])
      OBVIOUS
    <3> QED
      BY <2>2, <3>2
  <2>4. k - 1 \in Nat /\ k - 1 \notin Bad
    <3>1. k - 1 \in Nat /\ ~(k <= k - 1)
      BY <2>2, <2>3
    <3> HIDE DEF Bad
    <3> QED
      BY <2>2, <3>1
  <2>5. PICK f : Upto(k - 1, f)
    BY <2>4
  <2> DEFINE g == [x \in X |-> IF size[x] < k - 1 THEN f[x] ELSE F[x][f]]
  <2>6. g \in [X -> T]
    BY <2>5
  <2>7. ASSUME NEW x \in X, size[x] < k PROVE g[x] = F[x][g]
    <3>1. g[x] = F[x][f]
      BY <2>5
    <3>2. ASSUME NEW y \in X, size[y] < size[x] PROVE f[y] = g[y]
      <4>1. size[y] < k - 1
        BY <2>2, <2>7, <3>2
      <4> QED
        BY <4>1
    <3> HIDE DEF g
    <3>3. F[x][f] = F[x][g]
      BY <2>5, <2>6, <3>2
    <3> QED
      BY <3>1, <3>3
  <2> HIDE DEF g
  <2>8. Upto(k, g)
    BY <2>6, <2>7
  <2> QED
    BY <2>2, <2>8
<1> DEFINE at(n) == CHOOSE f : Upto(n, f)
           h == [x \in X |-> at(size[x] + 1)[x]]
<1>3. ASSUME NEW n \in Nat PROVE Upto(n, at(n))
  BY <1>2
<1> HIDE DEF at
<1>4. h \in [X -> T]
  BY <1>3
<1>5. ASSUME NEW x \in X PROVE h[x] = F[x][h]
  <2> DEFINE g == at(size[x] + 1)
  <2>1. Upto(size[x] + 1, g)
    BY <1>3
  <2>2. h[x] = g[x] /\ g[x] = F[x][g]
    BY <2>1
  <2>3. ASSUME NEW y \in X, size[y] < size[x] PROVE g[y] = h[y]
    <3>1. Upto(size[y] + 1, at(size[y] + 1)) /\ h[y] = at(size[y] + 1)[y]
      BY <1>3
    <3>2. size[y] + 1 \in Nat /\ size[x] + 1 \in Nat /\ size[y] < size[y] + 1
          /\ size[y] < size[x] + 1
      BY <2>3
    <3> HIDE DEF Upto, g, h
    <3> QED
      BY <1>1, <2>1, <3>1, <3>2
  <2> HIDE DEF h
  <2>4. g \in [X -> T]
    BY <2>1
  <2>5. F[x][g] = F[x][h]
    <3> HIDE DEF g
    <3> QED
      BY <1>4, <2>3, <2>4
  <2> QED
    BY <2>2, <2>5
<1> QED
  BY <1>4, <1>5

\* What holds of an argument when it holds of all smaller ones holds of all.
LEMMA Induction ==
  ASSUME NEW X, NEW size \in [X -> Nat], NEW Good \in SUBSET X,
         \A x \in X : (\A y \in X : size[y] < size[x] => y \in Good) => x \in Good
  PROVE  Good = X
<1> DEFINE Bad == {size[x] : x \in X \ Good}
<1> SUFFICES ASSUME Bad # {} PROVE FALSE
  OBVIOUS
<1>1. Bad \in SUBSET Nat
  OBVIOUS
<1>2. PICK m \in Bad : \A k \in Bad : m <= k
  <2> HIDE DEF Bad
  <2> QED
    BY <1>1, LeastExists
<1>3. PICK x \in X \ Good : size[x] = m
  BY <1>2
<1>4. \A y \in X : size[y] < size[x] => y \in Good
  <2> TAKE y \in X
  <2> HAVE size[y] < size[x]
  <2>1. size[y] \in Nat /\ size[x] \in Nat /\ (y \notin Good => size[x] <= size[y])
    BY <1>2, <1>3
  <2> QED
    BY <2>1
<1> QED
  BY <1>3, <1>4

\* along, one name at a time (interface.rs: the inner classes a chain names).
LEMMA AlongStep ==
  ASSUME NEW c \in Classes \cup {Nil}, NEW names \in Seq(STRING)
  PROVE  Along(c, names) = IF c = Nil \/ names = <<>> THEN c
                           ELSE Along(Inner(c, Head(names)), Tail(names))
<1> DEFINE T == Classes \cup {Nil}
           X == T \X Seq(STRING)
           E(f, p) == IF p[1] = Nil \/ p[2] = <<>> THEN p[1] ELSE f[<<Inner(p[1], Head(p[2])), Tail(p[2])>>]
           F == [p \in X |-> [f \in [X -> T] |-> E(f, p)]]
           size == [p \in X |-> Len(p[2])]
           walk == CHOOSE f : f = [p \in X |-> E(f, p)]
<1>1. ASSUME NEW p \in X, ~(p[1] = Nil \/ p[2] = <<>>)
      PROVE  /\ <<Inner(p[1], Head(p[2])), Tail(p[2])>> \in X
             /\ size[<<Inner(p[1], Head(p[2])), Tail(p[2])>>] < size[p]
  <2>1. p[1] \in Classes /\ p[2] \in Seq(STRING) /\ Head(p[2]) \in STRING /\ Tail(p[2]) \in Seq(STRING)
        /\ Len(Tail(p[2])) < Len(p[2])
    BY <1>1, HeadTailProperties
  <2>2. Inner(p[1], Head(p[2])) \in T
    BY DEF Inner, OneOf
  <2>3. <<Inner(p[1], Head(p[2])), Tail(p[2])>> \in X
    BY <2>1, <2>2
  <2> QED
    BY <2>1, <2>3
<1>2. F \in [X -> [[X -> T] -> T]]
  <2>1. ASSUME NEW p \in X, NEW f \in [X -> T] PROVE E(f, p) \in T
    <3>1. CASE p[1] = Nil \/ p[2] = <<>>
      BY <3>1
    <3>2. CASE ~(p[1] = Nil \/ p[2] = <<>>)
      BY <1>1, <3>2
    <3> QED
      BY <3>1, <3>2
  <2> HIDE DEF E, X, T
  <2> QED
    BY <2>1
<1>3. \A p \in X, f, g \in [X -> T] :
        (\A y \in X : size[y] < size[p] => f[y] = g[y]) => F[p][f] = F[p][g]
  <2> TAKE p \in X, f, g \in [X -> T]
  <2> HAVE \A y \in X : size[y] < size[p] => f[y] = g[y]
  <2>1. E(f, p) = E(g, p)
    <3>1. CASE p[1] = Nil \/ p[2] = <<>>
      BY <3>1
    <3>2. CASE ~(p[1] = Nil \/ p[2] = <<>>)
      <4> DEFINE q == <<Inner(p[1], Head(p[2])), Tail(p[2])>>
      <4>1. f[q] = g[q]
        BY <1>1, <3>2
      <4> QED
        BY <3>2, <4>1
    <3> QED
      BY <3>1, <3>2
  <2> HIDE DEF E
  <2> QED
    BY <2>1
<1>4. size \in [X -> Nat]
  OBVIOUS
<1>5. \E f \in [X -> T] : \A p \in X : f[p] = F[p][f]
  <2>1. T # {}
    OBVIOUS
  <2> HIDE DEF F, X, size, T, walk, E
  <2>2. WellDefined(X, T, F, size)
    BY <1>2, <1>3, <1>4, <2>1 DEF WellDefined
  <2> QED
    BY <2>2, Recursion
<1>6. \E f : f = [p \in X |-> E(f, p)]
  <2>1. PICK f \in [X -> T] : \A p \in X : f[p] = F[p][f]
    BY <1>5
  <2>2. f = [p \in X |-> E(f, p)]
    <3> HIDE DEF E, X
    <3> QED
      BY <2>1
  <2> QED
    BY <2>2
<1>7. walk = [p \in X |-> E(walk, p)]
  <2> HIDE DEF E, X
  <2> QED
    BY <1>6
<1>8. \A d, r : Along(d, r) = walk[<<d, r>>]
  BY DEF Along
<1>9. \A d \in T, r \in Seq(STRING) : walk[<<d, r>>] = E(walk, <<d, r>>)
  <2>1. \A d \in T, r \in Seq(STRING) : <<d, r>> \in X
    OBVIOUS
  <2> HIDE DEF E, X, walk
  <2> QED
    BY <1>7, <2>1
<1>10. \A d \in T, r \in Seq(STRING) :
         walk[<<d, r>>] = IF d = Nil \/ r = <<>> THEN d ELSE walk[<<Inner(d, Head(r)), Tail(r)>>]
  <2> HIDE DEF walk
  <2> QED
    BY <1>9
<1> HIDE DEF walk, X, T, E, F
<1> QED
  BY <1>8, <1>10 DEF T

\* The file a class belongs to is a head, and all that is closed under the class
\* around contains it.
LEMMA FileOfHead ==
  ASSUME project \in Projects, NEW c \in Own
  PROVE  /\ FileOf[c] \in Own \cap Heads
         /\ \A S \in SUBSET Classes :
              c \in S /\ (\A e \in S : project.outer[e] \in S \cup {Nil}) => FileOf[c] \in S
<1>1. PICK depth \in [Classes -> Nat] :
        \A d \in Classes : project.outer[d] # Nil => depth[project.outer[d]] < depth[d]
  BY Nesting
<1>2. /\ Own \subseteq Classes /\ Nil \notin Classes
      /\ \A d \in Classes :
           /\ project.outer[d] \in Classes \cup {Nil}
           /\ project.outer[d] # Nil => (d \in Own <=> project.outer[d] \in Own)
  BY Nesting
<1>3. \A d \in Classes \ Heads :
        project.outer[d] \in Classes /\ depth[project.outer[d]] < depth[d]
        /\ (d \in Own <=> project.outer[d] \in Own)
  BY <1>1, <1>2 DEF Heads
<1> DEFINE X == Classes
           E(f, d) == IF d \in Heads THEN d ELSE f[project.outer[d]]
           F == [d \in X |-> [f \in [X -> X] |-> E(f, d)]]
<1>4. F \in [X -> [[X -> X] -> X]]
  BY <1>3
<1>5. \A d \in X, f, g \in [X -> X] :
        (\A y \in X : depth[y] < depth[d] => f[y] = g[y]) => F[d][f] = F[d][g]
  BY <1>3
<1>6. \E f \in [X -> X] : \A d \in X : f[d] = F[d][f]
  <2>1. X # {} /\ depth \in [X -> Nat]
    BY <1>2
  <2> HIDE DEF F, X
  <2>2. WellDefined(X, X, F, depth)
    BY <1>4, <1>5, <2>1 DEF WellDefined
  <2> QED
    BY <2>2, Recursion
<1>7. \E f : f = [d \in X |-> E(f, d)]
  <2>1. PICK f \in [X -> X] : \A d \in X : f[d] = F[d][f]
    BY <1>6
  <2>2. f = [d \in X |-> E(f, d)]
    <3> HIDE DEF E, X
    <3> QED
      BY <2>1
  <2> QED
    BY <2>2
<1>8. FileOf = [d \in X |-> E(FileOf, d)]
  <2>1. FileOf = CHOOSE f : f = [d \in X |-> E(f, d)]
    BY DEF FileOf
  <2> HIDE DEF E, X
  <2> QED
    BY <1>7, <2>1
<1>9. \A d \in Classes : FileOf[d] = IF d \in Heads THEN d ELSE FileOf[project.outer[d]]
  BY <1>8
<1> DEFINE Found_(d) ==
      /\ d \in Own => FileOf[d] \in Own \cap Heads
      /\ \A S \in SUBSET Classes :
           d \in S /\ (\A e \in S : project.outer[e] \in S \cup {Nil}) => FileOf[d] \in S
<1>10. ASSUME NEW d \in Classes, \A y \in Classes : depth[y] < depth[d] => Found_(y)
       PROVE  Found_(d)
  <2>1. CASE d \in Heads
    BY <1>9, <2>1
  <2>2. CASE d \notin Heads
    <3> DEFINE up == project.outer[d]
    <3>1. up \in Classes /\ Found_(up) /\ (d \in Own <=> up \in Own) /\ FileOf[d] = FileOf[up]
      BY <1>3, <1>9, <1>10, <2>2
    <3>2. \A S \in SUBSET Classes :
           d \in S /\ (\A e \in S : project.outer[e] \in S \cup {Nil}) => up \in S
      BY <1>2, <3>1
    <3> HIDE DEF up
    <3> QED
      BY <3>1, <3>2
  <2> QED
    BY <2>1, <2>2
<1>11. {d \in Classes : Found_(d)} = Classes
  <2> DEFINE Good == {d \in Classes : Found_(d)}
  <2>1. Good \in SUBSET Classes
    OBVIOUS
  <2>2. \A d \in Classes : (\A y \in Classes : depth[y] < depth[d] => y \in Good) => d \in Good
    <3> HIDE DEF Found_
    <3> QED
      BY <1>10
  <2> HIDE DEF Good
  <2>3. Good = Classes
    BY <2>1, <2>2, Induction
  <2> QED
    BY <2>3 DEF Good
<1> HIDE DEF Found_
<1>12. Found_(c)
  BY <1>2, <1>11
<1> QED
  BY <1>12 DEF Found_

(***************************************************************************)
(* The scope of a class: the bases and the enclosing classes that a name of *)
(* its clause is looked up in.                                             *)
(***************************************************************************)

(* What a sequence holds, by its head and its tail, or with one more.      *)
LEMMA Ranges ==
  ASSUME NEW S, NEW s \in Seq(S)
  PROVE  /\ Range(s) \subseteq S
         /\ s # <<>> => Range(s) = {Head(s)} \cup Range(Tail(s))
         /\ \A e \in S : Range(Append(s, e)) = Range(s) \cup {e}
         /\ \A d, e \in S : Range(<<d, e>> \o s) = {d, e} \cup Range(s)
<1>1. DOMAIN s = 1..Len(s) /\ Len(s) \in Nat /\ \A i \in 1..Len(s) : s[i] \in S
  BY LenProperties
<1>2. Range(s) \subseteq S
  BY <1>1 DEF Range
<1>3. ASSUME s # <<>> PROVE Range(s) = {Head(s)} \cup Range(Tail(s))
  <2>1. /\ Tail(s) \in Seq(S) /\ Len(Tail(s)) = Len(s) - 1 /\ Len(s) # 0
        /\ \A i \in 1..Len(Tail(s)) : Tail(s)[i] = s[i + 1]
    BY <1>3, HeadTailProperties, EmptySeq
  <2>2. DOMAIN Tail(s) = 1..Len(Tail(s)) /\ Head(s) = s[1]
    BY <1>3, <2>1, LenProperties
  <2>3. \A i \in DOMAIN s : i = 1 \/ (i - 1 \in DOMAIN Tail(s) /\ Tail(s)[i - 1] = s[i])
    BY <1>1, <2>1, <2>2
  <2>4. 1 \in DOMAIN s /\ \A i \in DOMAIN Tail(s) : i + 1 \in DOMAIN s /\ s[i + 1] = Tail(s)[i]
    BY <1>1, <2>1, <2>2
  <2>5. \A x : x \in Range(s) <=> \E i \in DOMAIN s : s[i] = x
    BY DEF Range
  <2>6. \A x : x \in Range(Tail(s)) <=> \E i \in DOMAIN Tail(s) : Tail(s)[i] = x
    BY DEF Range
  <2>7. \A x : x \in Range(s) <=> x = Head(s) \/ x \in Range(Tail(s))
    BY <2>2, <2>3, <2>4, <2>5, <2>6
  <2> QED
    BY <2>7
<1>4. ASSUME NEW e \in S PROVE Range(Append(s, e)) = Range(s) \cup {e}
  <2>1. /\ Append(s, e) \in Seq(S) /\ Len(Append(s, e)) = Len(s) + 1
        /\ \A i \in 1..Len(s) : Append(s, e)[i] = s[i]
        /\ Append(s, e)[Len(s) + 1] = e
    BY AppendProperties
  <2>2. DOMAIN Append(s, e) = 1..(Len(s) + 1)
    BY <2>1, LenProperties
  <2>3. 1..(Len(s) + 1) = (1..Len(s)) \cup {Len(s) + 1}
    BY <1>1
  <2>4. \A x : x \in Range(s) <=> \E i \in 1..Len(s) : s[i] = x
    BY <1>1 DEF Range
  <2>5. \A x : x \in Range(Append(s, e)) <=> \E i \in 1..(Len(s) + 1) : Append(s, e)[i] = x
    BY <2>2 DEF Range
  <2>6. \A x : x \in Range(Append(s, e)) <=> x \in Range(s) \/ x = e
    BY <2>1, <2>3, <2>4, <2>5
  <2> QED
    BY <2>6
<1>5. ASSUME NEW d \in S, NEW e \in S
      PROVE  Range(<<d, e>> \o s) = {d, e} \cup Range(s)
  <2>1. <<d, e>> \in Seq(S) /\ Len(<<d, e>>) = 2 /\ <<d, e>>[1] = d /\ <<d, e>>[2] = e
    OBVIOUS
  <2>2. PICK t : t = <<d, e>>
    OBVIOUS
  <2>3. /\ t \o s \in Seq(S) /\ Len(t \o s) = 2 + Len(s)
        /\ \A i \in 1..(2 + Len(s)) : (t \o s)[i] = IF i <= 2 THEN t[i] ELSE s[i - 2]
    BY <2>1, <2>2, ConcatProperties
  <2>4. DOMAIN (t \o s) = 1..(2 + Len(s))
    BY <2>3, LenProperties
  <2>5. \A i \in 1..Len(s) : (t \o s)[i + 2] = s[i] /\ i + 2 \in 1..(2 + Len(s))
    BY <1>1, <2>3
  <2>6. (t \o s)[1] = d /\ (t \o s)[2] = e /\ 1 \in 1..(2 + Len(s)) /\ 2 \in 1..(2 + Len(s))
    BY <1>1, <2>1, <2>2, <2>3
  <2>7. \A i \in 1..(2 + Len(s)) :
          (t \o s)[i] \in {d, e} \/ (i - 2 \in 1..Len(s) /\ (t \o s)[i] = s[i - 2])
    BY <1>1, <2>1, <2>2, <2>3
  <2>8. Range(t \o s) \subseteq {d, e} \cup Range(s)
    BY <1>1, <2>4, <2>7 DEF Range
  <2>9. {d, e} \cup Range(s) \subseteq Range(t \o s)
    BY <1>1, <2>4, <2>5, <2>6 DEF Range
  <2> QED
    BY <2>2, <2>8, <2>9
<1> QED
  BY <1>2, <1>3, <1>4, <1>5

-----------------------------------------------------------------------------
Closed(S) ==
  \A d \in S : BaseClass(d) \in S \cup {Nil} /\ project.outer[d] \in S \cup {Nil}

ScopeOk == project \in Projects /\ \A c \in Own : base[c].kind = "class" => base[c].of \in Own

(* The worklist of scope_classes, unrolled once.                           *)
Works == Seq(Classes \cup {Nil}) \X Seq(Classes)
Drop(p) == <<Tail(p[1]), p[2]>>
Push(p) == <<<<BaseClass(Head(p[1])), project.outer[Head(p[1])]>> \o Tail(p[1]),
             Append(p[2], Head(p[1]))>>
Walked(p, f) ==
  IF p[1] = <<>> THEN p[2]
  ELSE IF Head(p[1]) = Nil \/ Head(p[1]) \in Range(p[2]) THEN f[Drop(p)]
  ELSE f[Push(p)]
Work(p) == 2 * Cardinality(Classes \ Range(p[2])) + Len(p[1])

\* Each turn of the worklist leaves less: one class fewer to find, or one entry
\* fewer to look at.
LEMMA Working ==
  ASSUME ScopeOk, NEW p \in Works
  PROVE  /\ Work(p) \in Nat
         /\ p[1] \in Seq(Classes \cup {Nil}) /\ p[2] \in Seq(Classes)
         /\ p[1] # <<>> => Drop(p) \in Works /\ Work(Drop(p)) < Work(p)
         /\ p[1] # <<>> /\ Head(p[1]) # Nil =>
              /\ Head(p[1]) \in Classes
              /\ BaseClass(Head(p[1])) \in Classes \cup {Nil}
              /\ project.outer[Head(p[1])] \in Classes \cup {Nil}
              /\ Push(p) \in Works
              /\ Head(p[1]) \notin Range(p[2]) => Work(Push(p)) < Work(p)
<1>1. PICK s, o : p = <<s, o>> /\ s \in Seq(Classes \cup {Nil}) /\ o \in Seq(Classes)
  BY DEF Works
<1>2. p[1] = s /\ p[2] = o
  BY <1>1
<1>3. IsFiniteSet(Classes) /\ Own \subseteq Classes
      /\ \A c \in Classes : project.outer[c] \in Classes \cup {Nil}
  BY Nesting DEF ScopeOk
<1>4. \A c \in Classes : BaseClass(c) \in Classes \cup {Nil}
  BY <1>3 DEF ScopeOk, BaseClass
<1>5. \A t \in Seq(Classes) :
        IsFiniteSet(Classes \ Range(t)) /\ Cardinality(Classes \ Range(t)) \in Nat
  BY <1>3, FS_Difference, FS_CardinalityType
<1>6. Len(s) \in Nat
  BY <1>1
<1> DEFINE unseen == Cardinality(Classes \ Range(o))
<1>7. unseen \in Nat /\ Work(p) = 2 * unseen + Len(s) /\ Work(p) \in Nat
  <2>1. unseen \in Nat /\ Work(p) = 2 * unseen + Len(s)
    BY <1>1, <1>2, <1>5 DEF Work
  <2> QED
    BY <1>6, <2>1
<1> HIDE DEF unseen
<1>8. ASSUME s # <<>> PROVE Drop(p) \in Works /\ Work(Drop(p)) < Work(p)
  <2>1. Tail(s) \in Seq(Classes \cup {Nil}) /\ Len(Tail(s)) = Len(s) - 1
    BY <1>1, <1>8, HeadTailProperties
  <2>2. PICK q : q = Drop(p)
    OBVIOUS
  <2>3. q = <<Tail(s), o>>
    BY <1>2, <2>2 DEF Drop
  <2>4. q \in Works /\ q[1] = Tail(s) /\ q[2] = o
    BY <1>1, <2>1, <2>3 DEF Works
  <2>5. Work(q) = 2 * unseen + Len(Tail(s))
    BY <2>4 DEF Work, unseen
  <2>6. Work(q) < Work(p)
    BY <1>6, <1>7, <2>1, <2>5
  <2> QED
    BY <2>2, <2>4, <2>6
<1>9. ASSUME s # <<>>, Head(s) # Nil
      PROVE  /\ Head(s) \in Classes /\ Push(p) \in Works
             /\ Head(s) \notin Range(o) => Work(Push(p)) < Work(p)
  <2>1. /\ Head(s) \in Classes /\ Tail(s) \in Seq(Classes \cup {Nil}) /\ Len(Tail(s)) = Len(s) - 1
    BY <1>1, <1>9, HeadTailProperties
  <2>2. PICK top : top = Head(s)
    OBVIOUS
  <2>3. PICK pair : pair = <<BaseClass(top), project.outer[top]>>
    OBVIOUS
  <2>4. pair \in Seq(Classes \cup {Nil}) /\ Len(pair) = 2
    BY <1>3, <1>4, <2>1, <2>2, <2>3
  <2>5. PICK q : q = Push(p)
    OBVIOUS
  <2>6. q = <<pair \o Tail(s), Append(o, top)>>
    BY <1>2, <2>2, <2>3, <2>5 DEF Push
  <2>7. pair \o Tail(s) \in Seq(Classes \cup {Nil}) /\ Len(pair \o Tail(s)) = 2 + Len(Tail(s))
    BY <2>1, <2>4, ConcatProperties
  <2>8. Append(o, top) \in Seq(Classes) /\ Range(Append(o, top)) = Range(o) \cup {top}
    BY <1>1, <2>1, <2>2, AppendProperties, Ranges
  <2>9. q \in Works /\ q[1] = pair \o Tail(s) /\ q[2] = Append(o, top)
    BY <2>6, <2>7, <2>8 DEF Works
  <2>10. ASSUME top \notin Range(o) PROVE Work(q) < Work(p)
    <3>1. Classes \ Range(Append(o, top)) = (Classes \ Range(o)) \ {top}
      BY <2>8
    <3>2. Cardinality(Classes \ Range(Append(o, top))) = unseen - 1
      BY <1>1, <1>5, <2>1, <2>2, <2>10, <3>1, FS_RemoveElement DEF unseen
    <3>3. Work(q) = 2 * (unseen - 1) + Len(pair \o Tail(s))
      BY <2>9, <3>2 DEF Work
    <3> QED
      BY <1>6, <1>7, <2>1, <2>7, <3>3
  <2> QED
    BY <2>1, <2>2, <2>5, <2>9, <2>10
<1> QED
  BY <1>1, <1>2, <1>3, <1>4, <1>7, <1>8, <1>9

ScopesReach ==
  \A c \in Classes :
    LET R == Range(Scope(c))
    IN  /\ Scope(c) \in Seq(Classes)
        /\ c \in R /\ R \subseteq Classes /\ Closed(R)
        /\ \A S \in SUBSET Classes : c \in S /\ Closed(S) => R \subseteq S

\* scope_classes finds what bases and enclosing classes lead to, and no more.
LEMMA ScopeReach == ScopeOk => ScopesReach
<1> SUFFICES ASSUME ScopeOk PROVE
      \A c \in Classes :
         /\ Scope(c) \in Seq(Classes)
         /\ c \in Range(Scope(c)) /\ Range(Scope(c)) \subseteq Classes /\ Closed(Range(Scope(c)))
         /\ \A S \in SUBSET Classes : c \in S /\ Closed(S) => Range(Scope(c)) \subseteq S
  BY DEF ScopesReach
<1> DEFINE X == Works
           T == Seq(Classes)
           F == [p \in X |-> [f \in [X -> T] |-> Walked(p, f)]]
           size == [p \in X |-> Work(p)]
           E(f, p) == LET stack == p[1]
                          out   == p[2]
                          top   == Head(stack)
                      IN  IF stack = <<>> THEN out
                          ELSE IF top = Nil \/ top \in Range(out) THEN f[<<Tail(stack), out>>]
                          ELSE f[<<<<BaseClass(top), project.outer[top]>> \o Tail(stack),
                                   Append(out, top)>>]
           walk == CHOOSE f : f = [p \in X |-> E(f, p)]
<1>1. \A f, p : E(f, p) = Walked(p, f)
  BY DEF Walked, Drop, Push
<1>2. size \in [X -> Nat] /\ \A p \in X : size[p] = Work(p)
  BY Working
<1>3. F \in [X -> [[X -> T] -> T]]
  <2>1. \A p \in X, f \in [X -> T] : Walked(p, f) \in T
    BY Working DEF Walked
  <2> HIDE DEF T
  <2> QED
    BY <2>1
<1>4. \A p \in X, f, g \in [X -> T] :
        (\A y \in X : size[y] < size[p] => f[y] = g[y]) => F[p][f] = F[p][g]
  <2> TAKE p \in X, f, g \in [X -> T]
  <2> HAVE \A y \in X : size[y] < size[p] => f[y] = g[y]
  <2>1. Walked(p, f) = Walked(p, g)
    BY <1>2, Working DEF Walked
  <2> QED
    BY <2>1
<1>5. \E f \in [X -> T] : \A p \in X : f[p] = F[p][f]
  <2>1. T # {}
    BY EmptySeq
  <2> HIDE DEF F, X, size, T, walk, E
  <2>2. WellDefined(X, T, F, size)
    BY <1>2, <1>3, <1>4, <2>1 DEF WellDefined
  <2> QED
    BY <2>2, Recursion
<1> HIDE DEF E
<1>6. \E f : f \in [X -> T] /\ f = [p \in X |-> E(f, p)]
  <2>1. PICK f \in [X -> T] : \A p \in X : f[p] = F[p][f]
    BY <1>5
  <2>2. f = [p \in X |-> E(f, p)]
    <3> HIDE DEF X, T
    <3> QED
      BY <1>1, <2>1
  <2> QED
    BY <2>2
<1>7. walk = [p \in X |-> E(walk, p)]
  <2> HIDE DEF X
  <2> QED
    BY <1>6
<1>8. \A c : Scope(c) = walk[<<<<c>>, <<>>>>]
  BY DEF Scope, Works, E
<1>9. \A p \in X : walk[p] = Walked(p, walk)
  <2> HIDE DEF X, walk
  <2> QED
    BY <1>1, <1>7
<1> HIDE DEF walk, F, size
<1> DEFINE Good(p) ==
      LET R == Range(walk[p])
      IN  /\ walk[p] \in Seq(Classes)
          /\ Range(p[2]) \subseteq R /\ Range(p[1]) \subseteq R \cup {Nil}
          /\ (\A d \in Range(p[2]) :
                 /\ BaseClass(d) \in Range(p[1]) \cup Range(p[2]) \cup {Nil}
                 /\ project.outer[d] \in Range(p[1]) \cup Range(p[2]) \cup {Nil})
             => Closed(R)
          /\ \A S \in SUBSET Classes :
               /\ Closed(S) /\ Range(p[2]) \subseteq S /\ Range(p[1]) \subseteq S \cup {Nil}
               => R \subseteq S
<1>10. ASSUME NEW p \in Works, \A q \in Works : Work(q) < Work(p) => Good(q)
       PROVE  Good(p)
  <2>1. p[1] \in Seq(Classes \cup {Nil}) /\ p[2] \in Seq(Classes)
    BY Working
  <2>2. CASE p[1] = <<>>
    <3>1. walk[p] = p[2]
      BY <1>9, <2>2 DEF Walked
    <3>2. Range(p[1]) = {}
      BY <2>2 DEF Range
    <3> QED
      BY <2>1, <3>1, <3>2 DEF Closed
  <2>3. CASE p[1] # <<>> /\ (Head(p[1]) = Nil \/ Head(p[1]) \in Range(p[2]))
    <3>1. PICK q : q = Drop(p)
      OBVIOUS
    <3>2. q \in Works /\ Work(q) < Work(p) /\ walk[p] = walk[q]
      BY <1>9, <2>3, <3>1, Working DEF Walked
    <3>3. q[1] = Tail(p[1]) /\ q[2] = p[2]
      BY <3>1 DEF Drop
    <3>4. Range(p[1]) = {Head(p[1])} \cup Range(q[1])
      BY <2>1, <2>3, <3>3, Ranges
    <3>5. Good(q)
      BY <1>10, <3>2
    <3>6. PICK R : R = Range(walk[p])
      OBVIOUS
    <3>7. Range(p[1]) \cup Range(p[2]) \cup {Nil} = Range(q[1]) \cup Range(q[2]) \cup {Nil}
      BY <2>3, <3>3, <3>4
    <3> QED
      BY <2>3, <3>2, <3>3, <3>4, <3>5, <3>7
  <2>4. CASE p[1] # <<>> /\ ~(Head(p[1]) = Nil \/ Head(p[1]) \in Range(p[2]))
    <3>1. PICK q : q = Push(p)
      OBVIOUS
    <3>2. PICK top : top = Head(p[1])
      OBVIOUS
    <3>3. /\ q \in Works /\ Work(q) < Work(p) /\ top \in Classes
          /\ BaseClass(top) \in Classes \cup {Nil} /\ project.outer[top] \in Classes \cup {Nil}
      BY <2>4, <3>1, <3>2, Working
    <3>4. walk[p] = walk[q]
      BY <1>9, <2>4, <3>1 DEF Walked
    <3>5. Tail(p[1]) \in Seq(Classes \cup {Nil})
      BY <2>1, <2>4, HeadTailProperties
    <3>6. q[1] = <<BaseClass(top), project.outer[top]>> \o Tail(p[1]) /\ q[2] = Append(p[2], top)
      BY <3>1, <3>2 DEF Push
    <3>7. Range(p[1]) = {top} \cup Range(Tail(p[1]))
      BY <2>1, <2>4, <3>2, Ranges
    <3>8. Range(q[2]) = Range(p[2]) \cup {top}
      BY <2>1, <3>3, <3>6, Ranges
    <3>9. Range(q[1]) = {BaseClass(top), project.outer[top]} \cup Range(Tail(p[1]))
      <4>1. \A d, e \in Classes \cup {Nil} :
              Range(<<d, e>> \o Tail(p[1])) = {d, e} \cup Range(Tail(p[1]))
        <5>1. PICK S, t : S = Classes \cup {Nil} /\ t = Tail(p[1])
          OBVIOUS
        <5>2. \A d, e \in S : Range(<<d, e>> \o t) = {d, e} \cup Range(t)
          <6>1. t \in Seq(S)
            BY <3>5, <5>1
          <6> HIDE DEF Good
          <6> QED
            BY <6>1, Ranges
        <5> QED
          BY <5>1, <5>2
      <4> QED
        BY <3>3, <3>6, <4>1
    <3>10. Good(q)
      BY <1>10, <3>3
    <3> HIDE DEF Good
    <3>11. walk[p] \in Seq(Classes) /\ Range(p[2]) \subseteq Range(walk[p])
           /\ Range(p[1]) \subseteq Range(walk[p]) \cup {Nil}
      BY <3>4, <3>7, <3>8, <3>9, <3>10 DEF Good
    <3>12. ASSUME \A d \in Range(p[2]) :
                    /\ BaseClass(d) \in Range(p[1]) \cup Range(p[2]) \cup {Nil}
                    /\ project.outer[d] \in Range(p[1]) \cup Range(p[2]) \cup {Nil}
           PROVE  Closed(Range(walk[p]))
      <4>1. Range(p[1]) \cup Range(p[2]) \cup {Nil} \subseteq Range(q[1]) \cup Range(q[2]) \cup {Nil}
        BY <3>7, <3>8, <3>9
      <4>2. \A d \in Range(q[2]) :
              /\ BaseClass(d) \in Range(q[1]) \cup Range(q[2]) \cup {Nil}
              /\ project.outer[d] \in Range(q[1]) \cup Range(q[2]) \cup {Nil}
        BY <3>8, <3>9, <3>12, <4>1
      <4> QED
        BY <3>4, <3>10, <4>2 DEF Good
    <3>13. ASSUME NEW S \in SUBSET Classes, Closed(S), Range(p[2]) \subseteq S,
                  Range(p[1]) \subseteq S \cup {Nil}
           PROVE  Range(walk[p]) \subseteq S
      <4>1. top \in S
        BY <2>4, <3>2, <3>7, <3>13
      <4>2. Range(q[2]) \subseteq S /\ Range(q[1]) \subseteq S \cup {Nil}
        BY <3>7, <3>8, <3>9, <3>13, <4>1 DEF Closed
      <4> QED
        BY <3>4, <3>10, <3>13, <4>2 DEF Good
    <3> QED
      BY <3>11, <3>12, <3>13 DEF Good
  <2> QED
    BY <2>2, <2>3, <2>4
<1>11. \A p \in Works : Good(p)
  <2> DEFINE All == {p \in X : Good(p)}
  <2>1. All \in SUBSET X
    OBVIOUS
  <2>2. \A p \in X : (\A q \in X : size[q] < size[p] => q \in All) => p \in All
    <3> HIDE DEF Good
    <3> QED
      BY <1>2, <1>10
  <2> HIDE DEF All, X
  <2>3. All = X
    BY <1>2, <2>1, <2>2, Induction
  <2> HIDE DEF Good
  <2> QED
    BY <2>3 DEF All, X
<1>12. ASSUME NEW c \in Classes
       PROVE  /\ Scope(c) \in Seq(Classes)
              /\ c \in Range(Scope(c)) /\ Range(Scope(c)) \subseteq Classes
              /\ Closed(Range(Scope(c)))
              /\ \A S \in SUBSET Classes : c \in S /\ Closed(S) => Range(Scope(c)) \subseteq S
  <2>1. PICK p : p = <<<<c>>, <<>>>>
    OBVIOUS
  <2>2. p \in Works /\ p[1] = <<c>> /\ p[2] = <<>>
    <3>1. <<c>> \in Seq(Classes \cup {Nil}) /\ <<>> \in Seq(Classes)
      BY EmptySeq
    <3> HIDE DEF Good
    <3> QED
      BY <2>1, <3>1 DEF Works
  <2>3. Range(p[1]) = {c} /\ Range(p[2]) = {}
    BY <2>2 DEF Range
  <2>4. Scope(c) = walk[p] /\ Good(p)
    BY <1>8, <1>11, <2>1, <2>2
  <2>5. c # Nil
    BY Nesting DEF ScopeOk
  <2>6. Range(Scope(c)) \subseteq Classes
    BY <2>4, Ranges
  <2> QED
    BY <2>3, <2>4, <2>5, <2>6
<1> HIDE DEF Good
<1> QED
  BY <1>12

(***************************************************************************)
(* The resolver reads a clause name by name, the index all at once. At every *)
(* moment what the resolver has reached, with the names that are left, leads *)
(* to the link of the index; the pass only adds to scopes, and so shadows  *)
(* more, and never less, than it did.                                      *)
(***************************************************************************)

\* at, with the names that are left, leads to the link.
LinkTo(c, at, rest) ==
  LET link == ClassParent(c)
  IN  \/ link = Unknown
      \/ link = at /\ rest = <<>>
      \/ /\ link.kind = "script" /\ at.kind \in {"class", "script"}
         /\ at.of \in Classes /\ Along(at.of, rest) = link.of

Tracks(c, at, rest) == Clause(c) = Nil \/ Unshadowed(c) => LinkTo(c, at, rest)

FrameTracks(f) ==
  /\ f.names \in Seq(STRING)
  /\ f.at = Unset => Clause(f.class) # Nil
  /\ f.at # Unset => Tracks(f.class, f.at, f.names)

FramesTrack  == \A i \in 1..Len(frames) : FrameTracks(frames[i])
SettledTrack == \A c \in Own : Settled(c) => Tracks(c, base[c], <<>>)

-----------------------------------------------------------------------------
\* A step of the pass leaves the project alone, and what is read off it.
LEMMA SameAlong ==
  ASSUME project' = project, NEW c, NEW names
  PROVE  Along(c, names)' = Along(c, names)
  BY DEF Along, Classes, Inner, OneOf

\* The file of a class is part of the project.
LEMMA SameFile ==
  ASSUME project' = project, NEW c
  PROVE  FileOf[c]' = FileOf[c]
  BY DEF FileOf, Classes, Heads

\* So is the link of a class.
LEMMA SameLink ==
  ASSUME project' = project, NEW c
  PROVE  /\ ClassParent(c)' = ClassParent(c) /\ Clause(c)' = Clause(c)
         /\ \A at, rest : LinkTo(c, at, rest)' = LinkTo(c, at, rest)
<1>1. Clause(c)' = Clause(c) /\ Classes' = Classes
  BY DEF Clause, Classes
<1>2. \A n : Global(n)' = Global(n)
  BY DEF Global, OneOf, Heads, Classes
<1>3. \A names : LinkNamed(c, names)' = LinkNamed(c, names)
  BY <1>2, SameAlong, SameFile DEF LinkNamed, Script, Unknown, Native
<1>4. ClassParent(c)' = ClassParent(c)
  BY <1>1, <1>3, SameAlong DEF ClassParent, Script, Unknown, Native
<1>5. ASSUME NEW at, NEW rest PROVE LinkTo(c, at, rest)' = LinkTo(c, at, rest)
  BY <1>1, <1>4, SameAlong DEF LinkTo, Unknown
<1> QED
  BY <1>1, <1>4, <1>5

\* A link to a script names one.
LEMMA ScriptLinks ==
  ASSUME NEW c, ClassParent(c).kind = "script"
  PROVE  ClassParent(c).of # Nil
  BY DEF ClassParent, LinkNamed, Script, Unknown, Native

\* No file is named what no global class is named.
LEMMA GlobalHead ==
  ASSUME Nil \notin Classes, NEW n, Global(n) = Nil, NEW h \in Heads
  PROVE  project.name[h] # n
<1> DEFINE S == {d \in Heads : project.name[d] = n}
<1> SUFFICES ASSUME S # {} PROVE FALSE
  OBVIOUS
<1>1. Global(n) \in S
  BY DEF Global, OneOf
<1> QED
  BY <1>1 DEF Heads

\* The head of a clause is on the way to the link, unless a class nearer than the
\* file shadows it.
LEMMA LookTracks ==
  ASSUME ScopeOk, NEW c \in Own, Clause(c) # Nil, Unshadowed(c), Headed(c) # Failure,
         NEW rest,
         rest = IF Clause(c).path = Nil /\ Clause(c).names # <<>> THEN Tail(Clause(c).names)
                ELSE Clause(c).names
  PROVE  LinkTo(c, Headed(c), rest)
<1> DEFINE path  == Clause(c).path
           names == Clause(c).names
           n     == Head(names)
           at    == Headed(c)
           link  == ClassParent(c)
<1>1. /\ path \in Classes \cup {Nil, Missing} /\ names \in Seq(STRING)
      /\ Own \subseteq Classes /\ Nil \notin Classes
  BY Nesting DEF ScopeOk
<1>2. /\ \A x : x # Nil => Script(x).kind = "script" /\ Script(x).of = x
      /\ Script(Nil) = Unknown
      /\ \A x : Class(x).kind = "class" /\ Class(x).of = x
  BY DEF Script, Class
<1>3. path # Missing
  BY DEF Headed
<1>4. CASE path # Nil
  <2>1. at = Script(path) /\ rest = names
    BY <1>3, <1>4 DEF Headed
  <2>2. link = Script(Along(path, names))
    BY <1>3, <1>4 DEF ClassParent
  <2>3. path \in Classes
    BY <1>1, <1>3, <1>4
  <2> QED
    BY <1>2, <1>4, <2>1, <2>2, <2>3 DEF LinkTo
<1>5. CASE path = Nil
  <2>1. names # <<>> /\ rest = Tail(names)
    BY <1>3, <1>5 DEF Headed
  <2>2. n \in STRING /\ Tail(names) \in Seq(STRING) /\ Len(names) \in Nat \ {0}
        /\ Len(Tail(names)) = Len(names) - 1
    BY <1>1, <2>1, HeadTailProperties, EmptySeq
  <2>3. link = LinkNamed(c, names)
    BY <1>5 DEF ClassParent
  <2>4. CASE Global(n) # Nil
    <3>1. Global(n) \in Classes
      BY <2>4 DEF Global, OneOf, Heads
    <3>2. link = Script(Along(Global(n), Tail(names)))
      BY <2>1, <2>3, <2>4 DEF LinkNamed
    <3>3. at \in {Class(Global(n)), Script(Global(n))}
      BY <1>3, <1>5, <2>1, <2>4 DEF Headed
    <3>4. at.kind \in {"class", "script"} /\ at.of = Global(n)
      BY <1>2, <2>4, <3>3
    <3> QED
      BY <1>2, <2>1, <3>1, <3>2, <3>4 DEF LinkTo
  <2>5. CASE Global(n) = Nil /\ n \in project.natives
    <3>1. link = IF Len(names) = 1 THEN Native(n) ELSE Unknown
      BY <2>1, <2>3, <2>5 DEF LinkNamed
    <3>2. at = Native(n)
      BY <1>3, <1>5, <2>1, <2>5 DEF Headed
    <3>3. Len(names) = 1 => rest = <<>>
      <4>1. PICK t : t = Tail(names)
        OBVIOUS
      <4>2. t \in Seq(STRING) /\ (Len(names) = 1 => Len(t) = 0)
        BY <2>2, <4>1
      <4>3. t # <<>> => Len(t) \in Nat \ {0}
        BY <4>2, EmptySeq
      <4> QED
        BY <2>1, <4>1, <4>2, <4>3
    <3> QED
      BY <3>1, <3>2, <3>3 DEF LinkTo
  <2>6. CASE Global(n) = Nil /\ n \notin project.natives
    <3> DEFINE file == FileOf[c]
    <3>1. link = Script(Along(file, names))
      BY <2>1, <2>3, <2>6 DEF LinkNamed
    <3>2. at = InScope(c, n)
      BY <1>3, <1>5, <2>1, <2>6 DEF Headed
    <3>3. /\ file \in Own \cap Heads /\ file \in Classes
          /\ \A S \in SUBSET Classes :
               c \in S /\ (\A e \in S : project.outer[e] \in S \cup {Nil}) => file \in S
      BY <1>1, FileOfHead DEF ScopeOk
    <3>4. /\ Scope(c) \in Seq(Classes) /\ c \in Range(Scope(c)) /\ Range(Scope(c)) \subseteq Classes
          /\ Closed(Range(Scope(c)))
      BY <1>1, ScopeReach DEF ScopesReach
    <3>5. file \in Range(Scope(c))
      BY <3>3, <3>4 DEF Closed
    <3>6. Along(file, names) = Along(Inner(file, n), Tail(names))
      BY <1>1, <2>1, <3>3, AlongStep
    <3>7. Inner(file, n) \in Classes \cup {Nil}
      BY DEF Inner, OneOf
    <3>8. CASE Inner(file, n) = Nil
      <4>1. Along(Nil, Tail(names)) = Nil
        BY <2>2, AlongStep
      <4> QED
        BY <1>2, <3>1, <3>6, <3>8, <4>1 DEF LinkTo
    <3>9. CASE Inner(file, n) # Nil
      <4> DEFINE scope == Scope(c)
                 hits  == {i \in 1..Len(scope) : scope[i] \in Own /\ Named(scope[i], n)}
                 near  == scope[Min(hits)]
      <4>1. PICK i \in 1..Len(scope) : scope[i] = file
        BY <3>4, <3>5, LenProperties DEF Range
      <4>2. i \in hits
        BY <3>3, <3>9, <4>1 DEF Named
      <4>3. Min(hits) \in hits
        <5>1. hits \in SUBSET Nat
          OBVIOUS
        <5> HIDE DEF hits
        <5> QED
          BY <4>2, <5>1, MinExists
      <4>4. near \in Own /\ Named(near, n) /\ near \in Range(scope)
        BY <3>4, <4>3, LenProperties DEF Range
      <4>5. near \in Heads
        BY <2>1, <4>4 DEF Unshadowed
      <4>6. near = file
        BY <3>3, <4>4, <4>5, Nesting DEF ScopeOk
      <4>7. project.name[file] # n
        BY <1>1, <2>6, <3>3, GlobalHead
      <4>8. InScope(c, n) = IF project.name[near] = n THEN Class(near)
                            ELSE IF Inner(near, n) # Nil THEN Class(Inner(near, n))
                            ELSE IF project.member[near][n] = Other THEN Failure
                            ELSE Script(project.member[near][n])
        BY <4>2 DEF InScope
      <4>9. at = Class(Inner(file, n))
        <5> HIDE DEF near, file, n, at
        <5> QED
          BY <3>2, <3>9, <4>6, <4>7, <4>8
      <4> HIDE DEF file, n, names, at, link
      <4>10. \/ link = Unknown
             \/ link.kind = "script" /\ link.of = Along(Inner(file, n), Tail(names))
        BY <1>2, <3>1, <3>6
      <4>11. at.kind = "class" /\ at.of \in Classes /\ at.of = Inner(file, n)
        BY <1>2, <3>7, <3>9, <4>9
      <4> QED
        BY <2>1, <4>10, <4>11 DEF LinkTo, at, link
    <3> QED
      BY <3>8, <3>9
  <2> QED
    BY <2>4, <2>5, <2>6
<1> QED
  BY <1>4, <1>5

\* One more name of the clause stays on the way to the link.
LEMMA NestTracks ==
  ASSUME ScopeOk, NEW c, NEW at, NEW names \in Seq(STRING), names # <<>>,
         LinkTo(c, at, names), Nested(at, Head(names)) # Failure
  PROVE  LinkTo(c, Nested(at, Head(names)), Tail(names))
<1> DEFINE n == Head(names)
           link == ClassParent(c)
<1>1. CASE link = Unknown
  BY <1>1 DEF LinkTo
<1>2. CASE /\ link.kind = "script" /\ at.kind \in {"class", "script"}
           /\ at.of \in Classes /\ Along(at.of, names) = link.of
  <2>1. link.of # Nil /\ Nil \notin Classes
    BY <1>2, ScriptLinks, Nesting DEF ScopeOk
  <2>2. n \in STRING /\ Tail(names) \in Seq(STRING)
    BY HeadTailProperties
  <2>3. Along(Inner(at.of, n), Tail(names)) = link.of
    BY <1>2, <2>1, AlongStep
  <2>4. Inner(at.of, n) \in Classes \cup {Nil}
    BY DEF Inner, OneOf
  <2>5. Inner(at.of, n) # Nil
    BY <2>1, <2>2, <2>3, AlongStep
  <2>6. Nested(at, n) \in {Script(Inner(at.of, n)), Class(Inner(at.of, n))}
    BY <1>2, <2>5 DEF Nested
  <2>7. Nested(at, n).kind \in {"class", "script"} /\ Nested(at, n).of = Inner(at.of, n)
    BY <2>5, <2>6 DEF Script, Class
  <2> HIDE DEF n
  <2> QED
    BY <1>2, <2>3, <2>4, <2>5, <2>7 DEF LinkTo, n
<1> QED
  BY <1>1, <1>2 DEF LinkTo

-----------------------------------------------------------------------------
BasesKept ==
  /\ project' = project
  /\ \A d \in Classes : BaseClass(d) # Nil => BaseClass(d)' = BaseClass(d)

(* The pass only adds to a scope, and so only shadows more.                *)
LEMMA TracksStays ==
  ASSUME ScopeOk, ScopeOk', BasesKept, NEW c \in Classes, NEW at, NEW rest, Tracks(c, at, rest)
  PROVE  Tracks(c, at, rest)'
<1>1. Classes' = Classes /\ project' = project /\ Heads' = Heads
  BY DEF BasesKept, Classes, Heads
<1>2. Range(Scope(c)) \subseteq Range(Scope(c))'
  <2>1. ScopeOk' => ScopesReach'
    BY ScopeReach, PTL
  <2>2. /\ c \in Range(Scope(c))' /\ Range(Scope(c))' \subseteq Classes
        /\ \A d \in Range(Scope(c))' : /\ BaseClass(d)' \in Range(Scope(c))' \cup {Nil}
                                       /\ project.outer[d] \in Range(Scope(c))' \cup {Nil}
    BY <1>1, <2>1 DEF ScopesReach, Closed
  <2>3. PICK S : S = Range(Scope(c))'
    OBVIOUS
  <2>4. S \in SUBSET Classes /\ c \in S /\ Closed(S)
    BY <2>2, <2>3 DEF Closed, BasesKept
  <2>5. Range(Scope(c)) \subseteq S
    BY <2>4, ScopeReach DEF ScopesReach
  <2> QED
    BY <2>3, <2>5
<1>3. Unshadowed(c)' => Unshadowed(c)
  <2>1. \A s, n : Named(s, n)' = Named(s, n)
    BY <1>1 DEF Named, Inner, OneOf
  <2>2. Clause(c)' = Clause(c)
    BY <1>1, SameLink
  <2> QED
    BY <1>1, <1>2, <2>1, <2>2 DEF Unshadowed
<1> QED
  BY <1>1, <1>3, SameLink DEF Tracks

\* The invariant has what the scopes need.
LEMMA ScopesOk == IInv => ScopeOk
  BY DEF IInv, Shape, BasesUsable, Usable, Found, ScopeOk

(* A class that has a base keeps it, and what a clause led to still counts. *)
LEMMA TracksKept ==
  ASSUME IInv, IInv', project' = project,
         \A d \in Own : base'[d] = base[d] \/ base[d] \in {Unset, Resolving}
  PROVE  /\ Own' = Own
         /\ \A d \in Own : \A at, rest : Tracks(d, at, rest) => Tracks(d, at, rest)'
         /\ \A f : f.class \in Own /\ FrameTracks(f) => FrameTracks(f)'
<1>1. Own' = Own /\ Classes' = Classes /\ Own \subseteq Classes
  BY Nesting DEF Own, Classes, IInv, Shape
<1>2. ScopeOk /\ ScopeOk'
  BY ScopesOk, PTL
<1>3. \A d \in Own : base[d] \in {Unset, Resolving} => BaseClass(d) = Nil
  BY DEF BaseClass, Unset, Resolving
<1>4. BasesKept
  BY <1>1, <1>3 DEF BasesKept, BaseClass
<1>5. \A d \in Own : \A at, rest : Tracks(d, at, rest) => Tracks(d, at, rest)'
  BY <1>1, <1>2, <1>4, TracksStays
<1>6. ASSUME NEW f, f.class \in Own, FrameTracks(f)
      PROVE  FrameTracks(f)'
  BY <1>5, <1>6, SameLink DEF FrameTracks, Unset
<1> QED
  BY <1>1, <1>5, <1>6

(* The calls above those that wait.                                        *)
LEMMA OnTop ==
  ASSUME NEW V, NEW waiting \in Seq(V), NEW f
  PROVE  /\ <<f>> \o waiting \in Seq(V \cup {f})
         /\ \A i \in 1..Len(<<f>> \o waiting) :
              \/ (<<f>> \o waiting)[i] = f
              \/ \E j \in 1..Len(waiting) : (<<f>> \o waiting)[i] = waiting[j]
<1>1. waiting \in Seq(V \cup {f}) /\ <<f>> \in Seq(V \cup {f})
  BY SeqMonotonic
<1>2. Len(<<f>>) = 1 /\ <<f>>[1] = f /\ Len(waiting) \in Nat
  BY LenProperties
<1>3. PICK one : one = <<f>>
  OBVIOUS
<1>4. /\ one \o waiting \in Seq(V \cup {f}) /\ Len(one \o waiting) = 1 + Len(waiting)
      /\ \A i \in 1..(1 + Len(waiting)) :
            (one \o waiting)[i] = IF i <= 1 THEN one[i] ELSE waiting[i - 1]
  BY <1>1, <1>2, <1>3, ConcatProperties
<1>5. \A i \in 1..(1 + Len(waiting)) : i = 1 \/ (~(i <= 1) /\ i - 1 \in 1..Len(waiting))
  BY <1>2
<1> QED
  BY <1>2, <1>3, <1>4, <1>5

(* An error settles nothing.                                               *)
LEMMA LinksFail ==
  ASSUME IInv, IInv', SettledTrack, Fail
  PROVE  FramesTrack' /\ SettledTrack'
<1>1. project' = project /\ base' = base /\ frames' = <<>>
  BY DEF Fail
<1>2. Own' = Own /\ \A d \in Own : \A at, rest : Tracks(d, at, rest) => Tracks(d, at, rest)'
  BY <1>1, TracksKept
<1>3. SettledTrack'
  BY <1>1, <1>2 DEF SettledTrack, Settled
<1> QED
  BY <1>1, <1>3 DEF FramesTrack

(* The clause of a class that is entered is still whole.                   *)
LEMMA LinksEnter ==
  ASSUME IInv, IInv', SettledTrack, NEW c \in Own, base[c] = Unset,
         NEW V, NEW calls \in Seq(V), Enter(c, calls),
         \A i \in 1..Len(calls) : calls[i].class \in Own /\ FrameTracks(calls[i])
  PROVE  FramesTrack' /\ SettledTrack'
<1>1. /\ project' = project /\ frames' = <<Frame(c)>> \o calls
      /\ base'[c] = Resolving /\ \A d \in Own : d # c => base'[d] = base[d]
  BY DEF Enter, IInv, Shape
<1>2. /\ Own' = Own
      /\ \A d \in Own : \A at, rest : Tracks(d, at, rest) => Tracks(d, at, rest)'
      /\ \A f : f.class \in Own /\ FrameTracks(f) => FrameTracks(f)'
  BY <1>1, TracksKept
<1>3. SettledTrack'
  <2>1. ASSUME NEW d \in Own, Settled(d)'
        PROVE  Settled(d) /\ base'[d] = base[d]
    BY <1>1, <2>1 DEF Settled
  <2> QED
    BY <1>2, <2>1 DEF SettledTrack
<1>4. PICK f : f = Frame(c)
  OBVIOUS
<1>5. f.class \in Own /\ FrameTracks(f)
  <2>1. CASE Clause(c) = Nil
    <3>1. f = [class |-> c, at |-> Native(Implicit), names |-> <<>>]
      BY <1>4, <2>1 DEF Frame
    <3>2. ClassParent(c) = Native(Implicit)
      BY <2>1 DEF ClassParent
    <3>3. Tracks(c, Native(Implicit), <<>>)
      BY <3>2 DEF Tracks, LinkTo
    <3>4. f.class = c /\ f.at = Native(Implicit) /\ f.names = <<>>
      BY <3>1
    <3>5. <<>> \in Seq(STRING) /\ Native(Implicit) # Unset
      BY EmptySeq DEF Native, Unset
    <3> QED
      BY <3>3, <3>4, <3>5 DEF FrameTracks
  <2>2. CASE Clause(c) # Nil
    <3>1. f = [class |-> c, at |-> Unset, names |-> Clause(c).names]
      BY <1>4, <2>2 DEF Frame
    <3>2. Clause(c).names \in Seq(STRING)
      BY <2>2, Nesting DEF IInv, Shape
    <3>3. f.class = c /\ f.at = Unset /\ f.names = Clause(c).names
      BY <3>1
    <3> QED
      BY <2>2, <3>2, <3>3 DEF FrameTracks
  <2> QED
    BY <2>1, <2>2
<1>6. \A i \in 1..Len(frames') : frames'[i] = f \/ \E j \in 1..Len(calls) : frames'[i] = calls[j]
  BY <1>1, <1>4, OnTop
<1>7. FramesTrack'
  <2>1. ASSUME NEW i \in 1..Len(frames')
        PROVE  FrameTracks(frames[i])'
    <3>1. PICK h : h = frames'[i]
      OBVIOUS
    <3>2. FrameTracks(h)'
      BY <1>2, <1>5, <1>6, <3>1
    <3> QED
      BY <3>1, <3>2 DEF FrameTracks
  <2> QED
    BY <2>1 DEF FramesTrack
<1> QED
  BY <1>3, <1>7

(* A clause followed one name further.                                     *)
LEMMA LinksAdvance ==
  ASSUME IInv, IInv', FramesTrack, SettledTrack, frames # <<>>, NEW at, NEW rest,
         at = Failure \/ Found(at), Advance(at, rest), rest \in Seq(STRING),
         at # Failure => Tracks(Head(frames).class, at, rest)
  PROVE  FramesTrack' /\ SettledTrack'
<1>1. PICK calls, f : /\ f = [class |-> Head(frames).class, at |-> at, names |-> rest]
                      /\ calls = <<f>> \o Tail(frames)
  OBVIOUS
<1>2. f.class = Head(frames).class /\ f.at = at /\ f.names = rest
  BY <1>1
<1>3. /\ Head(frames).class \in Own /\ base[Head(frames).class] = Resolving
      /\ \E V : Tail(frames) \in Seq(V)
      /\ \A j \in 1..Len(Tail(frames)) : \E i \in 1..Len(frames) : Tail(frames)[j] = frames[i]
  <2>1. \A j \in 1..Len(Tail(frames)) : j + 1 \in 1..Len(frames)
    BY Calls
  <2> QED
    BY <2>1, Calls DEF FrameSound
<1>4. PICK V : Tail(frames) \in Seq(V)
  BY <1>3
<1>5. /\ \E W : calls \in Seq(W)
      /\ \A i \in 1..Len(calls) : calls[i] = f \/ \E j \in 1..Len(frames) : calls[i] = frames[j]
  <2>1. PICK w : w = Tail(frames)
    OBVIOUS
  <2>2. /\ calls \in Seq(V \cup {f})
        /\ \A i \in 1..Len(calls) : calls[i] = f \/ \E j \in 1..Len(w) : calls[i] = w[j]
    <3>1. calls = <<f>> \o w /\ w \in Seq(V)
      BY <1>1, <1>4, <2>1
    <3>2. /\ <<f>> \o w \in Seq(V \cup {f})
          /\ \A i \in 1..Len(<<f>> \o w) :
               \/ (<<f>> \o w)[i] = f
               \/ \E j \in 1..Len(w) : (<<f>> \o w)[i] = w[j]
      BY <3>1, OnTop
    <3> QED
      BY <3>1, <3>2
  <2> QED
    BY <1>3, <2>1, <2>2
<1>6. \A i \in 1..Len(frames) : frames[i].class \in Own
  BY DEF IInv, FramesSound, FrameSound
<1>7. CASE at = Failure
  BY <1>7, LinksFail DEF Advance
<1>8. CASE at # Failure
  <2>1. FrameTracks(f)
    BY <1>2, <1>8 DEF FrameTracks, Found, Unset
  <2>2. \A i \in 1..Len(calls) : calls[i].class \in Own /\ FrameTracks(calls[i])
    BY <1>2, <1>3, <1>5, <1>6, <2>1 DEF FramesTrack
  <2>3. CASE at.kind = "class" /\ base[at.of] = Unset
    <3>1. PICK W : calls \in Seq(W)
      BY <1>5
    <3>2. at.of \in Own /\ Enter(at.of, calls)
      BY <1>1, <1>8, <2>3 DEF Advance, Found
    <3> QED
      BY <2>2, <2>3, <3>1, <3>2, LinksEnter
  <2>4. CASE ~(at.kind = "class" /\ base[at.of] = Unset)
    <3>1. frames' = calls /\ project' = project /\ base' = base
      BY <1>1, <1>8, <2>4 DEF Advance
    <3>2. /\ Own' = Own
          /\ \A d \in Own : \A x, r : Tracks(d, x, r) => Tracks(d, x, r)'
          /\ \A h : h.class \in Own /\ FrameTracks(h) => FrameTracks(h)'
      BY <1>3, <3>1, TracksKept
    <3>3. SettledTrack'
      BY <3>1, <3>2 DEF SettledTrack, Settled
    <3>4. ASSUME NEW i \in 1..Len(frames')
          PROVE  FrameTracks(frames[i])'
      <4>1. PICK h : h = frames'[i]
        OBVIOUS
      <4>2. FrameTracks(h)'
        BY <2>2, <3>1, <3>2, <4>1
      <4> QED
        BY <4>1, <4>2 DEF FrameTracks
    <3> QED
      BY <3>3, <3>4 DEF FramesTrack
  <2> QED
    BY <2>3, <2>4
<1> QED
  BY <1>7, <1>8

(* What a finished clause led to is kept.                                  *)
LEMMA LinksFinish ==
  ASSUME IInv, IInv', FramesTrack, SettledTrack, Finish
  PROVE  FramesTrack' /\ SettledTrack'
<1>1. PICK c, at : c = Head(frames).class /\ at = Head(frames).at
  OBVIOUS
<1>2. /\ frames # <<>> /\ at # Unset /\ Head(frames).names = <<>>
      /\ c \in Own /\ base[c] = Resolving
  BY <1>1, Calls DEF Finish, FrameSound
<1>3. Tracks(c, at, <<>>)
  BY <1>1, <1>2, Calls DEF FramesTrack, FrameTracks
<1>4. CASE Fail
  BY <1>4, LinksFail
<1>5. CASE /\ base' = [base EXCEPT ![c] = at] /\ frames' = Tail(frames) /\ project' = project
  <2>1. base'[c] = at /\ \A d \in Own : d # c => base'[d] = base[d]
    BY <1>2, <1>5 DEF IInv, Shape
  <2>2. /\ Own' = Own
        /\ \A d \in Own : \A x, r : Tracks(d, x, r) => Tracks(d, x, r)'
        /\ \A h : h.class \in Own /\ FrameTracks(h) => FrameTracks(h)'
    BY <1>2, <1>5, <2>1, TracksKept
  <2>3. SettledTrack'
    <3>1. ASSUME NEW d \in Own, Settled(d)', d # c
          PROVE  Settled(d) /\ base'[d] = base[d]
      BY <2>1, <3>1 DEF Settled
    <3> QED
      BY <1>2, <1>3, <2>1, <2>2, <3>1 DEF SettledTrack
  <2>4. ASSUME NEW i \in 1..Len(frames')
        PROVE  FrameTracks(frames[i])'
    <3>1. PICK h : h = frames'[i]
      OBVIOUS
    <3>2. h = frames[i + 1] /\ i + 1 \in 1..Len(frames)
      BY <1>2, <1>5, <3>1, Calls
    <3>3. FrameTracks(h)'
      BY <2>2, <3>2 DEF FramesTrack, IInv, FramesSound, FrameSound
    <3> QED
      BY <3>1, <3>3 DEF FrameTracks
  <2> QED
    BY <2>3, <2>4 DEF FramesTrack
<1> QED
  BY <1>1, <1>4, <1>5 DEF Finish

(* Every step, and none.                                                   *)
LEMMA LinksKeep ==
  ASSUME IInv, FramesTrack, SettledTrack, [InheritNext]_inheritVars
  PROVE  FramesTrack' /\ SettledTrack'
<1>1. IInv' /\ ScopeOk
  BY StepKeeps, ScopesOk
<1>2. ASSUME project' = project, base' = base, frames' = frames
      PROVE  FramesTrack' /\ SettledTrack'
  <2>1. /\ Own' = Own
        /\ \A d \in Own : \A x, r : Tracks(d, x, r) => Tracks(d, x, r)'
        /\ \A h : h.class \in Own /\ FrameTracks(h) => FrameTracks(h)'
    BY <1>1, <1>2, TracksKept
  <2>2. SettledTrack'
    BY <1>2, <2>1 DEF SettledTrack, Settled
  <2>3. ASSUME NEW i \in 1..Len(frames')
        PROVE  FrameTracks(frames[i])'
    <3>1. PICK h : h = frames'[i]
      OBVIOUS
    <3>2. FrameTracks(h)'
      BY <1>2, <2>1, <3>1 DEF FramesTrack, IInv, FramesSound, FrameSound
    <3> QED
      BY <3>1, <3>2 DEF FrameTracks
  <2> QED
    BY <2>2, <2>3 DEF FramesTrack
<1>3. CASE Visit
  <2>1. PICK c : c = project.order[next]
    OBVIOUS
  <2>2. CASE base[c] = Unset /\ Enter(c, <<>>)
    <3>1. PICK calls : calls = <<>>
      OBVIOUS
    <3>2. calls \in Seq({}) /\ Enter(c, calls) /\ \A i \in 1..Len(calls) : FALSE
      BY <2>2, <3>1, EmptySeq
    <3>3. c \in Own
      <4>1. next \in 1..Len(project.order) /\ project.order \in Seq(Classes)
        BY <1>3, Nesting DEF Visit, IInv, Shape, End
      <4> QED
        BY <2>1, <4>1, LenProperties DEF Own, Range
    <3> QED
      BY <1>1, <2>2, <3>2, <3>3, LinksEnter
  <2>3. CASE Fail
    BY <1>1, <2>3, LinksFail
  <2>4. CASE UNCHANGED <<project, base, root, frames, failed>>
    BY <1>2, <2>4
  <2> QED
    BY <1>3, <2>1, <2>2, <2>3, <2>4 DEF Visit
<1>4. CASE Look
  <2>1. PICK c, at, rest :
          /\ c = Head(frames).class /\ at = Headed(c)
          /\ rest = IF Clause(c).path = Nil /\ Clause(c).names # <<>> THEN Tail(Clause(c).names)
                    ELSE Clause(c).names
    OBVIOUS
  <2>2. frames # <<>> /\ Head(frames).at = Unset /\ Advance(at, rest)
    BY <1>4, <2>1 DEF Look
  <2>3. at = Failure \/ Found(at)
    BY <2>1, HeadedIsFound DEF IInv, Shape
  <2>4. c \in Own /\ Clause(c) # Nil
    BY <2>1, <2>2, Calls DEF FramesTrack, FrameTracks, FrameSound
  <2>5. Clause(c).names \in Seq(STRING)
    BY <2>4, Nesting DEF IInv, Shape
  <2>6. rest \in Seq(STRING)
    BY <2>1, <2>5, HeadTailProperties
  <2>7. at # Failure => Tracks(c, at, rest)
    BY <1>1, <2>1, <2>4, LookTracks DEF Tracks
  <2> QED
    BY <1>1, <2>1, <2>2, <2>3, <2>6, <2>7, LinksAdvance
<1>5. CASE Nest
  <2>1. PICK at, rest : /\ at = Nested(Head(frames).at, Head(Head(frames).names))
                        /\ rest = Tail(Head(frames).names)
    OBVIOUS
  <2>2. /\ frames # <<>> /\ Head(frames).at # Unset /\ Head(frames).names # <<>>
        /\ Advance(at, rest)
    BY <1>5, <2>1 DEF Nest
  <2>3. Found(Head(frames).at) /\ FrameTracks(Head(frames))
    BY <2>2, Calls DEF FrameSound, Usable, FramesTrack
  <2>4. at = Failure \/ Found(at)
    BY <2>1, <2>3, NestedIsFound DEF IInv, Shape
  <2>5. rest \in Seq(STRING)
    BY <2>1, <2>2, <2>3, HeadTailProperties DEF FrameTracks
  <2>6. at # Failure => Tracks(Head(frames).class, at, rest)
    BY <1>1, <2>1, <2>2, <2>3, NestTracks DEF FrameTracks, Tracks
  <2> QED
    BY <1>1, <2>2, <2>4, <2>5, <2>6, LinksAdvance
<1>6. CASE Finish
  BY <1>1, <1>6, LinksFinish
<1>7. CASE UNCHANGED inheritVars
  BY <1>2, <1>7 DEF inheritVars
<1> QED
  BY <1>3, <1>4, <1>5, <1>6, <1>7 DEF InheritNext

(* Links over interfaces agree with the bases of the pass, whatever the    *)
(* classes name: class_parent and, for a clause it reads whole, step of    *)
(* script_chain.rs lead to the base the file itself gives the class, or to *)
(* nothing, unless an inner or a base class shadows the name.              *)
THEOREM LinksDoAgree == InheritSpec => []LinksAgree
<1>1. InheritInit => FramesTrack /\ SettledTrack
  BY DEF InheritInit, FramesTrack, SettledTrack, Settled, Own
<1>2. IInv /\ FramesTrack /\ SettledTrack => LinksAgree
  <2>1. SUFFICES ASSUME IInv, SettledTrack, Clean, NEW c \in Own, Clause(c) = Nil \/ Unshadowed(c)
                 PROVE  /\ Agrees(ClassParent(c), c)
                        /\ Clause(c) = Nil \/ Clause(c).path = Nil \/ Clause(c).names = <<>>
                           => Agrees(Step(c), c)
    BY DEF LinksAgree
  <2>2. Settled(c)
    BY <2>1, SettledAtEnd
  <2>3. LinkTo(c, base[c], <<>>)
    BY <2>1, <2>2 DEF SettledTrack, Tracks
  <2>4. \A d \in Classes : Along(d, <<>>) = d
    BY AlongStep, EmptySeq
  <2>5. Agrees(ClassParent(c), c)
    BY <2>3, <2>4 DEF LinkTo, Agrees
  <2>6. ASSUME Clause(c) = Nil \/ Clause(c).path = Nil \/ Clause(c).names = <<>>
        PROVE  Step(c) = ClassParent(c)
    <3>1. c \in Classes /\ Clause(c) \in {Nil} \cup [path  : Classes \cup {Nil, Missing},
                                                   names : Seq(STRING)]
      BY <2>1, Nesting DEF IInv, Shape
    <3>2. \A d \in Classes \cup {Nil} : Along(d, <<>>) = d
      BY AlongStep, EmptySeq
    <3> QED
      BY <2>6, <3>1, <3>2 DEF Step, ClassParent
  <2> QED
    BY <2>5, <2>6
<1> QED
  BY Starts, StepKeeps, LinksKeep, <1>1, <1>2, PTL DEF InheritSpec

(***************************************************************************)
(* Orders, and the ways the comparisons of scan_order.rs are put together: *)
(* by rank, one after another, and piece by piece along two names.         *)
(***************************************************************************)

(* A chain of steps that ends.                                             *)
Chain(X, T, Stop, val, rest, size) ==
  /\ T # {} /\ Stop \in SUBSET X /\ size \in [X -> Nat]
  /\ \A x \in Stop : val[x] \in T
  /\ \A x \in X \ Stop : rest[x] \in X /\ size[rest[x]] < size[x]

\* A chain of steps reaches its end, and its value there is its value.
LEMMA Iteration ==
  ASSUME NEW X, NEW T, NEW Stop, NEW val, NEW rest, NEW size, Chain(X, T, Stop, val, rest, size)
  PROVE  \E f \in [X -> T] : f = [x \in X |-> IF x \in Stop THEN val[x] ELSE f[rest[x]]]
<1> USE DEF Chain
<1> DEFINE F == [x \in X |-> [f \in [X -> T] |-> IF x \in Stop THEN val[x] ELSE f[rest[x]]]]
<1>1. F \in [X -> [[X -> T] -> T]]
  OBVIOUS
<1>2. \A x \in X, f, g \in [X -> T] :
        (\A y \in X : size[y] < size[x] => f[y] = g[y]) => F[x][f] = F[x][g]
  OBVIOUS
<1>3. \E f \in [X -> T] : \A x \in X : f[x] = F[x][f]
  <2> HIDE DEF F
  <2>1. WellDefined(X, T, F, size)
    BY <1>1, <1>2 DEF WellDefined
  <2> QED
    BY <2>1, Recursion
<1>4. PICK f \in [X -> T] : \A x \in X : f[x] = F[x][f]
  BY <1>3
<1>5. f = [x \in X |-> IF x \in Stop THEN val[x] ELSE f[rest[x]]]
  BY <1>4
<1> QED
  BY <1>5

-----------------------------------------------------------------------------
(* Comparisons that are an order up to a tie.                              *)
At(c, x, y) == c[<<x, y>>]

Ordered(X, c) ==
  /\ \A x, y \in X : At(c, x, y) \in {-1, 0, 1}
  /\ \A x, y \in X : At(c, x, y) = -1 <=> At(c, y, x) = 1
  /\ \A x, y, z \in X : At(c, x, z) = 1 => At(c, x, y) = 1 \/ At(c, y, z) = 1

(* A comparison of ranks is ordered.                                       *)
LEMMA ByRank ==
  ASSUME NEW X, NEW rank \in [X -> Int], NEW c,
         \A x, y \in X : At(c, x, y) = Sign(rank[x], rank[y])
  PROVE  Ordered(X, c)
<1>1. \A x \in X : rank[x] \in Int
  OBVIOUS
<1>2. \A x, y \in X :
        /\ At(c, x, y) \in {-1, 0, 1}
        /\ At(c, x, y) = -1 <=> rank[x] < rank[y]
        /\ At(c, x, y) = 1 <=> rank[x] > rank[y]
  BY <1>1 DEF Sign
<1> QED
  BY <1>1, <1>2 DEF Ordered

Ranked(X, rank) == [p \in X \X X |-> Sign(rank[p[1]], rank[p[2]])]

\* Ranks, as a comparison.
LEMMA RankedOrdered ==
  ASSUME NEW X, NEW rank \in [X -> Int]
  PROVE  /\ \A x, y \in X : At(Ranked(X, rank), x, y) = Sign(rank[x], rank[y])
         /\ Ordered(X, Ranked(X, rank))
<1> DEFINE c == Ranked(X, rank)
<1>1. \A x, y \in X : At(c, x, y) = Sign(rank[x], rank[y])
  BY DEF At, Ranked
<1> HIDE DEF c
<1>2. Ordered(X, c)
  BY <1>1, ByRank
<1> QED
  BY <1>1, <1>2 DEF c

(* One comparison and, for its ties, another.                              *)
LEMMA InTurn ==
  ASSUME NEW X, NEW c, NEW c1, NEW c2, Ordered(X, c1), Ordered(X, c2),
         \A x, y \in X : At(c, x, y) = IF At(c1, x, y) # 0 THEN At(c1, x, y) ELSE At(c2, x, y)
  PROVE  Ordered(X, c)
<1>1. \A x, y \in X : At(c, x, y) \in {-1, 0, 1}
  BY DEF Ordered
<1>2. \A x, y \in X : At(c, x, y) = -1 <=> At(c, y, x) = 1
  BY DEF Ordered
<1>3. \A x, y, z \in X : At(c, x, z) = 1 => At(c, x, y) = 1 \/ At(c, y, z) = 1
  BY DEF Ordered
<1> QED
  BY <1>1, <1>2, <1>3 DEF Ordered

(* A comparison of what a function makes of things.                        *)
LEMMA Mapped ==
  ASSUME NEW X, NEW Y, NEW c, NEW d, NEW f \in [X -> Y], Ordered(Y, d),
         \A x, y \in X : At(c, x, y) = At(d, f[x], f[y])
  PROVE  Ordered(X, c)
<1>1. \A x \in X : f[x] \in Y
  OBVIOUS
<1> QED
  BY <1>1 DEF Ordered

(* A comparison that looks at one piece after another, until they differ   *)
(* or one is the last.                                                     *)
Pieces(X, c, piece, last, Stop, rest, size) ==
  /\ Ordered(X, piece) /\ Ordered(X, last)
  /\ Stop \in SUBSET X /\ size \in [X -> Nat]
  /\ \A x \in X \ Stop : rest[x] \in X /\ size[rest[x]] < size[x]
  /\ \A x, y \in X : At(piece, x, y) = 0 => (x \in Stop <=> y \in Stop)
  /\ \A x, y \in X :
       At(c, x, y) = IF At(piece, x, y) # 0 THEN At(piece, x, y)
                     ELSE IF x \in Stop THEN At(last, x, y) ELSE At(c, rest[x], rest[y])

\* Piece by piece is an order when each piece is, and so is what is left at the
\* last.
LEMMA Stepwise ==
  ASSUME NEW X, NEW c, NEW piece, NEW last, NEW Stop, NEW rest, NEW size,
         Pieces(X, c, piece, last, Stop, rest, size)
  PROVE  Ordered(X, c)
<1> USE DEF Pieces
<1> DEFINE Good(x) ==
      /\ \A y \in X : At(c, x, y) \in {-1, 0, 1} /\ (At(c, x, y) = -1 <=> At(c, y, x) = 1)
                      /\ (At(c, x, y) = 1 <=> At(c, y, x) = -1)
      /\ \A y, z \in X : At(c, x, z) = 1 => At(c, x, y) = 1 \/ At(c, y, z) = 1
<1>1. ASSUME NEW x \in X, \A y \in X : size[y] < size[x] => Good(y)
      PROVE  Good(x)
  <2>1. x \notin Stop => rest[x] \in X /\ Good(rest[x])
    BY <1>1
  <2>2. ASSUME NEW y \in X
        PROVE  At(c, x, y) \in {-1, 0, 1} /\ (At(c, x, y) = -1 <=> At(c, y, x) = 1)
               /\ (At(c, x, y) = 1 <=> At(c, y, x) = -1)
    <3>1. CASE At(piece, x, y) # 0 \/ x \in Stop
      BY <3>1 DEF Ordered
    <3>2. CASE At(piece, x, y) = 0 /\ x \notin Stop
      <4>1. y \notin Stop /\ rest[y] \in X /\ At(piece, y, x) = 0
        BY <3>2 DEF Ordered
      <4>2. At(c, x, y) = At(c, rest[x], rest[y]) /\ At(c, y, x) = At(c, rest[y], rest[x])
        BY <3>2, <4>1
      <4> QED
        BY <2>1, <3>2, <4>1, <4>2
    <3> QED
      BY <3>1, <3>2
  <2>3. ASSUME NEW y \in X, NEW z \in X, At(c, x, z) = 1
        PROVE  At(c, x, y) = 1 \/ At(c, y, z) = 1
    <3>1. CASE At(piece, x, y) = 1 \/ At(piece, y, z) = 1
      BY <3>1
    <3>2. CASE At(piece, x, y) # 1 /\ At(piece, y, z) # 1
      <4>1. At(piece, x, z) # 1
        BY <3>2 DEF Ordered
      <4>2. At(piece, x, z) = 0
        BY <2>3, <4>1 DEF Ordered
      <4>3. At(piece, x, y) = 0 /\ At(piece, y, z) = 0
        BY <3>2, <4>2 DEF Ordered
      <4>4. CASE x \in Stop
        <5>1. y \in Stop
          BY <4>3, <4>4
        <5>2. /\ At(c, x, y) = At(last, x, y) /\ At(c, y, z) = At(last, y, z)
              /\ At(c, x, z) = At(last, x, z)
          BY <4>2, <4>3, <4>4, <5>1
        <5> QED
          BY <2>3, <5>2 DEF Ordered
      <4>5. CASE x \notin Stop
        <5>1. y \notin Stop /\ z \notin Stop
          BY <4>3, <4>5
        <5>2. /\ At(c, x, y) = At(c, rest[x], rest[y]) /\ At(c, y, z) = At(c, rest[y], rest[z])
              /\ At(c, x, z) = At(c, rest[x], rest[z])
          BY <4>2, <4>3, <4>5, <5>1
        <5>3. rest[y] \in X /\ rest[z] \in X
          BY <5>1
        <5> QED
          BY <2>1, <2>3, <4>5, <5>2, <5>3
      <4> QED
        BY <4>4, <4>5
    <3> QED
      BY <3>1, <3>2
  <2> QED
    BY <2>2, <2>3
<1>2. \A x \in X : Good(x)
  <2> DEFINE All == {x \in X : Good(x)}
  <2>1. All \in SUBSET X /\ \A x \in X : (\A y \in X : size[y] < size[x] => y \in All) => x \in All
    <3> HIDE DEF Good
    <3> QED
      BY <1>1
  <2> HIDE DEF All
  <2>2. All = X
    BY <2>1, Induction
  <2> HIDE DEF Good
  <2> QED
    BY <2>2 DEF All
<1> QED
  BY <1>2 DEF Ordered

(***************************************************************************)
(* The comparisons of names, from the innermost out.                       *)
(***************************************************************************)

Pairs == Words \X Words

(* What the comparisons take from a word.                                  *)
LEMMA WordFacts ==
  /\ <<>> \in Words
  /\ \A s \in Words :
       /\ Len(s) \in Nat /\ (s = <<>> <=> Len(s) = 0)
       /\ s # <<>> => Head(s) \in Letters /\ Tail(s) \in Words /\ Len(Tail(s)) = Len(s) - 1
  /\ \A s, t \in Words :
       s # <<>> /\ t # <<>> /\ Head(s) = Head(t) /\ Tail(s) = Tail(t) => s = t
<1>1. \A s \in Words :
       /\ Len(s) \in Nat /\ (s = <<>> <=> Len(s) = 0)
       /\ s # <<>> => Head(s) \in Letters /\ Tail(s) \in Words /\ Len(Tail(s)) = Len(s) - 1
  BY HeadTailProperties DEF Words
<1>2. ASSUME NEW s \in Words, NEW t \in Words, s # <<>>, t # <<>>, Head(s) = Head(t), Tail(s) = Tail(t)
      PROVE  s = t
  <2>1. Len(s) = Len(t)
    BY <1>1, <1>2
  <2>2. ASSUME NEW i \in 1..Len(s) PROVE s[i] = t[i]
    <3>1. CASE i = 1
      BY <1>2, <3>1 DEF Words
    <3>2. CASE i # 1
      <4>1. PICK u : u = Tail(s) /\ u = Tail(t)
        BY <1>2
      <4>2. PICK j \in 1..(Len(s) - 1) : i = j + 1
        BY <1>1, <3>2
      <4>3. Tail(s)[j] = s[j + 1] /\ Tail(t)[j] = t[j + 1]
        BY <1>2, <2>1 DEF Words
      <4> QED
        BY <4>1, <4>2, <4>3
    <3> QED
      BY <3>1, <3>2
  <2> QED
    BY <2>1, <2>2 DEF Words
<1> QED
  BY <1>1, <1>2 DEF Words

\* compare_bytes, one character at a time.
LEMMA BytesStep ==
  \A a, b \in Words :
    At(CompareBytes, a, b) =
      IF a = <<>> \/ b = <<>> THEN Sign(Len(a), Len(b))
      ELSE IF Head(a) # Head(b) THEN Sign(Code[Head(a)], Code[Head(b)])
      ELSE At(CompareBytes, Tail(a), Tail(b))
<1> DEFINE E(f, p) == IF p[1] = <<>> \/ p[2] = <<>> THEN Sign(Len(p[1]), Len(p[2]))
                      ELSE IF Head(p[1]) # Head(p[2]) THEN Sign(Code[Head(p[1])], Code[Head(p[2])])
                      ELSE f[<<Tail(p[1]), Tail(p[2])>>]
           T == {-1, 0, 1}
           Stop == {p \in Pairs : p[1] = <<>> \/ p[2] = <<>> \/ Head(p[1]) # Head(p[2])}
           val == [p \in Pairs |-> IF p[1] = <<>> \/ p[2] = <<>> THEN Sign(Len(p[1]), Len(p[2]))
                                   ELSE Sign(Code[Head(p[1])], Code[Head(p[2])])]
           rest == [p \in Pairs |-> <<Tail(p[1]), Tail(p[2])>>]
           size == [p \in Pairs |-> Len(p[1])]
<1>1. \E f \in [Pairs -> T] : f = [p \in Pairs |-> IF p \in Stop THEN val[p] ELSE f[rest[p]]]
  <2>1. Stop \in SUBSET Pairs /\ T # {}
    OBVIOUS
  <2>2. \A p \in Stop : val[p] \in T
    BY DEF Sign
  <2>3. \A p \in Pairs : p[1] \in Words /\ p[2] \in Words
    BY DEF Pairs
  <2>4. size \in [Pairs -> Nat]
    BY <2>3, WordFacts
  <2>5. \A p \in Pairs \ Stop : rest[p] \in Pairs /\ size[rest[p]] < size[p]
    <3> TAKE p \in Pairs \ Stop
    <3>1. Tail(p[1]) \in Words /\ Tail(p[2]) \in Words /\ Len(Tail(p[1])) < Len(p[1])
      BY <2>3, WordFacts
    <3> DEFINE q == <<Tail(p[1]), Tail(p[2])>>
    <3>2. q \in Pairs /\ q[1] = Tail(p[1]) /\ rest[p] = q
      BY <3>1 DEF Pairs
    <3> HIDE DEF q
    <3> QED
      BY <3>1, <3>2
  <2> HIDE DEF Stop, val, rest, size, T
  <2>6. Chain(Pairs, T, Stop, val, rest, size)
    BY <2>1, <2>2, <2>4, <2>5 DEF Chain
  <2> QED
    BY <2>6, Iteration
<1>2. \E f : f = [p \in Pairs |-> E(f, p)]
  <2>1. PICK f \in [Pairs -> T] : f = [p \in Pairs |-> IF p \in Stop THEN val[p] ELSE f[rest[p]]]
    BY <1>1
  <2>2. ASSUME NEW p \in Pairs PROVE f[p] = E(f, p)
    <3>1. f[p] = IF p \in Stop THEN val[p] ELSE f[rest[p]]
      BY <2>1
    <3> QED
      BY <3>1
  <2> HIDE DEF E, Stop, val, rest
  <2> QED
    BY <2>1, <2>2
<1>3. CompareBytes = CHOOSE f : f = [p \in Pairs |-> E(f, p)]
  BY DEF CompareBytes, Pairs
<1>4. CompareBytes = [p \in Pairs |-> E(CompareBytes, p)]
  <2> HIDE DEF E
  <2> QED
    BY <1>2, <1>3
<1>5. \A p \in Pairs : CompareBytes[p] = E(CompareBytes, p)
  <2> HIDE DEF E
  <2> QED
    BY <1>4
<1> TAKE a, b \in Words
<1>6. <<a, b>> \in Pairs
  BY DEF Pairs
<1> QED
  BY <1>5, <1>6 DEF At

(* compare_bytes: an order, and equal for the same words only.             *)
LEMMA BytesOrdered ==
  /\ Ordered(Words, CompareBytes)
  /\ \A a, b \in Words : At(CompareBytes, a, b) = 0 => a = b
<1> DEFINE rank == [x \in Words |-> IF x = <<>> THEN -1 ELSE Code[Head(x)]]
           piece == Ranked(Words, rank)
           last == Ranked(Words, [x \in Words |-> 0])
           rest == [x \in Words |-> Tail(x)]
           size == [x \in Words |-> Len(x)]
<1>1. \A x \in Words : rank[x] = IF x = <<>> THEN -1 ELSE Code[Head(x)]
  OBVIOUS
<1>2. \A x \in Words : x # <<>> => Code[Head(x)] \in Nat
  BY WordFacts, OrderAssumption
<1>3. rank \in [Words -> Int]
  BY <1>2
<1> HIDE DEF rank
<1>4. Ordered(Words, piece) /\ \A x, y \in Words : At(piece, x, y) = Sign(rank[x], rank[y])
  BY <1>3, RankedOrdered
<1>5. Ordered(Words, last) /\ \A x, y \in Words : At(last, x, y) = 0
  <2>1. [x \in Words |-> 0] \in [Words -> Int]
    OBVIOUS
  <2> QED
    BY <2>1, RankedOrdered DEF Sign
<1> HIDE DEF piece, last
<1>6. \A x, y \in Words : At(piece, x, y) = 0 =>
        (x = <<>> /\ y = <<>>) \/ (x # <<>> /\ y # <<>> /\ Head(x) = Head(y))
  <2> TAKE x, y \in Words
  <2> HAVE At(piece, x, y) = 0
  <2>1. rank[x] = rank[y]
    BY <1>3, <1>4 DEF Sign
  <2>2. x = <<>> <=> y = <<>>
    BY <1>1, <1>2, <2>1
  <2>3. CASE x # <<>> /\ y # <<>>
    <3>1. Code[Head(x)] = Code[Head(y)]
      BY <1>1, <2>1, <2>3
    <3> QED
      BY <2>3, <3>1, WordFacts, OrderAssumption
  <2> QED
    BY <2>2, <2>3
<1>7. \A x, y \in Words :
        At(CompareBytes, x, y) = IF At(piece, x, y) # 0 THEN At(piece, x, y)
                                 ELSE IF x \in {<<>>} THEN At(last, x, y)
                                 ELSE At(CompareBytes, rest[x], rest[y])
  <2> TAKE x, y \in Words
  <2>1. CASE x = <<>> /\ y = <<>>
    <3>1. At(CompareBytes, x, y) = 0 /\ At(piece, x, y) = 0
      BY <1>1, <1>4, <2>1, BytesStep, WordFacts DEF Sign
    <3> QED
      BY <1>5, <2>1, <3>1
  <2>2. CASE x = <<>> /\ y # <<>>
    <3>1. At(CompareBytes, x, y) = -1
      BY <2>2, BytesStep, WordFacts DEF Sign
    <3>2. At(piece, x, y) = -1
      BY <1>1, <1>2, <1>4, <2>2 DEF Sign
    <3> QED
      BY <3>1, <3>2
  <2>3. CASE x # <<>> /\ y = <<>>
    <3>1. At(CompareBytes, x, y) = 1
      BY <2>3, BytesStep, WordFacts DEF Sign
    <3>2. At(piece, x, y) = 1
      BY <1>1, <1>2, <1>4, <2>3 DEF Sign
    <3> QED
      BY <3>1, <3>2
  <2>4. CASE x # <<>> /\ y # <<>> /\ Head(x) # Head(y)
    <3>1. At(CompareBytes, x, y) = Sign(Code[Head(x)], Code[Head(y)])
      BY <2>4, BytesStep
    <3>2. At(piece, x, y) = Sign(Code[Head(x)], Code[Head(y)])
      BY <1>1, <1>4, <2>4
    <3> QED
      BY <1>6, <2>4, <3>1, <3>2
  <2>5. CASE x # <<>> /\ y # <<>> /\ Head(x) = Head(y)
    <3>1. At(CompareBytes, x, y) = At(CompareBytes, Tail(x), Tail(y))
      BY <2>5, BytesStep
    <3>2. At(piece, x, y) = 0
      BY <1>1, <1>2, <1>4, <2>5 DEF Sign
    <3> QED
      BY <2>5, <3>1, <3>2
  <2> QED
    BY <2>1, <2>2, <2>3, <2>4, <2>5
<1>8. \A x \in Words \ {<<>>} : rest[x] \in Words /\ size[rest[x]] < size[x]
  <2> TAKE x \in Words \ {<<>>}
  <2>1. Tail(x) \in Words /\ Len(Tail(x)) < Len(x)
    BY WordFacts
  <2> QED
    BY <2>1
<1>9. size \in [Words -> Nat]
  BY WordFacts
<1> HIDE DEF rest, size
<1>10. Pieces(Words, CompareBytes, piece, last, {<<>>}, rest, size)
  BY <1>4, <1>5, <1>6, <1>7, <1>8, <1>9, WordFacts DEF Pieces
<1>11. Ordered(Words, CompareBytes)
  BY <1>10, Stepwise
<1>12. \A a, b \in Words : At(CompareBytes, a, b) = 0 => a = b
  <2> DEFINE Good == {a \in Words : \A b \in Words : At(CompareBytes, a, b) = 0 => a = b}
  <2>1. ASSUME NEW a \in Words, \A x \in Words : size[x] < size[a] => x \in Good
        PROVE  a \in Good
    <3> SUFFICES ASSUME NEW b \in Words, At(CompareBytes, a, b) = 0
                 PROVE  a = b
      OBVIOUS
    <3>1. At(piece, a, b) = 0
      BY <1>7
    <3>2. CASE a # <<>> /\ b # <<>> /\ Head(a) = Head(b)
      <4>1. At(CompareBytes, Tail(a), Tail(b)) = 0
        BY <3>2, BytesStep
      <4>2. Tail(a) \in Words /\ Tail(b) \in Words /\ size[Tail(a)] < size[a]
        BY <1>8, <3>2, WordFacts DEF rest
      <4>3. Tail(a) = Tail(b)
        BY <2>1, <4>1, <4>2
      <4> QED
        BY <3>2, <4>3, WordFacts
    <3> QED
      BY <1>6, <3>1, <3>2
  <2>2. Good \in SUBSET Words
    OBVIOUS
  <2> HIDE DEF Good
  <2>3. Good = Words
    BY <1>9, <2>1, <2>2, Induction
  <2> QED
    BY <2>3 DEF Good
<1> QED
  BY <1>11, <1>12

(* The largest of finitely many numbers.                                   *)
LEMMA Largest ==
  ASSUME NEW n \in Nat, NEW S \in SUBSET (0..n), S # {}
  PROVE  Max(S) \in S /\ \A x \in S : x <= Max(S)
<1> DEFINE D == {n - x : x \in S}
<1>1. D \in SUBSET Nat /\ D # {}
  <2>1. \A x \in S : n - x \in Nat
    OBVIOUS
  <2> QED
    BY <2>1
<1>2. PICK d \in D : \A x \in D : d <= x
  <2> HIDE DEF D
  <2> QED
    BY <1>1, LeastExists
<1>3. PICK m \in S : d = n - m
  BY <1>2
<1>4. \A x \in S : m >= x
  BY <1>2, <1>3
<1> QED
  BY <1>4 DEF Max

(* Where the number a word starts with begins and ends.                    *)
LEMMA NumberFacts ==
  ASSUME NEW s \in Words
  PROVE  /\ RunEnd(s) \in 0..Len(s) /\ (IsNumber(s) => RunEnd(s) # 0)
         /\ Significant(s) \in Words
         /\ s # <<>> => Beyond(s) \in Words /\ Len(Beyond(s)) < Len(s)
<1>1. Len(s) \in Nat
  BY WordFacts
<1>2. RunEnd(s) \in 0..Len(s) /\ (IsNumber(s) => RunEnd(s) # 0)
  <2> DEFINE S == {k \in 0..Len(s) : \A i \in 1..k : s[i] \in DOMAIN Digits}
  <2>1. S \in SUBSET (0..Len(s)) /\ 0 \in S
    BY <1>1
  <2>2. IsNumber(s) => 1 \in S
    BY <1>1, WordFacts DEF IsNumber, Words
  <2>3. RunEnd(s) = Max(S)
    BY DEF RunEnd
  <2> HIDE DEF S
  <2>4. Max(S) \in S /\ \A x \in S : x <= Max(S)
    BY <1>1, <2>1, Largest
  <2>5. PICK m \in 0..Len(s) : m = Max(S)
    BY <2>1, <2>4
  <2>6. 1 \in S => m # 0
    <3> SUFFICES ASSUME 1 \in S, m = 0 PROVE FALSE
      OBVIOUS
    <3>1. 1 <= m
      BY <2>4, <2>5
    <3> QED
      BY <3>1
  <2> QED
    BY <2>2, <2>3, <2>5, <2>6
<1>3. Zeros(s) \in 0..RunEnd(s)
  <2> DEFINE S == {k \in 0..RunEnd(s) : \A i \in 1..k : Digits[s[i]] = 0}
  <2>1. S \in SUBSET (0..RunEnd(s)) /\ 0 \in S /\ RunEnd(s) \in Nat
    BY <1>2
  <2>2. Zeros(s) = Max(S)
    BY DEF Zeros
  <2> HIDE DEF S
  <2> QED
    BY <2>1, <2>2, Largest
<1>4. \A m \in Nat, n \in 0..Len(s) :
        SubSeq(s, m + 1, n) \in Words /\ Len(SubSeq(s, m + 1, n)) = IF m < n THEN n - m ELSE 0
  <2> TAKE m \in Nat, n \in 0..Len(s)
  <2>1. \A i \in (m + 1)..n : s[i] \in Letters
    BY DEF Words
  <2> QED
    BY <1>1, <2>1, SubSeqProperties DEF Words
<1>5. Significant(s) \in Words
  BY <1>2, <1>3, <1>4 DEF Significant
<1>6. s # <<>> => Beyond(s) \in Words /\ Len(Beyond(s)) < Len(s)
  <2>1. CASE IsNumber(s)
    BY <1>1, <1>2, <1>4, <2>1 DEF Beyond
  <2>2. CASE ~IsNumber(s)
    BY <2>2, WordFacts DEF Beyond
  <2> QED
    BY <2>1, <2>2
<1> QED
  BY <1>2, <1>5, <1>6

NumberSign(a, b) ==
  IF IsNumber(a) /\ IsNumber(b) THEN CompareNumbers(Significant(a), Significant(b))
  ELSE IF IsNumber(a) THEN -1
  ELSE IF IsNumber(b) THEN 1
  ELSE Sign(Code[Upper[Head(a)]], Code[Upper[Head(b)]])

\* compare_bytes returns an Ordering.
LEMMA BytesSigns ==
  \A a, b \in Words : At(CompareBytes, a, b) \in {-1, 0, 1}
  BY BytesOrdered DEF Ordered

\* natural_nocase_cmp after its dots, one number or character at a time.
LEMMA NaturalStep ==
  \A a, b \in Words :
    At(CompareNatural, a, b) =
      IF a = <<>> \/ b = <<>> THEN Sign(Len(a), Len(b))
      ELSE IF NumberSign(a, b) # 0 THEN NumberSign(a, b)
      ELSE At(CompareNatural, Beyond(a), Beyond(b))
<1> DEFINE E(f, p) == IF p[1] = <<>> \/ p[2] = <<>> THEN Sign(Len(p[1]), Len(p[2]))
                      ELSE IF NumberSign(p[1], p[2]) # 0 THEN NumberSign(p[1], p[2])
                      ELSE f[<<Beyond(p[1]), Beyond(p[2])>>]
           T == {-1, 0, 1}
           Stop == {p \in Pairs : p[1] = <<>> \/ p[2] = <<>> \/ NumberSign(p[1], p[2]) # 0}
           val == [p \in Pairs |-> IF p[1] = <<>> \/ p[2] = <<>> THEN Sign(Len(p[1]), Len(p[2]))
                                   ELSE NumberSign(p[1], p[2])]
           rest == [p \in Pairs |-> <<Beyond(p[1]), Beyond(p[2])>>]
           size == [p \in Pairs |-> Len(p[1])]
<1>0. \A p \in Pairs : p[1] \in Words /\ p[2] \in Words
  BY DEF Pairs
<1>1. \E f \in [Pairs -> T] : f = [p \in Pairs |-> IF p \in Stop THEN val[p] ELSE f[rest[p]]]
  <2>1. Stop \in SUBSET Pairs /\ T # {}
    OBVIOUS
  <2>2. \A a, b \in Words : NumberSign(a, b) \in T
    <3> TAKE a, b \in Words
    <3>1. CompareNumbers(Significant(a), Significant(b)) \in T
      BY NumberFacts, BytesSigns DEF CompareNumbers, Sign, At
    <3> QED
      BY <3>1 DEF NumberSign, Sign
  <2>3. \A p \in Stop : val[p] \in T
    <3> TAKE p \in Stop
    <3>1. NumberSign(p[1], p[2]) \in T
      BY <1>0, <2>2
    <3> QED
      BY <3>1 DEF Sign
  <2>4. size \in [Pairs -> Nat]
    BY <1>0, WordFacts
  <2>5. \A p \in Pairs \ Stop : rest[p] \in Pairs /\ size[rest[p]] < size[p]
    <3> TAKE p \in Pairs \ Stop
    <3>1. Beyond(p[1]) \in Words /\ Beyond(p[2]) \in Words /\ Len(Beyond(p[1])) < Len(p[1])
      BY <1>0, NumberFacts
    <3> DEFINE q == <<Beyond(p[1]), Beyond(p[2])>>
    <3>2. q \in Pairs /\ q[1] = Beyond(p[1]) /\ rest[p] = q
      BY <3>1 DEF Pairs
    <3> HIDE DEF q
    <3> QED
      BY <3>1, <3>2
  <2> HIDE DEF Stop, val, rest, size, T
  <2>6. Chain(Pairs, T, Stop, val, rest, size)
    BY <2>1, <2>3, <2>4, <2>5 DEF Chain
  <2> QED
    BY <2>6, Iteration
<1>2. \E f : f = [p \in Pairs |-> E(f, p)]
  <2>1. PICK f \in [Pairs -> T] : f = [p \in Pairs |-> IF p \in Stop THEN val[p] ELSE f[rest[p]]]
    BY <1>1
  <2>2. ASSUME NEW p \in Pairs PROVE f[p] = E(f, p)
    <3>1. f[p] = IF p \in Stop THEN val[p] ELSE f[rest[p]]
      BY <2>1
    <3> QED
      BY <3>1
  <2> HIDE DEF E, Stop, val, rest
  <2> QED
    BY <2>1, <2>2
<1>3. CompareNatural = CHOOSE f : f = [p \in Pairs |-> E(f, p)]
  BY DEF CompareNatural, Pairs, NumberSign
<1>4. CompareNatural = [p \in Pairs |-> E(CompareNatural, p)]
  <2> HIDE DEF E
  <2> QED
    BY <1>2, <1>3
<1>5. \A p \in Pairs : CompareNatural[p] = E(CompareNatural, p)
  <2> HIDE DEF E
  <2> QED
    BY <1>4
<1> TAKE a, b \in Words
<1>6. <<a, b>> \in Pairs
  BY DEF Pairs
<1> QED
  BY <1>5, <1>6 DEF At

Then(X, c1, c2) == [p \in X \X X |-> IF c1[p] # 0 THEN c1[p] ELSE c2[p]]

\* Ordering::then.
LEMMA ThenOrdered ==
  ASSUME NEW X, NEW c1, NEW c2, Ordered(X, c1), Ordered(X, c2)
  PROVE  /\ \A x, y \in X :
              At(Then(X, c1, c2), x, y) = IF At(c1, x, y) # 0 THEN At(c1, x, y) ELSE At(c2, x, y)
         /\ Ordered(X, Then(X, c1, c2))
<1> DEFINE c == Then(X, c1, c2)
<1>1. \A x, y \in X : At(c, x, y) = IF At(c1, x, y) # 0 THEN At(c1, x, y) ELSE At(c2, x, y)
  <2> TAKE x, y \in X
  <2>1. <<x, y>> \in X \X X
    OBVIOUS
  <2> QED
    BY <2>1 DEF At, Then
<1> HIDE DEF c
<1>2. Ordered(X, c)
  BY <1>1, InTurn
<1> QED
  BY <1>1, <1>2 DEF c

Under(X, f, d) == [p \in X \X X |-> d[<<f[p[1]], f[p[2]]>>]]

\* A comparison of parts, as a comparison of wholes.
LEMMA UnderOrdered ==
  ASSUME NEW X, NEW Y, NEW d, NEW f \in [X -> Y], Ordered(Y, d)
  PROVE  /\ \A x, y \in X : At(Under(X, f, d), x, y) = At(d, f[x], f[y])
         /\ Ordered(X, Under(X, f, d))
<1> DEFINE c == Under(X, f, d)
<1>1. \A x, y \in X : At(c, x, y) = At(d, f[x], f[y])
  <2> TAKE x, y \in X
  <2>1. <<x, y>> \in X \X X
    OBVIOUS
  <2> QED
    BY <2>1 DEF At, Under
<1> HIDE DEF c
<1>2. Ordered(X, c)
  BY <1>1, Mapped
<1> QED
  BY <1>1, <1>2 DEF c

(* natural_nocase_cmp after its dots is an order.                          *)
LEMMA NaturalOrdered == Ordered(Words, CompareNatural)
<1> DEFINE first == [x \in Words |-> IF x = <<>> THEN -1 ELSE IF IsNumber(x) THEN 0
                                     ELSE 1 + Code[Upper[Head(x)]]]
           second == [x \in Words |-> IF IsNumber(x) THEN Len(Significant(x)) ELSE 0]
           third == [x \in Words |-> IF IsNumber(x) THEN Significant(x) ELSE <<>>]
           c1 == Ranked(Words, first)
           c2 == Ranked(Words, second)
           c3 == Under(Words, third, CompareBytes)
           c23 == Then(Words, c2, c3)
           piece == Then(Words, c1, c23)
           last == Ranked(Words, [x \in Words |-> 0])
           rest == [x \in Words |-> Beyond(x)]
           size == [x \in Words |-> Len(x)]
<1>1. \A x \in Words :
        /\ first[x] = IF x = <<>> THEN -1 ELSE IF IsNumber(x) THEN 0 ELSE 1 + Code[Upper[Head(x)]]
        /\ second[x] = IF IsNumber(x) THEN Len(Significant(x)) ELSE 0
        /\ third[x] = IF IsNumber(x) THEN Significant(x) ELSE <<>>
  OBVIOUS
<1>2. \A x \in Words : x # <<>> => Code[Upper[Head(x)]] \in Nat
  BY WordFacts, OrderAssumption
<1>3. \A x \in Words : Significant(x) \in Words /\ Len(Significant(x)) \in Nat
  BY WordFacts, NumberFacts
<1>4. first \in [Words -> Int] /\ second \in [Words -> Int] /\ third \in [Words -> Words]
  BY <1>2, <1>3, WordFacts
<1> HIDE DEF first, second, third
<1>5. Ordered(Words, c1) /\ \A x, y \in Words : At(c1, x, y) = Sign(first[x], first[y])
  BY <1>4, RankedOrdered
<1>6. Ordered(Words, c2) /\ \A x, y \in Words : At(c2, x, y) = Sign(second[x], second[y])
  BY <1>4, RankedOrdered
<1>7. /\ Ordered(Words, c3)
      /\ \A x, y \in Words : At(c3, x, y) = At(CompareBytes, third[x], third[y])
  BY <1>4, BytesOrdered, UnderOrdered
<1>8. Ordered(Words, last) /\ \A x, y \in Words : At(last, x, y) = 0
  <2>1. [x \in Words |-> 0] \in [Words -> Int]
    OBVIOUS
  <2> QED
    BY <2>1, RankedOrdered DEF Sign
<1> HIDE DEF c1, c2, c3, last
<1>9. /\ Ordered(Words, c23)
      /\ \A x, y \in Words :
           At(c23, x, y) = IF At(c2, x, y) # 0 THEN At(c2, x, y) ELSE At(c3, x, y)
  BY <1>6, <1>7, ThenOrdered
<1> HIDE DEF c23
<1>10. /\ Ordered(Words, piece)
       /\ \A x, y \in Words :
            At(piece, x, y) = IF At(c1, x, y) # 0 THEN At(c1, x, y) ELSE At(c23, x, y)
  BY <1>5, <1>9, ThenOrdered
<1> HIDE DEF piece
<1>11. ASSUME NEW x \in Words, NEW y \in Words, x = <<>>, y = <<>>
       PROVE  At(piece, x, y) = 0 /\ At(CompareNatural, x, y) = 0
  <2>1. At(CompareNatural, x, y) = 0
    BY <1>11, NaturalStep, WordFacts DEF Sign
  <2>2. ~IsNumber(x) /\ ~IsNumber(y)
    BY <1>11 DEF IsNumber
  <2>3. At(c1, x, y) = 0 /\ At(c2, x, y) = 0
    BY <1>1, <1>5, <1>6, <1>11, <2>2 DEF Sign
  <2>4. At(c3, x, y) = 0
    <3>1. third[x] = <<>> /\ third[y] = <<>>
      BY <1>1, <2>2
    <3>2. At(CompareBytes, <<>>, <<>>) = 0
      BY BytesStep, WordFacts DEF Sign
    <3> QED
      BY <1>7, <3>1, <3>2
  <2> QED
    BY <1>9, <1>10, <2>1, <2>3, <2>4
<1>12. ASSUME NEW x \in Words, NEW y \in Words, x = <<>> <=> y # <<>>
       PROVE  At(piece, x, y) # 0 /\ At(CompareNatural, x, y) = At(piece, x, y)
  <2>1. At(CompareNatural, x, y) = IF x = <<>> THEN -1 ELSE 1
    BY <1>12, NaturalStep, WordFacts DEF Sign
  <2>2. At(c1, x, y) = IF x = <<>> THEN -1 ELSE 1
    BY <1>1, <1>2, <1>5, <1>12 DEF Sign
  <2> QED
    BY <1>10, <2>1, <2>2
<1>13. ASSUME NEW x \in Words, NEW y \in Words, x # <<>>, y # <<>>
       PROVE  At(piece, x, y) = NumberSign(x, y)
  <2>1. CASE IsNumber(x) /\ IsNumber(y)
    <3>1. At(c1, x, y) = 0 /\ At(c2, x, y) = Sign(Len(Significant(x)), Len(Significant(y)))
      BY <1>1, <1>5, <1>6, <1>13, <2>1 DEF Sign
    <3>2. At(c3, x, y) = CompareBytes[<<Significant(x), Significant(y)>>]
      BY <1>1, <1>7, <2>1 DEF At
    <3>3. PICK m, n \in Nat : m = Len(Significant(x)) /\ n = Len(Significant(y))
      BY <1>3
    <3>4. Sign(m, n) = 0 <=> m = n
      BY DEF Sign
    <3> QED
      BY <1>9, <1>10, <2>1, <3>1, <3>2, <3>3, <3>4 DEF NumberSign, CompareNumbers
  <2>2. CASE IsNumber(x) /\ ~IsNumber(y)
    BY <1>1, <1>2, <1>5, <1>10, <1>13, <2>2 DEF NumberSign, Sign
  <2>3. CASE ~IsNumber(x) /\ IsNumber(y)
    BY <1>1, <1>2, <1>5, <1>10, <1>13, <2>3 DEF NumberSign, Sign
  <2>4. CASE ~IsNumber(x) /\ ~IsNumber(y)
    <3>1. At(c1, x, y) = Sign(Code[Upper[Head(x)]], Code[Upper[Head(y)]])
      BY <1>1, <1>2, <1>5, <1>13, <2>4 DEF Sign
    <3>2. At(c2, x, y) = 0
      BY <1>1, <1>6, <2>4 DEF Sign
    <3>3. At(c3, x, y) = 0
      <4>1. third[x] = <<>> /\ third[y] = <<>>
        BY <1>1, <2>4
      <4>2. At(CompareBytes, <<>>, <<>>) = 0
        BY BytesStep, WordFacts DEF Sign
      <4> QED
        BY <1>7, <4>1, <4>2
    <3> QED
      BY <1>9, <1>10, <2>4, <3>1, <3>2, <3>3 DEF NumberSign
  <2> QED
    BY <2>1, <2>2, <2>3, <2>4
<1>14. \A x, y \in Words :
         At(CompareNatural, x, y) = IF At(piece, x, y) # 0 THEN At(piece, x, y)
                                    ELSE IF x \in {<<>>} THEN At(last, x, y)
                                    ELSE At(CompareNatural, rest[x], rest[y])
  <2> TAKE x, y \in Words
  <2>1. CASE x = <<>> /\ y = <<>>
    BY <1>8, <1>11, <2>1
  <2>2. CASE x = <<>> <=> y # <<>>
    BY <1>12, <2>2
  <2>3. CASE x # <<>> /\ y # <<>>
    BY <1>13, <2>3, NaturalStep
  <2> QED
    BY <2>1, <2>2, <2>3
<1>15. \A x \in Words \ {<<>>} : rest[x] \in Words /\ size[rest[x]] < size[x]
  <2> TAKE x \in Words \ {<<>>}
  <2>1. Beyond(x) \in Words /\ Len(Beyond(x)) < Len(x)
    BY NumberFacts
  <2> QED
    BY <2>1
<1>16. size \in [Words -> Nat] /\ \A x, y \in Words : At(piece, x, y) = 0 => (x = <<>> <=> y = <<>>)
  BY <1>12, WordFacts
<1> HIDE DEF rest, size
<1>17. Pieces(Words, CompareNatural, piece, last, {<<>>}, rest, size)
  BY <1>8, <1>10, <1>14, <1>15, <1>16, WordFacts DEF Pieces
<1> QED
  BY <1>17, Stepwise

\* natural_nocase_cmp, one dot at a time.
LEMMA DotsStep ==
  \A a, b \in Words :
    At(CompareDots, a, b) =
      IF ~BeginsWith(a, Dot) /\ ~BeginsWith(b, Dot) THEN At(CompareNatural, a, b)
      ELSE IF ~BeginsWith(a, Dot) THEN 1
      ELSE IF ~BeginsWith(b, Dot) THEN -1
      ELSE IF Len(b) = 1 THEN 1
      ELSE IF Len(a) = 1 THEN -1
      ELSE At(CompareDots, Tail(a), Tail(b))
<1> DEFINE E(f, p) == IF ~BeginsWith(p[1], Dot) /\ ~BeginsWith(p[2], Dot) THEN CompareNatural[p]
                      ELSE IF ~BeginsWith(p[1], Dot) THEN 1
                      ELSE IF ~BeginsWith(p[2], Dot) THEN -1
                      ELSE IF Len(p[2]) = 1 THEN 1
                      ELSE IF Len(p[1]) = 1 THEN -1
                      ELSE f[<<Tail(p[1]), Tail(p[2])>>]
           T == {-1, 1} \cup {CompareNatural[p] : p \in Pairs}
           Stop == {p \in Pairs : \/ ~BeginsWith(p[1], Dot) \/ ~BeginsWith(p[2], Dot)
                                   \/ Len(p[1]) = 1 \/ Len(p[2]) = 1}
           val == [p \in Pairs |-> IF ~BeginsWith(p[1], Dot) /\ ~BeginsWith(p[2], Dot) THEN CompareNatural[p]
                                   ELSE IF ~BeginsWith(p[1], Dot) THEN 1
                                   ELSE IF ~BeginsWith(p[2], Dot) THEN -1
                                   ELSE IF Len(p[2]) = 1 THEN 1 ELSE -1]
           rest == [p \in Pairs |-> <<Tail(p[1]), Tail(p[2])>>]
           size == [p \in Pairs |-> Len(p[1])]
<1>0. \A p \in Pairs : p[1] \in Words /\ p[2] \in Words
  BY DEF Pairs
<1>1. \E f \in [Pairs -> T] : f = [p \in Pairs |-> IF p \in Stop THEN val[p] ELSE f[rest[p]]]
  <2>1. Stop \in SUBSET Pairs /\ T # {}
    OBVIOUS
  <2>2. \A p \in Pairs \ Stop : p[1] # <<>> /\ p[2] # <<>>
    BY DEF BeginsWith
  <2>3. \A p \in Stop : val[p] \in T
    OBVIOUS
  <2>4. size \in [Pairs -> Nat]
    BY <1>0, WordFacts
  <2>5. \A p \in Pairs \ Stop : rest[p] \in Pairs /\ size[rest[p]] < size[p]
    <3> TAKE p \in Pairs \ Stop
    <3>1. Tail(p[1]) \in Words /\ Tail(p[2]) \in Words /\ Len(Tail(p[1])) < Len(p[1])
      BY <1>0, <2>2, WordFacts
    <3> DEFINE q == <<Tail(p[1]), Tail(p[2])>>
    <3>2. q \in Pairs /\ q[1] = Tail(p[1]) /\ rest[p] = q
      BY <3>1 DEF Pairs
    <3> HIDE DEF q
    <3> QED
      BY <3>1, <3>2
  <2> HIDE DEF Stop, val, rest, size, T
  <2>6. Chain(Pairs, T, Stop, val, rest, size)
    BY <2>1, <2>3, <2>4, <2>5 DEF Chain
  <2> QED
    BY <2>6, Iteration
<1>2. \E f : f = [p \in Pairs |-> E(f, p)]
  <2>1. PICK f \in [Pairs -> T] : f = [p \in Pairs |-> IF p \in Stop THEN val[p] ELSE f[rest[p]]]
    BY <1>1
  <2>2. ASSUME NEW p \in Pairs PROVE f[p] = E(f, p)
    <3>1. f[p] = IF p \in Stop THEN val[p] ELSE f[rest[p]]
      BY <2>1
    <3> QED
      BY <3>1
  <2> HIDE DEF E, Stop, val, rest
  <2> QED
    BY <2>1, <2>2
<1>3. CompareDots = CHOOSE f : f = [p \in Pairs |-> E(f, p)]
  BY DEF CompareDots, Pairs
<1>4. CompareDots = [p \in Pairs |-> E(CompareDots, p)]
  <2> HIDE DEF E
  <2> QED
    BY <1>2, <1>3
<1>5. \A p \in Pairs : CompareDots[p] = E(CompareDots, p)
  <2> HIDE DEF E
  <2> QED
    BY <1>4
<1> TAKE a, b \in Words
<1>6. <<a, b>> \in Pairs
  BY DEF Pairs
<1> QED
  BY <1>5, <1>6 DEF At

(* Nothing comes before itself.                                           *)
LEMMA Reflexive ==
  ASSUME NEW X, NEW c, Ordered(X, c), NEW x \in X
  PROVE  At(c, x, x) = 0
  BY DEF Ordered

Apart(X, c) == [p \in X \X X |-> IF p[1] = p[2] THEN 0 ELSE c[p]]

\* A name is not compared with itself.
LEMMA ApartAt ==
  ASSUME NEW X, NEW c
  PROVE  \A x, y \in X : At(Apart(X, c), x, y) = IF x = y THEN 0 ELSE At(c, x, y)
<1> TAKE x, y \in X
<1>1. <<x, y>> \in X \X X
  OBVIOUS
<1> QED
  BY <1>1 DEF At, Apart

(* natural_nocase_cmp is an order of different names.                      *)
LEMMA DotsOrdered == Ordered(Words, Apart(Words, CompareDots))
<1> DEFINE rank == [x \in Words |-> IF ~BeginsWith(x, Dot) THEN 2 ELSE IF Len(x) = 1 THEN 0 ELSE 1]
           c == Apart(Words, CompareDots)
           piece == Ranked(Words, rank)
           Stop == {x \in Words : rank[x] # 1}
           rest == [x \in Words |-> Tail(x)]
           size == [x \in Words |-> Len(x)]
<1>1. \A x \in Words : rank[x] = IF ~BeginsWith(x, Dot) THEN 2 ELSE IF Len(x) = 1 THEN 0 ELSE 1
  OBVIOUS
<1>2. rank \in [Words -> Int]
  OBVIOUS
<1> HIDE DEF rank
<1>3. Ordered(Words, piece) /\ \A x, y \in Words : At(piece, x, y) = Sign(rank[x], rank[y])
  BY <1>2, RankedOrdered
<1>4. \A x, y \in Words : At(c, x, y) = IF x = y THEN 0 ELSE At(CompareDots, x, y)
  BY ApartAt
<1> HIDE DEF piece, c
<1>5. \A x \in Words :
        /\ rank[x] \in {0, 1, 2}
        /\ rank[x] = 0 => BeginsWith(x, Dot) /\ x # <<>> /\ Head(x) = Dot /\ Len(x) = 1
        /\ rank[x] = 1 => BeginsWith(x, Dot) /\ x # <<>> /\ Head(x) = Dot /\ Len(x) # 1
        /\ rank[x] = 2 => ~BeginsWith(x, Dot)
  BY <1>1 DEF BeginsWith
<1>6. \A x, y \in Words : At(piece, x, y) = 0 <=> rank[x] = rank[y]
  BY <1>3, <1>5 DEF Sign
<1>7. \A x, y \in Words :
        At(c, x, y) = IF At(piece, x, y) # 0 THEN At(piece, x, y)
                      ELSE IF x \in Stop THEN At(CompareNatural, x, y)
                      ELSE At(c, rest[x], rest[y])
  <2> TAKE x, y \in Words
  <2>1. CASE x = y
    <3>1. At(piece, x, y) = 0 /\ At(c, x, y) = 0
      BY <1>4, <1>6, <2>1
    <3>2. x \in Stop => At(CompareNatural, x, y) = 0
      BY <2>1, NaturalOrdered, Reflexive
    <3>3. x \notin Stop => rest[x] \in Words /\ rest[x] = rest[y]
      BY <1>5, <2>1, WordFacts
    <3>4. x \notin Stop => At(c, rest[x], rest[y]) = 0
      <4> HIDE DEF rest
      <4> QED
        BY <1>4, <3>3
    <3> QED
      BY <3>1, <3>2, <3>4
  <2>2. CASE x # y /\ rank[x] # rank[y]
    <3>1. At(c, x, y) = At(CompareDots, x, y) /\ At(piece, x, y) # 0
      BY <1>4, <1>6, <2>2
    <3>2. At(CompareDots, x, y) = Sign(rank[x], rank[y])
      BY <1>1, <2>2, DotsStep DEF Sign
    <3> QED
      BY <1>3, <3>1, <3>2
  <2>3. CASE x # y /\ rank[x] = rank[y] /\ rank[x] = 2
    <3>1. ~BeginsWith(x, Dot) /\ ~BeginsWith(y, Dot)
      BY <1>5, <2>3
    <3>2. At(CompareDots, x, y) = At(CompareNatural, x, y)
      BY <3>1, DotsStep
    <3>3. At(piece, x, y) = 0 /\ At(c, x, y) = At(CompareNatural, x, y)
      BY <1>4, <1>6, <2>3, <3>2
    <3>4. x \in Stop
      BY <2>3
    <3> HIDE DEF Stop, rest
    <3> QED
      BY <3>3, <3>4
  <2>4. CASE x # y /\ rank[x] = rank[y] /\ rank[x] = 0
    <3>1. /\ x # <<>> /\ Head(x) = Dot /\ Len(x) = 1
          /\ y # <<>> /\ Head(y) = Dot /\ Len(y) = 1
      BY <1>5, <2>4
    <3>2. ASSUME NEW z \in Words, z # <<>>, Len(z) = 1 PROVE Tail(z) = <<>>
      <4>1. PICK t \in Words : t = Tail(z) /\ Len(t) = Len(z) - 1
        BY <3>2, WordFacts
      <4>2. Len(t) = 0
        BY <3>2, <4>1
      <4> QED
        BY <4>1, <4>2, WordFacts
    <3>3. Tail(x) = <<>> /\ Tail(y) = <<>>
      BY <3>1, <3>2
    <3> QED
      BY <2>4, <3>1, <3>3, WordFacts
  <2>5. CASE x # y /\ rank[x] = rank[y] /\ rank[x] = 1
    <3>1. BeginsWith(x, Dot) /\ BeginsWith(y, Dot) /\ Len(x) # 1 /\ Len(y) # 1
      BY <1>5, <2>5
    <3>2. At(CompareDots, x, y) = At(CompareDots, Tail(x), Tail(y))
      BY <3>1, DotsStep
    <3>3. Tail(x) # Tail(y) /\ Tail(x) \in Words /\ Tail(y) \in Words
      BY <2>5, <3>1, WordFacts DEF BeginsWith
    <3>4. At(c, Tail(x), Tail(y)) = At(CompareDots, Tail(x), Tail(y))
      BY <1>4, <3>3
    <3>5. At(c, x, y) = At(c, rest[x], rest[y])
      BY <1>4, <2>5, <3>2, <3>4
    <3>6. x \notin Stop /\ At(piece, x, y) = 0
      BY <1>6, <2>5
    <3> HIDE DEF Stop, rest
    <3> QED
      BY <3>5, <3>6
  <2>6. rank[x] \in {0, 1, 2}
    BY <1>5
  <2> QED
    BY <2>1, <2>2, <2>3, <2>4, <2>5, <2>6
<1>8. \A x \in Words \ Stop : rest[x] \in Words /\ size[rest[x]] < size[x]
  <2> TAKE x \in Words \ Stop
  <2>1. Tail(x) \in Words /\ Len(Tail(x)) < Len(x)
    BY <1>5, WordFacts
  <2> QED
    BY <2>1
<1>9. size \in [Words -> Nat] /\ Stop \in SUBSET Words
      /\ \A x, y \in Words : At(piece, x, y) = 0 => (x \in Stop <=> y \in Stop)
  BY <1>6, WordFacts
<1> HIDE DEF rest, size, Stop
<1>10. Pieces(Words, c, piece, CompareNatural, Stop, rest, size)
  BY <1>3, <1>7, <1>8, <1>9, NaturalOrdered DEF Pieces
<1>11. Ordered(Words, c)
  BY <1>10, Stepwise
<1> QED
  BY <1>11 DEF c

\* filenocasecmp, one underscore at a time.
LEMMA NamesStep ==
  \A a, b \in Words :
    At(CompareNames, a, b) =
      IF a = <<>> \/ b = <<>> \/ (~BeginsWith(a, Underscore) /\ ~BeginsWith(b, Underscore))
      THEN At(CompareDots, a, b)
      ELSE IF ~BeginsWith(a, Underscore) THEN (IF Head(a) = Dot THEN -1 ELSE 1)
      ELSE IF ~BeginsWith(b, Underscore) THEN (IF Head(b) = Dot THEN 1 ELSE -1)
      ELSE At(CompareNames, Tail(a), Tail(b))
<1> DEFINE E(f, p) == IF \/ p[1] = <<>> \/ p[2] = <<>>
                         \/ ~BeginsWith(p[1], Underscore) /\ ~BeginsWith(p[2], Underscore)
                      THEN CompareDots[p]
                      ELSE IF ~BeginsWith(p[1], Underscore) THEN (IF Head(p[1]) = Dot THEN -1 ELSE 1)
                      ELSE IF ~BeginsWith(p[2], Underscore) THEN (IF Head(p[2]) = Dot THEN 1 ELSE -1)
                      ELSE f[<<Tail(p[1]), Tail(p[2])>>]
           T == {-1, 1} \cup {CompareDots[p] : p \in Pairs}
           Stop == {p \in Pairs : \/ p[1] = <<>> \/ p[2] = <<>>
                                   \/ ~BeginsWith(p[1], Underscore) \/ ~BeginsWith(p[2], Underscore)}
           val == [p \in Pairs |->
                     IF \/ p[1] = <<>> \/ p[2] = <<>>
                        \/ ~BeginsWith(p[1], Underscore) /\ ~BeginsWith(p[2], Underscore)
                     THEN CompareDots[p]
                     ELSE IF ~BeginsWith(p[1], Underscore) THEN (IF Head(p[1]) = Dot THEN -1 ELSE 1)
                     ELSE IF Head(p[2]) = Dot THEN 1 ELSE -1]
           rest == [p \in Pairs |-> <<Tail(p[1]), Tail(p[2])>>]
           size == [p \in Pairs |-> Len(p[1])]
<1>0. \A p \in Pairs : p[1] \in Words /\ p[2] \in Words
  BY DEF Pairs
<1>1. \E f \in [Pairs -> T] : f = [p \in Pairs |-> IF p \in Stop THEN val[p] ELSE f[rest[p]]]
  <2>1. Stop \in SUBSET Pairs /\ T # {}
    OBVIOUS
  <2>2. \A p \in Pairs \ Stop : p[1] # <<>> /\ p[2] # <<>>
    OBVIOUS
  <2>3. \A p \in Stop : val[p] \in T
    OBVIOUS
  <2>4. size \in [Pairs -> Nat]
    BY <1>0, WordFacts
  <2>5. \A p \in Pairs \ Stop : rest[p] \in Pairs /\ size[rest[p]] < size[p]
    <3> TAKE p \in Pairs \ Stop
    <3>1. Tail(p[1]) \in Words /\ Tail(p[2]) \in Words /\ Len(Tail(p[1])) < Len(p[1])
      BY <1>0, <2>2, WordFacts
    <3> DEFINE q == <<Tail(p[1]), Tail(p[2])>>
    <3>2. q \in Pairs /\ q[1] = Tail(p[1]) /\ rest[p] = q
      BY <3>1 DEF Pairs
    <3> HIDE DEF q
    <3> QED
      BY <3>1, <3>2
  <2> HIDE DEF Stop, val, rest, size, T
  <2>6. Chain(Pairs, T, Stop, val, rest, size)
    BY <2>1, <2>3, <2>4, <2>5 DEF Chain
  <2> QED
    BY <2>6, Iteration
<1>2. \E f : f = [p \in Pairs |-> E(f, p)]
  <2>1. PICK f \in [Pairs -> T] : f = [p \in Pairs |-> IF p \in Stop THEN val[p] ELSE f[rest[p]]]
    BY <1>1
  <2>2. ASSUME NEW p \in Pairs PROVE f[p] = E(f, p)
    <3>1. f[p] = IF p \in Stop THEN val[p] ELSE f[rest[p]]
      BY <2>1
    <3> QED
      BY <3>1
  <2> HIDE DEF E, Stop, val, rest
  <2> QED
    BY <2>1, <2>2
<1>3. CompareNames = CHOOSE f : f = [p \in Pairs |-> E(f, p)]
  BY DEF CompareNames, Pairs
<1>4. CompareNames = [p \in Pairs |-> E(CompareNames, p)]
  <2> HIDE DEF E
  <2> QED
    BY <1>2, <1>3
<1>5. \A p \in Pairs : CompareNames[p] = E(CompareNames, p)
  <2> HIDE DEF E
  <2> QED
    BY <1>4
<1> TAKE a, b \in Words
<1>6. <<a, b>> \in Pairs
  BY DEF Pairs
<1> QED
  BY <1>5, <1>6 DEF At

(* filenocasecmp is an order of different names.                           *)
LEMMA NamesOrdered == Ordered(Words, Apart(Words, CompareNames))
<1> DEFINE rank == [x \in Words |-> IF BeginsWith(x, Dot) THEN 0 ELSE IF x = <<>> THEN 1
                                    ELSE IF BeginsWith(x, Underscore) THEN 2 ELSE 3]
           c == Apart(Words, CompareNames)
           dots == Apart(Words, CompareDots)
           piece == Ranked(Words, rank)
           Stop == {x \in Words : rank[x] # 2}
           rest == [x \in Words |-> Tail(x)]
           size == [x \in Words |-> Len(x)]
<1>1. \A x \in Words : rank[x] = IF BeginsWith(x, Dot) THEN 0 ELSE IF x = <<>> THEN 1
                                 ELSE IF BeginsWith(x, Underscore) THEN 2 ELSE 3
  OBVIOUS
<1>2. rank \in [Words -> Int]
  OBVIOUS
<1> HIDE DEF rank
<1>3. Ordered(Words, piece) /\ \A x, y \in Words : At(piece, x, y) = Sign(rank[x], rank[y])
  BY <1>2, RankedOrdered
<1>4. \A x, y \in Words : At(c, x, y) = IF x = y THEN 0 ELSE At(CompareNames, x, y)
  BY ApartAt
<1>5. \A x, y \in Words : At(dots, x, y) = IF x = y THEN 0 ELSE At(CompareDots, x, y)
  BY ApartAt
<1> HIDE DEF piece, c, dots
<1>6. \A x \in Words : rank[x] \in Int /\ (rank[x] = 2 => BeginsWith(x, Underscore) /\ x # <<>>)
  BY <1>1, <1>2 DEF BeginsWith
<1>7. \A x, y \in Words : At(piece, x, y) = 0 <=> rank[x] = rank[y]
  BY <1>3, <1>6 DEF Sign
<1>8. ASSUME NEW x \in Words, NEW y \in Words, x # y, rank[x] # rank[y]
      PROVE  At(CompareNames, x, y) = Sign(rank[x], rank[y])
  <2>1. ~(BeginsWith(x, Dot) /\ BeginsWith(x, Underscore))
        /\ ~(BeginsWith(y, Dot) /\ BeginsWith(y, Underscore))
    BY OrderAssumption DEF BeginsWith
  <2>2. /\ BeginsWith(x, Dot) <=> x # <<>> /\ Head(x) = Dot
        /\ BeginsWith(y, Dot) <=> y # <<>> /\ Head(y) = Dot
        /\ BeginsWith(x, Underscore) => x # <<>>
        /\ BeginsWith(y, Underscore) => y # <<>>
    BY DEF BeginsWith
  <2>3. CASE BeginsWith(x, Dot) \/ BeginsWith(y, Dot)
    <3>1. ~(BeginsWith(x, Dot) /\ BeginsWith(y, Dot))
      BY <1>1, <1>8
    <3>2. CASE x = <<>> \/ y = <<>> \/ (~BeginsWith(x, Underscore) /\ ~BeginsWith(y, Underscore))
      <4>1. At(CompareNames, x, y) = At(CompareDots, x, y)
        BY <3>2, NamesStep
      <4> QED
        BY <1>1, <2>3, <3>1, <4>1, DotsStep DEF Sign
    <3>3. CASE ~(x = <<>> \/ y = <<>> \/ (~BeginsWith(x, Underscore) /\ ~BeginsWith(y, Underscore)))
      BY <1>1, <2>1, <2>2, <2>3, <3>1, <3>3, NamesStep DEF Sign
    <3> QED
      BY <3>2, <3>3
  <2>4. CASE ~BeginsWith(x, Dot) /\ ~BeginsWith(y, Dot) /\ (x = <<>> \/ y = <<>>)
    <3>1. At(CompareNames, x, y) = At(CompareNatural, x, y)
      BY <2>4, NamesStep, DotsStep
    <3>2. At(CompareNatural, x, y) = IF x = <<>> THEN -1 ELSE 1
      BY <1>8, <2>4, NaturalStep, WordFacts DEF Sign
    <3> QED
      BY <1>1, <1>8, <2>4, <3>1, <3>2 DEF Sign
  <2>5. CASE ~BeginsWith(x, Dot) /\ ~BeginsWith(y, Dot) /\ x # <<>> /\ y # <<>>
    BY <1>1, <1>8, <2>2, <2>5, NamesStep DEF Sign
  <2> QED
    BY <2>3, <2>4, <2>5
<1>9. \A x, y \in Words :
        At(c, x, y) = IF At(piece, x, y) # 0 THEN At(piece, x, y)
                      ELSE IF x \in Stop THEN At(dots, x, y)
                      ELSE At(c, rest[x], rest[y])
  <2> TAKE x, y \in Words
  <2>1. CASE x = y
    <3>1. At(piece, x, y) = 0 /\ At(c, x, y) = 0 /\ At(dots, x, y) = 0
      BY <1>4, <1>5, <1>7, <2>1
    <3>2. x \notin Stop => rest[x] \in Words /\ rest[x] = rest[y]
      BY <1>6, <2>1, WordFacts
    <3>3. x \notin Stop => At(c, rest[x], rest[y]) = 0
      <4> HIDE DEF rest
      <4> QED
        BY <1>4, <3>2
    <3> QED
      BY <3>1, <3>3
  <2>2. CASE x # y /\ rank[x] # rank[y]
    <3>1. At(c, x, y) = At(CompareNames, x, y) /\ At(piece, x, y) # 0
      BY <1>4, <1>7, <2>2
    <3> QED
      BY <1>3, <1>8, <2>2, <3>1
  <2>3. CASE x # y /\ rank[x] = rank[y] /\ rank[x] # 2
    <3>1. x = <<>> \/ y = <<>> \/ (~BeginsWith(x, Underscore) /\ ~BeginsWith(y, Underscore))
      BY <1>1, <2>3, OrderAssumption DEF BeginsWith
    <3>2. At(CompareNames, x, y) = At(CompareDots, x, y)
      BY <3>1, NamesStep
    <3> QED
      BY <1>4, <1>5, <1>7, <2>3, <3>2
  <2>4. CASE x # y /\ rank[x] = rank[y] /\ rank[x] = 2
    <3>1. BeginsWith(x, Underscore) /\ BeginsWith(y, Underscore) /\ x # <<>> /\ y # <<>>
      BY <1>6, <2>4
    <3>2. At(CompareNames, x, y) = At(CompareNames, Tail(x), Tail(y))
      BY <3>1, NamesStep
    <3>3. Tail(x) # Tail(y) /\ Tail(x) \in Words /\ Tail(y) \in Words
      BY <2>4, <3>1, WordFacts DEF BeginsWith
    <3>4. At(c, Tail(x), Tail(y)) = At(CompareNames, Tail(x), Tail(y))
      BY <1>4, <3>3
    <3>5. At(c, x, y) = At(c, rest[x], rest[y])
      BY <1>4, <2>4, <3>2, <3>4
    <3>6. x \notin Stop /\ At(piece, x, y) = 0
      BY <1>7, <2>4
    <3> HIDE DEF Stop, rest
    <3> QED
      BY <3>5, <3>6
  <2> QED
    BY <2>1, <2>2, <2>3, <2>4
<1>10. \A x \in Words \ Stop : rest[x] \in Words /\ size[rest[x]] < size[x]
  <2> TAKE x \in Words \ Stop
  <2>1. Tail(x) \in Words /\ Len(Tail(x)) < Len(x)
    BY <1>6, WordFacts
  <2> QED
    BY <2>1
<1>11. size \in [Words -> Nat] /\ Stop \in SUBSET Words
       /\ \A x, y \in Words : At(piece, x, y) = 0 => (x \in Stop <=> y \in Stop)
  BY <1>7, WordFacts
<1>12. Ordered(Words, dots)
  BY DotsOrdered DEF dots
<1> HIDE DEF rest, size, Stop
<1>13. Pieces(Words, c, piece, dots, Stop, rest, size)
  BY <1>3, <1>9, <1>10, <1>11, <1>12 DEF Pieces
<1>14. Ordered(Words, c)
  BY <1>13, Stepwise
<1> QED
  BY <1>14 DEF c

(* The names two files can have are strictly ordered.                      *)
LEMMA NamesStrict ==
  /\ \A a, b \in Words : a # b =>
       NameOrder(a, b) \in {-1, 1} /\ NameOrder(b, a) = -NameOrder(a, b)
  /\ \A a, b, d \in Words : a # b /\ b # d /\ a # d /\ NameOrder(a, b) = -1 /\ NameOrder(b, d) = -1
       => NameOrder(a, d) = -1
<1> DEFINE first == Apart(Words, CompareNames)
           c == Then(Words, first, CompareBytes)
<1>1. Ordered(Words, first) /\ \A x, y \in Words : At(first, x, y) = IF x = y THEN 0 ELSE At(CompareNames, x, y)
  BY NamesOrdered, ApartAt
<1> HIDE DEF first
<1>2. /\ Ordered(Words, c)
      /\ \A x, y \in Words : At(c, x, y) = IF At(first, x, y) # 0 THEN At(first, x, y) ELSE At(CompareBytes, x, y)
  BY <1>1, BytesOrdered, ThenOrdered
<1> HIDE DEF c
<1>3. \A x, y \in Words : x # y => NameOrder(x, y) = At(c, x, y) /\ At(c, x, y) # 0
  <2> TAKE x, y \in Words
  <2> HAVE x # y
  <2>1. At(first, x, y) = CompareNames[<<x, y>>]
    BY <1>1 DEF At
  <2>2. At(CompareBytes, x, y) = CompareBytes[<<x, y>>] /\ At(CompareBytes, x, y) # 0
    BY BytesOrdered DEF At
  <2> QED
    BY <1>2, <2>1, <2>2 DEF NameOrder
<1>4. ASSUME NEW a \in Words, NEW b \in Words, a # b
      PROVE  NameOrder(a, b) \in {-1, 1} /\ NameOrder(b, a) = -NameOrder(a, b)
  <2>1. At(c, a, b) \in {-1, 1} /\ At(c, b, a) \in {-1, 1} /\ (At(c, a, b) = -1 <=> At(c, b, a) = 1)
    BY <1>2, <1>3, <1>4 DEF Ordered
  <2> QED
    BY <1>3, <1>4, <2>1
<1>5. ASSUME NEW a \in Words, NEW b \in Words, NEW d \in Words, a # b, b # d, a # d,
             NameOrder(a, b) = -1, NameOrder(b, d) = -1
      PROVE  NameOrder(a, d) = -1
  <2>1. At(c, a, b) = -1 /\ At(c, b, d) = -1 /\ At(c, a, d) # 0 /\ NameOrder(a, d) = At(c, a, d)
    BY <1>3, <1>5
  <2>2. At(c, a, d) # 1
    BY <1>2, <2>1 DEF Ordered
  <2> QED
    BY <1>2, <2>1, <2>2 DEF Ordered
<1> QED
  BY <1>4, <1>5

(* Two names are ordered, whatever they are made of (NamesAreOrdered).     *)
LEMMA AnyNamesAreOrdered == OrderInit => NamesAreOrdered
<1> SUFFICES ASSUME OrderInit, tree = {}, left # right
             PROVE  /\ NameOrder(left, right) \in {-1, 1}
                    /\ NameOrder(right, left) = -NameOrder(left, right)
                    /\ NameOrder(left, right) = -1 =>
                         \A nxt \in Names : NameOrder(right, nxt) = -1 => NameOrder(left, nxt) = -1
  BY DEF NamesAreOrdered
<1>1. left \in Words /\ right \in Words /\ Names \subseteq Words
  BY OrderAssumption DEF OrderInit
<1>2. NameOrder(left, right) \in {-1, 1} /\ NameOrder(right, left) = -NameOrder(left, right)
  BY <1>1, NamesStrict
<1>3. ASSUME NEW nxt \in Names, NameOrder(left, right) = -1, NameOrder(right, nxt) = -1
      PROVE  NameOrder(left, nxt) = -1
  <2>1. nxt # left
    BY <1>2, <1>3
  <2>2. CASE nxt = right
    BY <1>3, <2>2
  <2>3. CASE nxt # right
    BY <1>1, <1>3, <2>1, <2>3, NamesStrict
  <2> QED
    BY <2>2, <2>3
<1> QED
  BY <1>2, <1>3

(***************************************************************************)
(* The comparison of paths and the walk.                                   *)
(***************************************************************************)

(* What a function makes of a finite set is finite.                        *)
LEMMA Images ==
  ASSUME NEW S, IsFiniteSet(S), NEW f, NEW T, T = {f[x] : x \in S}
  PROVE  IsFiniteSet(T)
<1> DEFINE g == [x \in S |-> f[x]]
<1>1. g \in Surjection(S, T)
  BY DEF Surjection
<1> HIDE DEF g
<1> QED
  BY <1>1, FS_Surjection

(* Of finitely many names, one comes first.                                *)
LEMMA FirstIs ==
  ASSUME NEW S \in SUBSET Words, IsFiniteSet(S), S # {}
  PROVE  First(S) \in S /\ \A m \in S \ {First(S)} : NameOrder(First(S), m) = -1
<1> DEFINE X == SUBSET S
           size == [T \in X |-> Cardinality(T)]
           HasFirst(T) == \E n \in T : \A m \in T \ {n} : NameOrder(n, m) = -1
           Good == {T \in X : T # {} => HasFirst(T)}
<1>1. \A T \in X : IsFiniteSet(T) /\ Cardinality(T) \in Nat
  BY FS_Subset, FS_CardinalityType
<1>2. size \in [X -> Nat]
  BY <1>1
<1>3. ASSUME NEW T \in X, \A U \in X : size[U] < size[T] => U \in Good
      PROVE  T \in Good
  <2>1. SUFFICES ASSUME T # {} PROVE HasFirst(T)
    OBVIOUS
  <2>2. PICK n \in T : TRUE
    BY <2>1
  <2>3. PICK U \in X : U = T \ {n}
    OBVIOUS
  <2>4. Cardinality(U) = Cardinality(T) - 1
    BY <1>1, <2>2, <2>3, FS_RemoveElement
  <2>5. size[U] < size[T]
    BY <1>1, <2>4
  <2>6. U # {} => HasFirst(U)
    BY <1>3, <2>5
  <2>7. CASE U = {}
    BY <2>2, <2>3, <2>7
  <2>8. CASE U # {}
    <3>1. PICK h \in U : \A m \in U \ {h} : NameOrder(h, m) = -1
      BY <2>6, <2>8
    <3>2. n \in Words /\ h \in Words /\ n # h /\ h \in T /\ \A m \in T : m \in Words
      BY <2>2, <2>3
    <3>3. NameOrder(n, h) \in {-1, 1} /\ NameOrder(h, n) = -NameOrder(n, h)
      BY <3>2, NamesStrict
    <3>4. CASE NameOrder(n, h) = -1
      <4>1. ASSUME NEW m \in T \ {n} PROVE NameOrder(n, m) = -1
        <5>1. CASE m = h
          BY <3>4, <5>1
        <5>2. CASE m # h
          <6>1. NameOrder(h, m) = -1
            BY <2>3, <3>1, <5>2
          <6> QED
            BY <3>2, <3>4, <5>2, <6>1, NamesStrict
        <5> QED
          BY <5>1, <5>2
      <4> QED
        BY <2>2, <4>1
    <3>5. CASE NameOrder(n, h) = 1
      <4>1. NameOrder(h, n) = -1
        BY <3>3, <3>5
      <4>2. ASSUME NEW m \in T \ {h} PROVE NameOrder(h, m) = -1
        BY <2>3, <3>1, <4>1
      <4> QED
        BY <3>2, <4>2
    <3> QED
      BY <3>3, <3>4, <3>5
  <2> QED
    BY <2>7, <2>8
<1>4. Good \in SUBSET X
  OBVIOUS
<1> HIDE DEF Good, size, X
<1>5. Good = X
  BY <1>2, <1>3, <1>4, Induction
<1>6. HasFirst(S)
  BY <1>5 DEF Good, X
<1> QED
  BY <1>6 DEF First

-----------------------------------------------------------------------------
(* Where two paths part.                                                   *)
PartAt(a, b, k) ==
  /\ k < Len(a) /\ k < Len(b)
  /\ \A i \in 1..k : a[i] = b[i]
  /\ a[k + 1] # b[k + 1]

\* godot_scan_order looks at what two paths are where they part.
LEMMA OrderWherePart ==
  ASSUME NEW a \in Seq(Names), NEW b \in Seq(Names), NEW k \in Nat, PartAt(a, b, k)
  PROVE  GodotScanOrder(a, b) = IF Len(a) = k + 1 /\ Len(b) # k + 1 THEN 1
                                ELSE IF Len(b) = k + 1 /\ Len(a) # k + 1 THEN -1
                                ELSE NameOrder(a[k + 1], b[k + 1])
<1> DEFINE S == {n \in 0..Len(a) : n <= Len(b) /\ \A i \in 1..n : a[i] = b[i]}
<1>1. Len(a) \in Nat /\ Len(b) \in Nat
  OBVIOUS
<1>2. S \in SUBSET (0..Len(a)) /\ k \in S
  BY <1>1 DEF PartAt
<1>3. \A n \in S : n <= k
  <2> SUFFICES ASSUME NEW n \in S, ~(n <= k) PROVE FALSE
    OBVIOUS
  <2>1. k + 1 \in 1..n
    BY <1>1
  <2> QED
    BY <2>1 DEF PartAt
<1>4. Shared(a, b) = Max(S)
  BY DEF Shared
<1> HIDE DEF S
<1>5. Max(S) \in S /\ \A n \in S : n <= Max(S)
  BY <1>1, <1>2, Largest
<1>6. PICK m \in 0..Len(a) : m = Max(S) /\ m <= k /\ k <= m
  BY <1>2, <1>3, <1>5
<1>7. Shared(a, b) = k
  BY <1>1, <1>4, <1>6
<1> QED
  BY <1>1, <1>7 DEF GodotScanOrder, PartAt

\* A path is where it is.
LEMMA OrderOfSame ==
  ASSUME NEW a \in Seq(Names)
  PROVE  GodotScanOrder(a, a) = 0
<1> DEFINE S == {n \in 0..Len(a) : n <= Len(a) /\ \A i \in 1..n : a[i] = a[i]}
<1>1. Len(a) \in Nat
  OBVIOUS
<1>2. S \in SUBSET (0..Len(a)) /\ Len(a) \in S
  BY <1>1
<1>3. Shared(a, a) = Max(S)
  BY DEF Shared
<1> HIDE DEF S
<1>4. Max(S) \in S /\ \A n \in S : n <= Max(S)
  BY <1>1, <1>2, Largest
<1>5. PICK m \in 0..Len(a) : m = Max(S) /\ Len(a) <= m
  BY <1>2, <1>4
<1>6. Shared(a, a) = Len(a)
  BY <1>1, <1>3, <1>5
<1> QED
  BY <1>1, <1>6 DEF GodotScanOrder, Sign

(* Two files of a project part somewhere.                                  *)
LEMMA FilesPart ==
  ASSUME NEW t \in Trees, NEW a \in t, NEW b \in t, a # b
  PROVE  \E k \in Nat : PartAt(a, b, k)
<1>1. a \in Seq(Names) /\ b \in Seq(Names)
  BY OrderAssumption
<1>2. Len(a) \in Nat /\ Len(b) \in Nat
  BY <1>1
<1>3. \E k \in Nat : k < Len(a) /\ k < Len(b) /\ a[k + 1] # b[k + 1]
  <2>1. SUFFICES ASSUME \A k \in Nat : k < Len(a) /\ k < Len(b) => a[k + 1] = b[k + 1]
                 PROVE  FALSE
    OBVIOUS
  <2>2. \A i \in 1..Len(a) : i <= Len(b) => a[i] = b[i]
    <3> TAKE i \in 1..Len(a)
    <3> HAVE i <= Len(b)
    <3>1. i - 1 \in Nat /\ i - 1 < Len(a) /\ i - 1 < Len(b) /\ (i - 1) + 1 = i
      BY <1>2
    <3>2. PICK k \in Nat : k = i - 1
      BY <3>1
    <3>3. a[k + 1] = b[k + 1] /\ k + 1 = i
      BY <2>1, <3>1, <3>2
    <3> QED
      BY <3>3
  <2>3. ASSUME NEW f \in {a, b}, NEW h \in {a, b}, Len(f) <= Len(h) PROVE f = h
    <3>1. SubSeq(f, 1, Len(f)) = SubSeq(h, 1, Len(f))
      BY <1>1, <1>2, <2>2, <2>3
    <3> QED
      BY <3>1, <2>3, OrderAssumption DEF IsPrefix
  <2> QED
    BY <1>2, <2>3
<1> DEFINE S == {k \in Nat : k < Len(a) /\ k < Len(b) /\ a[k + 1] # b[k + 1]}
<1>4. S \in SUBSET Nat /\ S # {}
  BY <1>3
<1>5. PICK k \in S : \A j \in S : k <= j
  <2> HIDE DEF S
  <2> QED
    BY <1>4, LeastExists
<1>6. ASSUME NEW i \in 1..k PROVE a[i] = b[i]
  <2>1. PICK j \in Nat : i = j + 1
    BY <1>5
  <2>2. j < k /\ j < Len(a) /\ j < Len(b)
    BY <1>2, <1>5, <2>1
  <2>3. j \notin S
    BY <1>5, <2>1, <2>2
  <2> QED
    BY <2>1, <2>2, <2>3
<1> QED
  BY <1>5, <1>6 DEF PartAt

(* The comparison of two files is the other way round the other way round. *)
LEMMA OrderIsStrict ==
  ASSUME NEW t \in Trees, NEW a \in t, NEW b \in t, a # b
  PROVE  GodotScanOrder(a, b) \in {-1, 1} /\ GodotScanOrder(b, a) = -GodotScanOrder(a, b)
<1>1. a \in Seq(Names) /\ b \in Seq(Names)
  BY OrderAssumption
<1>2. PICK k \in Nat : PartAt(a, b, k)
  BY FilesPart
<1>3. PartAt(b, a, k)
  BY <1>2 DEF PartAt
<1>4. a[k + 1] \in Words /\ b[k + 1] \in Words /\ a[k + 1] # b[k + 1]
  BY <1>1, <1>2, OrderAssumption DEF PartAt
<1>5. NameOrder(a[k + 1], b[k + 1]) \in {-1, 1}
      /\ NameOrder(b[k + 1], a[k + 1]) = -NameOrder(a[k + 1], b[k + 1])
  BY <1>4, NamesStrict
<1>6. GodotScanOrder(a, b) = IF Len(a) = k + 1 /\ Len(b) # k + 1 THEN 1
                             ELSE IF Len(b) = k + 1 /\ Len(a) # k + 1 THEN -1
                             ELSE NameOrder(a[k + 1], b[k + 1])
  BY <1>1, <1>2, OrderWherePart
<1>7. GodotScanOrder(b, a) = IF Len(b) = k + 1 /\ Len(a) # k + 1 THEN 1
                             ELSE IF Len(a) = k + 1 /\ Len(b) # k + 1 THEN -1
                             ELSE NameOrder(b[k + 1], a[k + 1])
  BY <1>1, <1>3, OrderWherePart
<1> QED
  BY <1>5, <1>6, <1>7

(* What is left to walk: files below the names read so far.                *)
Levels == {at \in Nat \X SUBSET tree : \A f \in at[2] : Len(f) > at[1]}
Deep(k, files) == {f \in files : Len(f) > k + 1}
NamesAt(k, files) == {f[k + 1] : f \in files}
Below(k, files) == {f \in Deep(k, files) : f[k + 1] = First(NamesAt(k, Deep(k, files)))}
OwnFirst(k, files) == CHOOSE f \in files : f[k + 1] = First(NamesAt(k, files))
Row(k, f) == {f} \X ((k + 1)..Len(f))
Ahead(k, files) == UNION {Row(k, f) : f \in files}

\* What the walk has to do with.
LEMMA TreeFacts ==
  ASSUME tree \in Trees
  PROVE  /\ IsFiniteSet(tree) /\ tree \subseteq Seq(Names)
         /\ \A f \in tree : Len(f) \in Nat /\ \A i \in 1..Len(f) : f[i] \in Names
<1>1. IsFiniteSet(tree) /\ tree \subseteq Seq(Names)
  BY OrderAssumption
<1> QED
  BY <1>1

\* The names ahead are finitely many.
LEMMA AheadFinite ==
  ASSUME tree \in Trees, NEW k \in Nat, NEW files \in SUBSET tree
  PROVE  IsFiniteSet(Ahead(k, files))
<1> DEFINE row == [f \in files |-> Row(k, f)]
           rows == {row[f] : f \in files}
<1>1. IsFiniteSet(files)
  BY TreeFacts, FS_Subset
<1>2. ASSUME NEW f \in files PROVE IsFiniteSet(row[f])
  <2>1. PICK n \in Int : n = Len(f)
    BY TreeFacts
  <2>2. PICK m \in Int : m = k + 1
    OBVIOUS
  <2>3. IsFiniteSet(m..n)
    BY FS_Interval
  <2>4. IsFiniteSet({f})
    BY FS_Singleton
  <2>5. IsFiniteSet({f} \X (m..n))
    BY <2>3, <2>4, FS_Product
  <2> QED
    BY <2>1, <2>2, <2>5 DEF Row
<1>3. Ahead(k, files) = UNION rows
  BY DEF Ahead
<1> HIDE DEF row
<1>4. IsFiniteSet(rows)
  BY <1>1, Images
<1>5. IsFiniteSet(UNION rows)
  BY <1>2, <1>4, FS_UNION
<1> QED
  BY <1>3, <1>5

\* Fewer files, or files a name further down, have less ahead.
LEMMA AheadLess ==
  ASSUME tree \in Trees, NEW k \in Nat, NEW files \in SUBSET tree,
         NEW j \in Nat, NEW rest \in SUBSET files, k <= j,
         NEW f \in files, NEW i \in Nat, k < i, i <= Len(f), f \notin rest \/ i <= j
  PROVE  Cardinality(Ahead(j, rest)) < Cardinality(Ahead(k, files))
<1> DEFINE A == Ahead(k, files)
           B == Ahead(j, rest)
<1>1. \A g \in files : Len(g) \in Nat
  BY TreeFacts
<1>2. B \in SUBSET A
  <2>1. ASSUME NEW g \in rest PROVE Row(j, g) \subseteq Row(k, g)
    <3>1. PICK n \in Nat : n = Len(g)
      BY <1>1
    <3>2. (j + 1)..n \subseteq (k + 1)..n
      OBVIOUS
    <3> QED
      BY <3>1, <3>2 DEF Row
  <2> QED
    BY <2>1 DEF Ahead
<1>3. PICK p : p = <<f, i>>
  OBVIOUS
<1>4. p \in A
  <2>1. i \in (k + 1)..Len(f)
    BY <1>1
  <2>2. p \in Row(k, f)
    BY <1>3, <2>1 DEF Row
  <2> QED
    BY <2>2 DEF Ahead
<1>5. p \notin B
  <2>1. SUFFICES ASSUME NEW g \in rest, p \in Row(j, g) PROVE FALSE
    BY DEF Ahead
  <2>2. f = g /\ i \in (j + 1)..Len(g)
    BY <1>3, <2>1 DEF Row
  <2> QED
    BY <1>1, <2>2
<1>6. IsFiniteSet(A)
  BY AheadFinite
<1> HIDE DEF A, B
<1>7. IsFiniteSet(B) /\ Cardinality(B) <= Cardinality(A) /\ Cardinality(A) # Cardinality(B)
  BY <1>2, <1>4, <1>5, <1>6, FS_Subset
<1>8. Cardinality(A) \in Nat /\ Cardinality(B) \in Nat
  BY <1>6, <1>7, FS_CardinalityType
<1>9. Cardinality(B) < Cardinality(A)
  BY <1>7, <1>8
<1> QED
  BY <1>9 DEF A, B

\* A directory that is not empty has a first name.
LEMMA NamesHaveFirst ==
  ASSUME tree \in Trees, NEW k \in Nat, NEW files \in SUBSET tree, files # {},
         \A f \in files : Len(f) > k
  PROVE  /\ First(NamesAt(k, files)) \in NamesAt(k, files)
         /\ \A m \in NamesAt(k, files) \ {First(NamesAt(k, files))} :
              NameOrder(First(NamesAt(k, files)), m) = -1
<1> DEFINE S == NamesAt(k, files)
           name == [f \in files |-> f[k + 1]]
<1>1. IsFiniteSet(files)
  BY TreeFacts, FS_Subset
<1>2. S = {name[f] : f \in files}
  BY DEF NamesAt
<1>3. IsFiniteSet(S)
  <2> HIDE DEF S, name
  <2> QED
    BY <1>1, <1>2, Images
<1>4. ASSUME NEW f \in files PROVE f[k + 1] \in Words
  <2>1. Len(f) \in Nat /\ k + 1 \in 1..Len(f)
    BY TreeFacts
  <2>2. f[k + 1] \in Names
    BY <2>1, TreeFacts
  <2> QED
    BY <2>2, OrderAssumption
<1>5. S \in SUBSET Words /\ S # {}
  BY <1>4 DEF NamesAt
<1> HIDE DEF S
<1>6. First(S) \in S /\ \A m \in S \ {First(S)} : NameOrder(First(S), m) = -1
  BY <1>3, <1>5, FirstIs
<1> QED
  BY <1>6 DEF S

IntoDir(k, files) ==
  /\ Below(k, files) \in SUBSET files /\ Below(k, files) # {}
  /\ <<k + 1, Below(k, files)>> \in Levels
  /\ <<k, files \ Below(k, files)>> \in Levels
  /\ Cardinality(Ahead(k + 1, Below(k, files))) < Cardinality(Ahead(k, files))
  /\ Cardinality(Ahead(k, files \ Below(k, files))) < Cardinality(Ahead(k, files))
  /\ \A a, b \in Below(k, files) : a[k + 1] = b[k + 1]
  /\ \A a \in Below(k, files), b \in files \ Below(k, files) :
       Len(a) > k + 1 /\ (Len(b) > k + 1 => a[k + 1] # b[k + 1] /\ NameOrder(a[k + 1], b[k + 1]) = -1)

\* Where there are subdirectories, the first of them is walked and then the rest.
LEMMA IntoDirectory ==
  ASSUME tree \in Trees, NEW k \in Nat, NEW files \in SUBSET tree, \A f \in files : Len(f) > k,
         Deep(k, files) # {}
  PROVE  IntoDir(k, files)
<1> DEFINE deep == Deep(k, files)
           low == Below(k, files)
           dir == First(NamesAt(k, deep))
<1>1. deep \in SUBSET files /\ deep \in SUBSET tree /\ \A f \in deep : Len(f) > k /\ Len(f) > k + 1
  BY DEF Deep
<1>2. dir \in NamesAt(k, deep) /\ \A m \in NamesAt(k, deep) \ {dir} : NameOrder(dir, m) = -1
  <2> HIDE DEF deep
  <2> QED
    BY <1>1, NamesHaveFirst DEF deep
<1>3. low = {f \in deep : f[k + 1] = dir}
  BY DEF Below
<1>4. \A f \in files : f \in deep <=> Len(f) > k + 1
  BY DEF Deep
<1> HIDE DEF low, deep, dir
<1>5. PICK f \in low : TRUE
  BY <1>2, <1>3 DEF NamesAt
<1>6. low \in SUBSET files /\ low # {} /\ files \ low \in SUBSET files /\ f \in files
  BY <1>1, <1>3, <1>5
<1>7. Len(f) \in Nat /\ Len(f) > k + 1
  BY <1>1, <1>3, <1>6, TreeFacts
<1>8. Cardinality(Ahead(k + 1, low)) < Cardinality(Ahead(k, files))
  <2>1. k + 1 \in Nat /\ k <= k + 1 /\ k < k + 1 /\ k + 1 <= Len(f) /\ k + 1 <= k + 1
    BY <1>7
  <2> QED
    BY <1>6, <2>1, AheadLess
<1>9. Cardinality(Ahead(k, files \ low)) < Cardinality(Ahead(k, files))
  <2>1. k + 1 \in Nat /\ k <= k /\ k < k + 1 /\ k + 1 <= Len(f) /\ f \notin files \ low
    BY <1>5, <1>7
  <2>2. PICK others \in SUBSET files : others = files \ low
    OBVIOUS
  <2>3. Cardinality(Ahead(k, others)) < Cardinality(Ahead(k, files))
    BY <1>6, <2>1, <2>2, AheadLess
  <2> QED
    BY <2>2, <2>3
<1>10. <<k + 1, low>> \in Levels /\ <<k, files \ low>> \in Levels
  BY <1>1, <1>3, <1>6 DEF Levels
<1>11. \A a, b \in low : a[k + 1] = b[k + 1]
  BY <1>3
<1>12. ASSUME NEW a \in low, NEW b \in files \ low
       PROVE  Len(a) > k + 1 /\ (Len(b) > k + 1 => a[k + 1] # b[k + 1] /\ NameOrder(a[k + 1], b[k + 1]) = -1)
  <2>1. a \in deep /\ a[k + 1] = dir /\ Len(a) > k + 1
    BY <1>1, <1>3
  <2>2. ASSUME Len(b) > k + 1 PROVE a[k + 1] # b[k + 1] /\ NameOrder(a[k + 1], b[k + 1]) = -1
    <3>1. b \in deep /\ b[k + 1] # dir
      BY <1>3, <1>4, <2>2
    <3>2. b[k + 1] \in NamesAt(k, deep) \ {dir}
      BY <3>1 DEF NamesAt
    <3> QED
      BY <1>2, <2>1, <3>1, <3>2
  <2> QED
    BY <2>1, <2>2
<1> QED
  BY <1>6, <1>8, <1>9, <1>10, <1>11, <1>12 DEF low, IntoDir

\* Where there are files only, the first of them is listed and then the rest.
LEMMA OwnFile ==
  ASSUME tree \in Trees, NEW k \in Nat, NEW files \in SUBSET tree, \A f \in files : Len(f) > k,
         files # {}
  PROVE  /\ OwnFirst(k, files) \in files
         /\ <<k, files \ {OwnFirst(k, files)}>> \in Levels
         /\ Cardinality(Ahead(k, files \ {OwnFirst(k, files)})) < Cardinality(Ahead(k, files))
         /\ \A b \in files : b[k + 1] # OwnFirst(k, files)[k + 1] =>
              NameOrder(OwnFirst(k, files)[k + 1], b[k + 1]) = -1
<1> DEFINE name == First(NamesAt(k, files))
           own == OwnFirst(k, files)
<1>1. name \in NamesAt(k, files) /\ \A m \in NamesAt(k, files) \ {name} : NameOrder(name, m) = -1
  BY NamesHaveFirst
<1>2. \E f \in files : f[k + 1] = name
  BY <1>1 DEF NamesAt
<1>3. own \in files /\ own[k + 1] = name
  BY <1>2 DEF OwnFirst
<1> HIDE DEF own, name
<1>4. Len(own) \in Nat /\ Len(own) > k
  BY <1>3, TreeFacts
<1>5. Cardinality(Ahead(k, files \ {own})) < Cardinality(Ahead(k, files))
  <2>1. k + 1 \in Nat /\ k <= k /\ k < k + 1 /\ k + 1 <= Len(own) /\ own \notin files \ {own}
    BY <1>4
  <2>2. PICK others \in SUBSET files : others = files \ {own}
    OBVIOUS
  <2>3. Cardinality(Ahead(k, others)) < Cardinality(Ahead(k, files))
    BY <1>3, <2>1, <2>2, AheadLess
  <2> QED
    BY <2>2, <2>3
<1>6. <<k, files \ {own}>> \in Levels
  BY DEF Levels
<1>7. \A b \in files : b[k + 1] # own[k + 1] => NameOrder(own[k + 1], b[k + 1]) = -1
  <2> TAKE b \in files
  <2> HAVE b[k + 1] # own[k + 1]
  <2>1. b[k + 1] \in NamesAt(k, files) \ {name}
    BY <1>3 DEF NamesAt
  <2> QED
    BY <1>1, <1>3, <2>1
<1> QED
  BY <1>3, <1>5, <1>6, <1>7 DEF own

WalkFrom(w, at) ==
  IF at[2] = {} THEN <<>>
  ELSE IF Deep(at[1], at[2]) # {}
  THEN w[<<at[1] + 1, Below(at[1], at[2])>>] \o w[<<at[1], at[2] \ Below(at[1], at[2])>>]
  ELSE <<OwnFirst(at[1], at[2])>> \o w[<<at[1], at[2] \ {OwnFirst(at[1], at[2])}>>]

Left(at) == Cardinality(Ahead(at[1], at[2]))

\* What is left to walk is finite.
LEMMA LevelFacts ==
  ASSUME tree \in Trees, NEW at \in Levels
  PROVE  /\ at[1] \in Nat /\ at[2] \in SUBSET tree /\ at = <<at[1], at[2]>>
         /\ \A f \in at[2] : Len(f) > at[1]
         /\ Left(at) \in Nat
<1>1. at[1] \in Nat /\ at[2] \in SUBSET tree /\ at = <<at[1], at[2]>> /\ \A f \in at[2] : Len(f) > at[1]
  BY DEF Levels
<1>2. Left(at) \in Nat
  BY <1>1, AheadFinite, FS_CardinalityType DEF Left
<1> QED
  BY <1>1, <1>2

(* Both ways on lead to less.                                              *)
LEMMA WalkDescends ==
  ASSUME tree \in Trees, NEW at \in Levels, at[2] # {}
  PROVE  /\ Deep(at[1], at[2]) # {} =>
              /\ <<at[1] + 1, Below(at[1], at[2])>> \in Levels
              /\ <<at[1], at[2] \ Below(at[1], at[2])>> \in Levels
              /\ Left(<<at[1] + 1, Below(at[1], at[2])>>) < Left(at)
              /\ Left(<<at[1], at[2] \ Below(at[1], at[2])>>) < Left(at)
         /\ OwnFirst(at[1], at[2]) \in tree
         /\ <<at[1], at[2] \ {OwnFirst(at[1], at[2])}>> \in Levels
         /\ Left(<<at[1], at[2] \ {OwnFirst(at[1], at[2])}>>) < Left(at)
<1>1. at[1] \in Nat /\ at[2] \in SUBSET tree /\ \A f \in at[2] : Len(f) > at[1]
  BY LevelFacts
<1>2. PICK k \in Nat, files \in SUBSET tree : k = at[1] /\ files = at[2] /\ files # {} /\ \A f \in files : Len(f) > k
  BY <1>1
<1>3. Left(at) = Cardinality(Ahead(k, files))
  BY <1>2 DEF Left
<1>4. ASSUME Deep(k, files) # {}
      PROVE  /\ <<k + 1, Below(k, files)>> \in Levels
             /\ <<k, files \ Below(k, files)>> \in Levels
             /\ Left(<<k + 1, Below(k, files)>>) < Left(at)
             /\ Left(<<k, files \ Below(k, files)>>) < Left(at)
  <2>1. /\ <<k + 1, Below(k, files)>> \in Levels
        /\ <<k, files \ Below(k, files)>> \in Levels
        /\ Cardinality(Ahead(k + 1, Below(k, files))) < Cardinality(Ahead(k, files))
        /\ Cardinality(Ahead(k, files \ Below(k, files))) < Cardinality(Ahead(k, files))
    <3>1. IntoDir(k, files)
      BY <1>2, <1>4, IntoDirectory
    <3> QED
      BY <3>1 DEF IntoDir
  <2>2. /\ Left(<<k + 1, Below(k, files)>>) = Cardinality(Ahead(k + 1, Below(k, files)))
        /\ Left(<<k, files \ Below(k, files)>>) = Cardinality(Ahead(k, files \ Below(k, files)))
    BY DEF Left
  <2> QED
    BY <1>3, <2>1, <2>2
<1>5. /\ OwnFirst(k, files) \in tree
      /\ <<k, files \ {OwnFirst(k, files)}>> \in Levels
      /\ Left(<<k, files \ {OwnFirst(k, files)}>>) < Left(at)
  BY <1>2, <1>3, OwnFile DEF Left
<1> QED
  BY <1>2, <1>4, <1>5

\* The walk satisfies its equation.
LEMMA WalkIs ==
  ASSUME tree \in Trees
  PROVE  \E w : Walk = w[<<0, tree>>] /\ \A at \in Levels : w[at] = WalkFrom(w, at)
<1> DEFINE T == Seq(tree)
           F == [at \in Levels |-> [w \in [Levels -> T] |-> WalkFrom(w, at)]]
           size == [at \in Levels |-> Left(at)]
           walk == CHOOSE w : w = [at \in Levels |-> WalkFrom(w, at)]
<1>1. ASSUME NEW at \in Levels, NEW w \in [Levels -> T] PROVE WalkFrom(w, at) \in T
  <2>1. CASE at[2] = {}
    BY <2>1 DEF WalkFrom
  <2>2. CASE at[2] # {} /\ Deep(at[1], at[2]) # {}
    <3>1. PICK p, q \in Levels : /\ p = <<at[1] + 1, Below(at[1], at[2])>>
                                 /\ q = <<at[1], at[2] \ Below(at[1], at[2])>>
      BY <2>2, WalkDescends
    <3>2. WalkFrom(w, at) = w[p] \o w[q]
      BY <2>2, <3>1 DEF WalkFrom
    <3> QED
      BY <3>2, ConcatProperties
  <2>3. CASE at[2] # {} /\ Deep(at[1], at[2]) = {}
    <3>1. PICK o \in tree, q \in Levels : o = OwnFirst(at[1], at[2]) /\ q = <<at[1], at[2] \ {OwnFirst(at[1], at[2])}>>
      BY <2>3, WalkDescends
    <3>2. WalkFrom(w, at) = <<o>> \o w[q]
      BY <2>3, <3>1 DEF WalkFrom
    <3>3. <<o>> \in Seq(tree) /\ w[q] \in Seq(tree)
      OBVIOUS
    <3> QED
      BY <3>2, <3>3, ConcatProperties
  <2> QED
    BY <2>1, <2>2, <2>3
<1>2. F \in [Levels -> [[Levels -> T] -> T]]
  <2> HIDE DEF T
  <2> QED
    BY <1>1
<1>3. \A at \in Levels, f, g \in [Levels -> T] :
        (\A y \in Levels : size[y] < size[at] => f[y] = g[y]) => F[at][f] = F[at][g]
  <2> TAKE at \in Levels, f, g \in [Levels -> T]
  <2> HAVE \A y \in Levels : size[y] < size[at] => f[y] = g[y]
  <2>0. \A y \in Levels : Left(y) < Left(at) => f[y] = g[y]
    OBVIOUS
  <2>1. WalkFrom(f, at) = WalkFrom(g, at)
    <3>1. CASE at[2] = {}
      BY <3>1 DEF WalkFrom
    <3>2. CASE at[2] # {} /\ Deep(at[1], at[2]) # {}
      <4>1. PICK p, q \in Levels : /\ p = <<at[1] + 1, Below(at[1], at[2])>>
                                   /\ q = <<at[1], at[2] \ Below(at[1], at[2])>>
                                   /\ Left(p) < Left(at) /\ Left(q) < Left(at)
        BY <3>2, WalkDescends
      <4>2. f[p] = g[p] /\ f[q] = g[q]
        BY <2>0, <4>1
      <4>3. WalkFrom(f, at) = f[p] \o f[q] /\ WalkFrom(g, at) = g[p] \o g[q]
        BY <3>2, <4>1 DEF WalkFrom
      <4> QED
        BY <4>2, <4>3
    <3>3. CASE at[2] # {} /\ Deep(at[1], at[2]) = {}
      <4>1. PICK q \in Levels : q = <<at[1], at[2] \ {OwnFirst(at[1], at[2])}>> /\ Left(q) < Left(at)
        BY <3>3, WalkDescends
      <4>2. f[q] = g[q]
        BY <2>0, <4>1
      <4>3. WalkFrom(f, at) = <<OwnFirst(at[1], at[2])>> \o f[q] /\ WalkFrom(g, at) = <<OwnFirst(at[1], at[2])>> \o g[q]
        BY <3>3, <4>1 DEF WalkFrom
      <4> QED
        BY <4>2, <4>3
    <3> QED
      BY <3>1, <3>2, <3>3
  <2> HIDE DEF T
  <2> QED
    BY <2>1
<1>4. size \in [Levels -> Nat]
  BY LevelFacts
<1>5. \E f \in [Levels -> T] : \A at \in Levels : f[at] = F[at][f]
  <2>1. T # {}
    <3>1. <<>> \in T
      OBVIOUS
    <3> QED
      BY <3>1
  <2> HIDE DEF F, size, T, walk
  <2>2. WellDefined(Levels, T, F, size)
    BY <1>2, <1>3, <1>4, <2>1 DEF WellDefined
  <2> QED
    BY <2>2, Recursion
<1>6. \E f : f = [at \in Levels |-> WalkFrom(f, at)]
  <2>1. PICK f \in [Levels -> T] : \A at \in Levels : f[at] = F[at][f]
    BY <1>5
  <2>2. f = [at \in Levels |-> WalkFrom(f, at)]
    <3> HIDE DEF T
    <3> QED
      BY <2>1
  <2> QED
    BY <2>2
<1>7. walk = [at \in Levels |-> WalkFrom(walk, at)]
  BY <1>6
<1>8. Walk = walk[<<0, tree>>]
  BY DEF Walk, Levels, WalkFrom, Deep, Below, OwnFirst, NamesAt
<1> HIDE DEF walk
<1>9. \A at \in Levels : walk[at] = WalkFrom(walk, at)
  BY <1>7
<1> QED
  BY <1>8, <1>9

-----------------------------------------------------------------------------
(* A list of files, each of them once, in their order.                     *)
Lists(W, files) ==
  /\ W \in Seq(files)
  /\ \A f \in files : \E n \in 1..Len(W) : W[n] = f
  /\ \A m, n \in 1..Len(W) : m < n => GodotScanOrder(W[m], W[n]) = -1

\* Two lists make one when all of the first comes before all of the second.
LEMMA ListsTogether ==
  ASSUME NEW A, NEW B, NEW V, NEW W, Lists(V, A), Lists(W, B),
         \A a \in A, b \in B : GodotScanOrder(a, b) = -1
  PROVE  Lists(V \o W, A \cup B)
<1> DEFINE C == A \cup B
           U == V \o W
<1>1. V \in Seq(C) /\ W \in Seq(C) /\ V \in Seq(A) /\ W \in Seq(B)
  <2>1. V \in Seq(A) /\ W \in Seq(B)
    BY DEF Lists
  <2>2. A \subseteq C /\ B \subseteq C
    OBVIOUS
  <2> HIDE DEF C
  <2> QED
    BY <2>1, <2>2
<1>2. Len(V) \in Nat /\ Len(W) \in Nat
  BY <1>1
<1>3. /\ U \in Seq(C) /\ Len(U) = Len(V) + Len(W)
      /\ \A i \in 1..(Len(V) + Len(W)) : U[i] = IF i <= Len(V) THEN V[i] ELSE W[i - Len(V)]
  <2> HIDE DEF C
  <2> QED
    BY <1>1, ConcatProperties
<1> HIDE DEF U
<1>4. \A n \in 1..Len(V) : n \in 1..Len(U) /\ U[n] = V[n] /\ V[n] \in A
  BY <1>1, <1>2, <1>3
<1> DEFINE v == Len(V)
           w == Len(W)
           u == Len(U)
<1>12. u = v + w /\ v \in Nat /\ w \in Nat
  BY <1>2, <1>3
<1>5. \A n \in 1..Len(W) : n + Len(V) \in 1..Len(U) /\ U[n + Len(V)] = W[n] /\ W[n] \in B
  <2> TAKE n \in 1..Len(W)
  <2>0. n \in 1..w
    OBVIOUS
  <2>1. PICK i \in 1..u : i = n + v /\ i - v = n /\ ~(i <= v)
    <3> HIDE DEF u, v, w
    <3> QED
      BY <1>12, <2>0
  <2>2. U[i] = W[n]
    BY <1>3, <2>1
  <2>3. W[n] \in B
    BY <1>1
  <2> QED
    BY <2>1, <2>2, <2>3
<1>6. \A i \in 1..Len(U) : i \in 1..Len(V) \/ (\E n \in 1..Len(W) : i = n + Len(V))
  <2> TAKE i \in 1..Len(U)
  <2>1. i \in 1..u
    OBVIOUS
  <2> HIDE DEF u, v, w
  <2>2. i \in 1..v \/ (i - v \in 1..w /\ i = (i - v) + v)
    BY <1>12, <2>1
  <2> QED
    BY <2>2 DEF v, w
<1>7. \A f \in C : \E n \in 1..Len(U) : U[n] = f
  <2> TAKE f \in C
  <2>1. CASE f \in A
    BY <1>4, <2>1 DEF Lists
  <2>2. CASE f \in B
    <3>1. PICK n \in 1..Len(W) : W[n] = f
      BY <2>2 DEF Lists
    <3> QED
      BY <1>5, <3>1
  <2> QED
    BY <2>1, <2>2
<1>8. ASSUME NEW m \in 1..Len(U), NEW n \in 1..Len(U), m < n PROVE GodotScanOrder(U[m], U[n]) = -1
  <2>1. CASE m \in 1..Len(V) /\ n \in 1..Len(V)
    BY <1>4, <1>8, <2>1 DEF Lists
  <2>2. CASE m \in 1..Len(V) /\ \E j \in 1..Len(W) : n = j + Len(V)
    BY <1>4, <1>5, <2>2
  <2>3. CASE (\E i \in 1..Len(W) : m = i + Len(V)) /\ \E j \in 1..Len(W) : n = j + Len(V)
    <3>1. PICK i, j \in 1..Len(W) : m = i + Len(V) /\ n = j + Len(V)
      BY <2>3
    <3>2. i < j
      BY <1>2, <1>8, <3>1
    <3>3. U[m] = W[i] /\ U[n] = W[j]
      BY <1>5, <3>1
    <3>4. GodotScanOrder(W[i], W[j]) = -1
      BY <3>2 DEF Lists
    <3> QED
      BY <3>3, <3>4
  <2>4. CASE (\E i \in 1..Len(W) : m = i + Len(V)) /\ n \in 1..Len(V)
    BY <1>2, <1>8, <2>4
  <2> QED
    BY <1>6, <2>1, <2>2, <2>3, <2>4
<1>9. U \in Seq(C) /\ \A m, n \in 1..Len(U) : m < n => GodotScanOrder(U[m], U[n]) = -1
  BY <1>3, <1>8
<1> HIDE DEF C
<1>10. Lists(U, C)
  BY <1>7, <1>9 DEF Lists
<1> QED
  BY <1>10 DEF U, C

(* Files whose first names agree are told apart by the next one.           *)
Agree(k, files) == \A f, h \in files : \A i \in 1..k : f[i] = h[i]

\* Two files with as many names in common part at the next, or later in one
\* directory.
LEMMA ApartWherePart ==
  ASSUME tree \in Trees, NEW k \in Nat, NEW files \in SUBSET tree, Agree(k, files),
         NEW a \in files, NEW b \in files, Len(a) > k, Len(b) > k, a # b
  PROVE  /\ a[k + 1] = b[k + 1] => Len(a) > k + 1 /\ Len(b) > k + 1
         /\ a[k + 1] # b[k + 1] =>
              GodotScanOrder(a, b) = IF Len(a) = k + 1 /\ Len(b) # k + 1 THEN 1
                                     ELSE IF Len(b) = k + 1 /\ Len(a) # k + 1 THEN -1
                                     ELSE NameOrder(a[k + 1], b[k + 1])
<1>1. a \in Seq(Names) /\ b \in Seq(Names) /\ Len(a) \in Nat /\ Len(b) \in Nat
  BY TreeFacts
<1>2. ASSUME a[k + 1] # b[k + 1]
      PROVE  GodotScanOrder(a, b) = IF Len(a) = k + 1 /\ Len(b) # k + 1 THEN 1
                                    ELSE IF Len(b) = k + 1 /\ Len(a) # k + 1 THEN -1
                                    ELSE NameOrder(a[k + 1], b[k + 1])
  <2>1. PartAt(a, b, k)
    BY <1>2 DEF PartAt, Agree
  <2> QED
    BY <1>1, <2>1, OrderWherePart
<1>3. ASSUME a[k + 1] = b[k + 1] PROVE Len(a) > k + 1 /\ Len(b) > k + 1
  <2>1. PICK j \in Nat : PartAt(a, b, j)
    BY FilesPart
  <2>2. j > k
    <3>1. SUFFICES ASSUME j <= k PROVE FALSE
      OBVIOUS
    <3>2. CASE j = k
      BY <1>3, <2>1, <3>2 DEF PartAt
    <3>3. CASE j # k
      <4>1. j + 1 \in 1..k
        BY <3>1, <3>3
      <4> QED
        BY <2>1, <4>1 DEF PartAt, Agree
    <3> QED
      BY <3>2, <3>3
  <2> QED
    BY <1>1, <2>1, <2>2 DEF PartAt
<1> QED
  BY <1>2, <1>3

(* Below any directory, the walk reaches every file, in their order.       *)
LEMMA WalkLists ==
  ASSUME tree \in Trees, NEW w, \A at \in Levels : w[at] = WalkFrom(w, at)
  PROVE  \A at \in Levels : Agree(at[1], at[2]) => Lists(w[at], at[2])
<1> DEFINE size == [at \in Levels |-> Left(at)]
           Good == {at \in Levels : Agree(at[1], at[2]) => Lists(w[at], at[2])}
<1>1. size \in [Levels -> Nat] /\ Good \in SUBSET Levels
  BY LevelFacts
<1>2. ASSUME NEW at \in Levels, \A y \in Levels : size[y] < size[at] => y \in Good,
             Agree(at[1], at[2])
      PROVE  Lists(w[at], at[2])
  <2>1. PICK k \in Nat, files \in SUBSET tree : k = at[1] /\ files = at[2] /\ \A f \in files : Len(f) > k
    BY LevelFacts
  <2>2. \A y \in Levels : Left(y) < Left(at) /\ Agree(y[1], y[2]) => Lists(w[y], y[2])
    BY <1>2
  <2>3. CASE files = {}
    <3>1. w[at] = <<>>
      BY <2>1, <2>3 DEF WalkFrom
    <3> QED
      BY <2>1, <2>3, <3>1 DEF Lists
  <2>4. CASE Deep(k, files) # {}
    <3> DEFINE low == Below(k, files)
    <3>1. IntoDir(k, files)
      BY <2>1, <2>4, IntoDirectory
    <3>2. files # {}
      BY <2>4 DEF Deep
    <3>3. PICK p, q \in Levels : /\ p = <<k + 1, low>> /\ q = <<k, files \ low>>
                                 /\ Left(p) < Left(at) /\ Left(q) < Left(at)
      BY <2>1, <2>4, <3>2, WalkDescends
    <3>4. w[at] = w[p] \o w[q]
      BY <2>1, <2>4, <3>2, <3>3 DEF WalkFrom
    <3>5. low \in SUBSET files /\ (\A a, b \in low : a[k + 1] = b[k + 1])
          /\ \A a \in low, b \in files \ low :
               Len(a) > k + 1 /\ (Len(b) > k + 1 => a[k + 1] # b[k + 1] /\ NameOrder(a[k + 1], b[k + 1]) = -1)
      BY <3>1 DEF IntoDir
    <3> HIDE DEF low
    <3>6. Lists(w[q], files \ low)
      <4>1. q[1] = k /\ q[2] = files \ low
        BY <3>3
      <4>2. Agree(k, files \ low)
        BY <1>2, <2>1 DEF Agree
      <4> QED
        BY <2>2, <3>3, <4>1, <4>2
    <3>7. Lists(w[p], low)
      <4>1. p[1] = k + 1 /\ p[2] = low
        BY <3>3
      <4>2. Agree(k + 1, low)
        <5> SUFFICES ASSUME NEW f \in low, NEW h \in low, NEW i \in 1..(k + 1) PROVE f[i] = h[i]
          BY DEF Agree
        <5>1. i \in 1..k \/ i = k + 1
          OBVIOUS
        <5>2. CASE i \in 1..k
          BY <1>2, <2>1, <3>5, <5>2 DEF Agree
        <5>3. CASE i = k + 1
          BY <3>5, <5>3
        <5> QED
          BY <5>1, <5>2, <5>3
      <4> QED
        BY <2>2, <3>3, <4>1, <4>2
    <3>8. ASSUME NEW a \in low, NEW b \in files \ low PROVE GodotScanOrder(a, b) = -1
      <4>1. a \in files /\ b \in files /\ a # b /\ Len(a) > k /\ Len(b) > k /\ Agree(k, files)
        BY <1>2, <2>1, <3>5
      <4>2. Len(a) > k + 1 /\ Len(a) \in Nat /\ Len(b) \in Nat
        BY <3>5, <4>1, TreeFacts
      <4>3. a[k + 1] # b[k + 1]
        <5>1. SUFFICES ASSUME a[k + 1] = b[k + 1] PROVE FALSE
          OBVIOUS
        <5>2. Len(b) > k + 1
          BY <4>1, <5>1, ApartWherePart
        <5> QED
          BY <3>5, <5>1, <5>2
      <4>4. GodotScanOrder(a, b) = IF Len(a) = k + 1 /\ Len(b) # k + 1 THEN 1
                                   ELSE IF Len(b) = k + 1 /\ Len(a) # k + 1 THEN -1
                                   ELSE NameOrder(a[k + 1], b[k + 1])
        BY <4>1, <4>3, ApartWherePart
      <4>5. CASE Len(b) = k + 1
        BY <4>2, <4>4, <4>5
      <4>6. CASE Len(b) # k + 1
        <5>1. Len(b) > k + 1
          BY <4>1, <4>2, <4>6
        <5>2. NameOrder(a[k + 1], b[k + 1]) = -1
          BY <3>5, <5>1
        <5> QED
          BY <4>2, <4>4, <4>6, <5>2
      <4> QED
        BY <4>5, <4>6
    <3>9. Lists(w[p] \o w[q], low \cup (files \ low))
      BY <3>6, <3>7, <3>8, ListsTogether
    <3>10. files = low \cup (files \ low)
      BY <3>5
    <3> QED
      BY <2>1, <3>4, <3>9, <3>10
  <2>5. CASE files # {} /\ Deep(k, files) = {}
    <3> DEFINE own == OwnFirst(k, files)
    <3>1. own \in files /\ \A b \in files : b[k + 1] # own[k + 1] => NameOrder(own[k + 1], b[k + 1]) = -1
      BY <2>1, <2>5, OwnFile
    <3>2. PICK q \in Levels : q = <<k, files \ {own}>> /\ Left(q) < Left(at)
      BY <2>1, <2>5, WalkDescends
    <3>3. w[at] = <<own>> \o w[q]
      BY <2>1, <2>5, <3>2 DEF WalkFrom
    <3> HIDE DEF own
    <3>4. Lists(w[q], files \ {own})
      <4>1. q[1] = k /\ q[2] = files \ {own}
        BY <3>2
      <4>2. Agree(k, files \ {own})
        BY <1>2, <2>1 DEF Agree
      <4> QED
        BY <2>2, <3>2, <4>1, <4>2
    <3>5. ASSUME NEW a \in {own}, NEW b \in files \ {own} PROVE GodotScanOrder(a, b) = -1
      <4>1. a \in files /\ b \in files /\ a # b /\ Len(a) > k /\ Len(b) > k /\ Agree(k, files)
        BY <1>2, <2>1, <3>1
      <4>2. Len(a) \in Nat /\ Len(b) \in Nat
        BY <4>1, TreeFacts
      <4>3. ~(Len(a) > k + 1) /\ ~(Len(b) > k + 1)
        BY <2>5, <4>1 DEF Deep
      <4>4. Len(a) = k + 1 /\ Len(b) = k + 1
        BY <4>1, <4>2, <4>3
      <4>5. a[k + 1] # b[k + 1]
        BY <4>1, <4>3, ApartWherePart
      <4>6. GodotScanOrder(a, b) = NameOrder(a[k + 1], b[k + 1])
        BY <4>1, <4>4, <4>5, ApartWherePart
      <4> QED
        BY <3>1, <4>1, <4>5, <4>6
    <3>6. Lists(<<own>>, {own})
      <4>1. GodotScanOrder(own, own) = 0
        BY <2>1, <3>1, TreeFacts, OrderOfSame
      <4>2. <<own>> \in Seq({own}) /\ Len(<<own>>) = 1 /\ <<own>>[1] = own
        OBVIOUS
      <4> QED
        BY <4>2 DEF Lists
    <3>7. Lists(<<own>> \o w[q], {own} \cup (files \ {own}))
      BY <3>4, <3>5, <3>6, ListsTogether
    <3>8. files = {own} \cup (files \ {own})
      BY <3>1
    <3> QED
      BY <2>1, <3>3, <3>7, <3>8
  <2> QED
    BY <2>3, <2>4, <2>5
<1>3. \A at \in Levels : (\A y \in Levels : size[y] < size[at] => y \in Good) => at \in Good
  <2> HIDE DEF size
  <2> QED
    BY <1>2
<1> HIDE DEF size, Good
<1>4. Good = Levels
  BY <1>1, <1>3, Induction
<1> QED
  BY <1>4 DEF Good

(* The comparison of two files agrees with the walk (WalkAgrees).          *)
LEMMA AnyWalkAgrees == OrderInit => WalkAgrees
<1> SUFFICES ASSUME OrderInit, tree # {}
             PROVE  GodotScanOrder(left, right) = Sign(Place(left), Place(right))
  BY DEF WalkAgrees
<1>1. tree \in Trees /\ left \in tree /\ right \in tree
  BY DEF OrderInit
<1>2. PICK w : Walk = w[<<0, tree>>] /\ \A at \in Levels : w[at] = WalkFrom(w, at)
  BY <1>1, WalkIs
<1>3. PICK at \in Levels : at = <<0, tree>> /\ at[1] = 0 /\ at[2] = tree
  <2>1. \A f \in tree : Len(f) > 0
    <3> TAKE f \in tree
    <3>1. f \in Seq(Names) /\ f # <<>>
      BY <1>1, OrderAssumption
    <3> QED
      BY <3>1
  <2>2. PICK k \in Nat, files \in SUBSET tree : k = 0 /\ files = tree
    OBVIOUS
  <2>3. <<k, files>> \in Levels
    BY <2>1, <2>2 DEF Levels
  <2> QED
    BY <2>2, <2>3
<1>4. Lists(w[at], tree)
  <2>1. Agree(0, tree)
    BY DEF Agree
  <2> QED
    BY <1>1, <1>2, <1>3, <2>1, WalkLists
<1>5. Lists(Walk, tree)
  BY <1>2, <1>3, <1>4
<1>6. /\ DOMAIN Walk = 1..Len(Walk) /\ Len(Walk) \in Nat
      /\ \A f \in tree : \E n \in 1..Len(Walk) : Walk[n] = f
      /\ \A m, n \in 1..Len(Walk) : m < n => GodotScanOrder(Walk[m], Walk[n]) = -1
  <2>1. Walk \in Seq(tree)
    BY <1>5 DEF Lists
  <2>2. DOMAIN Walk = 1..Len(Walk) /\ Len(Walk) \in Nat
    BY <2>1, LenProperties
  <2> QED
    BY <1>5, <2>2 DEF Lists
<1>7. \A f \in tree : Place(f) \in 1..Len(Walk) /\ Walk[Place(f)] = f
  BY <1>6 DEF Place
<1>8. PICK m, n \in 1..Len(Walk) : m = Place(left) /\ n = Place(right) /\ Walk[m] = left /\ Walk[n] = right
  BY <1>1, <1>7
<1>9. CASE m < n
  <2>1. GodotScanOrder(left, right) = -1
    BY <1>6, <1>8, <1>9
  <2> QED
    BY <1>8, <1>9, <2>1 DEF Sign
<1>10. CASE n < m
  <2>1. GodotScanOrder(right, left) = -1
    BY <1>6, <1>8, <1>10
  <2>2. left # right
    BY <1>8, <1>10
  <2>3. GodotScanOrder(left, right) = 1
    <3>1. GodotScanOrder(left, right) \in {-1, 1} /\ GodotScanOrder(right, left) = -GodotScanOrder(left, right)
      BY <1>1, <2>2, OrderIsStrict
    <3> QED
      BY <2>1, <3>1
  <2> QED
    BY <1>8, <1>10, <2>3 DEF Sign
<1>11. CASE m = n
  <2>1. left = right /\ GodotScanOrder(left, left) = 0
    BY <1>1, <1>8, <1>11, TreeFacts, OrderOfSame
  <2> QED
    BY <1>8, <1>11, <2>1 DEF Sign
<1> QED
  BY <1>6, <1>9, <1>10, <1>11

(* "The answer never depends on insertion order" (scan_order.rs): names    *)
(* are strictly ordered, and a file falls where the scan reaches it.       *)
THEOREM LastScannedDoesWin == OrderSpec => []LastScannedWins
<1>1. OrderInit /\ [OrderNext]_orderVars => OrderInit'
  BY DEF OrderInit, OrderNext, orderVars
<1>2. OrderInit => LastScannedWins
  BY AnyNamesAreOrdered, AnyWalkAgrees DEF LastScannedWins
<1> QED
  BY <1>1, <1>2, PTL DEF OrderSpec

=============================================================================
