---------------------------- MODULE Inheritance ----------------------------
(***************************************************************************)
(* The inheritance pass of the analyzer over the classes of one file       *)
(* (crates/gd_analyze/src/resolver.rs), and the steps by which the same    *)
(* classes are followed over interfaces from any other file                *)
(* (script_chain.rs and its copies in enumerate.rs; class_parent of        *)
(* gd_server/src/handlers.rs).                                             *)
(*                                                                         *)
(* The pass visits the classes in source order and resolves the bases they *)
(* name on demand, so that a class may be looked at while it is being      *)
(* resolved itself: frames is that recursion.  Paths are absolute ones.    *)
(* Warnings, and the errors that do not end a visit, are left out.         *)
(***************************************************************************)
EXTENDS Naturals, Sequences, SequencesExt, FiniteSets

CONSTANTS
  Projects,  \* the classes of the analyzed file and of the files it may name:
             \* [outer, name, clause, member: functions of the classes,
             \*  order: the classes of the analyzed file in source order,
             \*  natives, singletons: sets of names, dialect]
  Implicit,  \* "RefCounted", the base of a class that names none
  Missing,   \* a path that leads nowhere
  Other,     \* a member that can be no base
  Nil

\* Classes nest, an inner class is a class of the file its outer class is in, and
\* a file has one head class.
ASSUME ProjectsAssumption ==
  \A P \in Projects :
    LET classes == DOMAIN P.outer
        own     == Range(P.order)
    IN  /\ IsFiniteSet(classes) /\ Nil \notin classes
        /\ P.outer \in [classes -> classes \cup {Nil}]
        /\ \E depth \in [classes -> 0..Cardinality(classes)] :
              \A c \in classes : P.outer[c] # Nil => depth[P.outer[c]] < depth[c]
        /\ P.clause \in [classes -> {Nil} \cup [path  : classes \cup {Nil, Missing},
                                               names : Seq(STRING)]]
        /\ P.order \in Seq(classes)
        /\ \A c \in classes : P.outer[c] # Nil => (c \in own <=> P.outer[c] \in own)
        /\ \A c, d \in own : P.outer[c] = Nil /\ P.outer[d] = Nil => c = d

VARIABLES
  project,
  base,     \* ctx.bases: class -> its base, Unset, or the sentinel Resolving
  root,     \* class -> the native_type of its own type
  frames,   \* the calls of resolve_class_inheritance, the innermost first
  next,     \* the place of the class the driver visits, in the order
  failed    \* an error ended a visit

inheritVars == <<project, base, root, frames, next, failed>>

Classes == DOMAIN project.outer
Own     == Range(project.order)
Heads   == {c \in Classes : project.outer[c] = Nil}

\* A clause is Nil, or a path (a head class, Missing, or Nil without one) and
\* the names that follow.
Clause(c) == project.clause[c]

Unset     == [kind |-> "unset", of |-> Nil]
Resolving == [kind |-> "resolving", of |-> Nil]
Unknown   == [kind |-> "unknown", of |-> Nil]
Failure   == [kind |-> "error", of |-> Nil]
Native(n) == [kind |-> "native", of |-> n]
Class(c)  == [kind |-> "class", of |-> c]
Script(c) == IF c = Nil THEN Unknown ELSE [kind |-> "script", of |-> c]

(***************************************************************************)
(* Names.                                                                  *)
(***************************************************************************)
OneOf(S) == IF S = {} THEN Nil ELSE CHOOSE c \in S : TRUE

\* inner_class_named, and one link of resolve_inner_chain.
Inner(c, n) == OneOf({d \in Classes : project.outer[d] = c /\ project.name[d] = n})

\* resolve_inner_chain, iface_at_inner: the class a list of names leads to.
Along(c, names) ==
  LET walk[at \in (Classes \cup {Nil}) \X Seq(STRING)] ==
        IF at[1] = Nil \/ at[2] = <<>> THEN at[1]
        ELSE walk[<<Inner(at[1], Head(at[2])), Tail(at[2])>>]
  IN  walk[<<c, names>>]

\* global_class_file, as the head class of the file.
Global(n) == OneOf({c \in Heads : project.name[c] = n})

\* The head class of a class's file; a class and those around it.
FileOf[c \in Classes] == IF c \in Heads THEN c ELSE FileOf[project.outer[c]]
Around[c \in Classes] == {c} \cup IF c \in Heads THEN {} ELSE Around[project.outer[c]]

(***************************************************************************)
(* Over interfaces.                                                        *)
(***************************************************************************)
\* Mutant: a dotted name is followed through the file of its first.
LinkHead(c, names) ==
  IF names # <<>> /\ Global(Head(names)) # Nil THEN Script(Global(Head(names))) ELSE Unknown

\* The names of a clause without a path.
LinkNamed(c, names) ==
  LET first == Head(names)
  IN  IF names = <<>> THEN Unknown
      ELSE IF Global(first) # Nil THEN Script(Along(Global(first), Tail(names)))
      ELSE IF first \notin project.natives THEN Script(Along(FileOf[c], names))
      ELSE IF Len(names) = 1 THEN Native(first) ELSE Unknown

\* step of script_chain.rs.  A path leads to the head class of the file, whatever
\* names follow it.
Step(c) ==
  IF Clause(c) = Nil THEN Native(Implicit)
  ELSE IF Clause(c).path = Nil THEN LinkNamed(c, Clause(c).names)
  ELSE IF Clause(c).path = Missing THEN Unknown ELSE Script(Clause(c).path)

\* class_parent of handlers.rs.
ClassParent(c) ==
  IF Clause(c) = Nil THEN Native(Implicit)
  ELSE IF Clause(c).path = Nil THEN LinkNamed(c, Clause(c).names)
  ELSE IF Clause(c).path = Missing THEN Unknown
  ELSE Script(Along(Clause(c).path, Clause(c).names))

\* walk of script_chain.rs: the native class the steps end in.
ChainRoot(start) ==
  LET walk[c \in Classes, visited \in SUBSET Classes] ==
        IF c \notin visited /\ Step(c).kind = "script" THEN walk[Step(c).of, visited \cup {c}]
        ELSE IF c \notin visited /\ Step(c).kind = "native" THEN Step(c).of ELSE "unknown"
  IN  walk[start, {}]

(***************************************************************************)
(* In the file.                                                            *)
(***************************************************************************)
BaseClass(c) == IF c \in Own /\ base[c].kind = "class" THEN base[c].of ELSE Nil

\* scope_classes: a class, then its base and the class around it, each with theirs.
Scope(c) ==
  LET walk[at \in Seq(Classes \cup {Nil}) \X Seq(Classes)] ==
        LET stack == at[1]
            out   == at[2]
            top   == Head(stack)
        IN  IF stack = <<>> THEN out
            ELSE IF top = Nil \/ top \in Range(out) THEN walk[<<Tail(stack), out>>]
            ELSE walk[<<<<BaseClass(top), project.outer[top]>> \o Tail(stack), Append(out, top)>>]
  IN  walk[<<<<c>>, <<>>>>]

Named(c, n) == project.name[c] = n \/ Inner(c, n) # Nil \/ project.member[c][n] # Nil

\* resolve_extends_in_scope: the first class in scope that has the name, as its
\* own or as a member's.  Left out is a constant that is another name of a class
\* of the file (const K = Inner), which the code takes for that class: here a
\* constant is a preloaded script or no base.
InScope(c, n) ==
  LET scope == Scope(c)
      hits  == {i \in 1..Len(scope) : scope[i] \in Own /\ Named(scope[i], n)}
      at    == scope[Min(hits)]
  IN  IF hits = {} THEN IF project.natives = {} THEN Native(n) ELSE Failure
      ELSE IF project.name[at] = n THEN Class(at)
      ELSE IF Inner(at, n) # Nil THEN Class(Inner(at, n))
      ELSE IF project.member[at][n] = Other THEN Failure
      ELSE Script(project.member[at][n])

\* The head of a clause: a path, a class_name, a native class, a name in scope.
Headed(c) ==
  LET n == Head(Clause(c).names)
  IN  IF Clause(c).path = Missing THEN Failure
      ELSE IF Clause(c).path # Nil THEN Script(Clause(c).path)
      ELSE IF Clause(c).names = <<>> THEN Failure
      ELSE IF Global(n) # Nil
           THEN IF Global(n) \in Own THEN Class(Global(n)) ELSE Script(Global(n))
      ELSE IF n \notin project.natives THEN InScope(c, n)
      ELSE IF n \in project.singletons THEN Failure ELSE Native(n)

\* A segment below what the names before it led to.
Nested(at, n) ==
  IF at.kind = "script" THEN Script(Inner(at.of, n))
  ELSE IF at.kind = "class" /\ Inner(at.of, n) # Nil THEN Class(Inner(at.of, n))
  ELSE Failure

\* The native_type of the type a clause led to, as it is now.
RootOf(at) ==
  CASE at.kind = "class"   -> root[at.of]
    [] at.kind = "script"  -> ChainRoot(at.of)
    [] at.kind = "native"  -> at.of
    [] at.kind = "unknown" -> "unknown"

\* Mutant: only a class that is its own base is cyclic.
LeadsHome(d, c) == d = c

\* walks_back_to: the bases lead from d to c.  The code follows them one by one,
\* and nothing but their end stops it.
LeadsTo(d, c) ==
  \A S \in SUBSET Own :
    (d \in S /\ \A e \in S : base[e].kind = "class" => base[e].of \in S) => c \in S

(***************************************************************************)
(* The pass.                                                               *)
(***************************************************************************)
InheritInit ==
  /\ project \in Projects
  /\ base = [c \in Own |-> Unset] /\ root = [c \in Own |-> "unknown"]
  /\ frames = <<>> /\ next = 1 /\ failed = FALSE

End == Len(project.order) + 1

\* A class is entered, above the calls that wait for it.  From now on it has a
\* type, though the root of that is not known yet.
Frame(c) ==
  IF Clause(c) = Nil THEN [class |-> c, at |-> Native(Implicit), names |-> <<>>]
  ELSE [class |-> c, at |-> Unset, names |-> Clause(c).names]

Enter(c, calls) ==
  /\ base' = [base EXCEPT ![c] = Resolving]
  /\ frames' = <<Frame(c)>> \o calls
  /\ UNCHANGED <<project, root, next, failed>>

\* The place behind a class and its inner classes.
Behind(i) == Min({k \in (i + 1)..End : k = End \/ project.order[i] \notin Around[project.order[k]]})

\* An error returns through all frames to the driver, and leaves their classes
\* with the sentinel.  Godot 4.6 ends the pass, 4.7 goes on behind the class
\* that was visited.
Fail ==
  /\ failed' = TRUE /\ frames' = <<>>
  /\ next' = IF project.dialect = "4.6" THEN End ELSE Behind(next)
  /\ UNCHANGED <<project, base, root>>

\* resolve_class_inheritance_recursive at the next class.
Visit ==
  /\ frames = <<>> /\ next < End
  /\ LET c == project.order[next]
     IN  \/ base[c] = Unset /\ Enter(c, <<>>)
         \/ base[c] = Resolving /\ Fail
         \/ /\ base[c] \notin {Unset, Resolving}
            /\ next' = next + 1 /\ UNCHANGED <<project, base, root, frames, failed>>

\* The innermost clause has led to at, and rest of its names are left.  A class
\* of the file that has no type yet is resolved first.
Advance(at, rest) ==
  LET calls == <<[class |-> Head(frames).class, at |-> at, names |-> rest]>> \o Tail(frames)
  IN  IF at = Failure THEN Fail
      ELSE IF at.kind = "class" /\ base[at.of] = Unset THEN Enter(at.of, calls)
      ELSE frames' = calls /\ UNCHANGED <<project, base, root, next, failed>>

\* resolve_extends, the head of the clause.
Look ==
  /\ frames # <<>> /\ Head(frames).at = Unset
  /\ LET clause == Clause(Head(frames).class)
     IN  Advance(Headed(Head(frames).class),
                 IF clause.path = Nil /\ clause.names # <<>> THEN Tail(clause.names)
                 ELSE clause.names)

\* resolve_extends_segments, one name.
Nest ==
  /\ frames # <<>> /\ Head(frames).at # Unset /\ Head(frames).names # <<>>
  /\ Advance(Nested(Head(frames).at, Head(Head(frames).names)), Tail(Head(frames).names))

\* The end of resolve_class_inheritance, where a base that leads back is refused.
Finish ==
  /\ frames # <<>> /\ Head(frames).at # Unset /\ Head(frames).names = <<>>
  /\ LET c  == Head(frames).class
         at == Head(frames).at
     IN  IF at.kind = "class" /\ LeadsTo(at.of, c) THEN Fail
         ELSE /\ base' = [base EXCEPT ![c] = at]
              /\ root' = [root EXCEPT ![c] = RootOf(at)]
              /\ frames' = Tail(frames)
              /\ next' = IF Tail(frames) = <<>> THEN next + 1 ELSE next
              /\ UNCHANGED <<project, failed>>

InheritNext == Visit \/ Look \/ Nest \/ Finish
InheritSpec == InheritInit /\ [][InheritNext]_inheritVars

(***************************************************************************)
(* Properties.                                                             *)
(***************************************************************************)
Clean == frames = <<>> /\ next = End /\ ~failed

Settled(c) == base[c] \notin {Unset, Resolving}

\* The bases never lead in a circle, not even for a moment.
ChainsEnd ==
  \A S \in SUBSET Own :
    S # {} => \E c \in S : base[c].kind = "class" => base[c].of \notin S

\* A native root was copied from the base when the class was done, and is still
\* the base's.
RootsHold ==
  \A c \in Own : base[c].kind = "class" /\ root[c] # "unknown" => root[c] = root[base[c].of]

\* A pass without an error has left no class out.
CleanIsComplete == Clean => \A c \in Own : Settled(c)

\* A base chain is followed by loops that nothing but its end stops
\* (walks_back_to), over classes that are resolved on demand, in each other's
\* midst and across errors; the file's types, and the walks of every later pass,
\* rest on it.
BasesSound == ChainsEnd /\ RootsHold /\ CleanIsComplete

\* The first name of a clause means nothing nearer than the file's own classes.
Unshadowed(c) ==
  \A s \in Range(Scope(c)) \ Heads : Clause(c).names = <<>> \/ ~Named(s, Head(Clause(c).names))

\* Whoever follows a class over its interface (lookups through other files,
\* renames of an override) comes to the base the class's own file gives it, or
\* is told that it is unknown.
Agrees(link, c) == link = Unknown \/ link.of = base[c].of
LinksAgree ==
  Clean => \A c \in Own : Clause(c) = Nil \/ Unshadowed(c) =>
    /\ Agrees(ClassParent(c), c)
    /\ Clause(c) = Nil \/ Clause(c).path = Nil \/ Clause(c).names = <<>> => Agrees(Step(c), c)

\* script_chain.rs:14-16: a cycle over several files "pushes no diagnostic here:
\* the offending file gets its own `Cyclic inheritance.` when ITS analysis runs".
NextOf(c) == IF c \in Own THEN base[c] ELSE Step(c)
CyclesReported ==
  Clean => \A S \in SUBSET Classes :
    S # {} => \E c \in S : NextOf(c).kind \in {"class", "script"} => NextOf(c).of \notin S
=============================================================================
