----------------------------- MODULE MCContent -----------------------------
(***************************************************************************)
(* Instances of the components that read texts and files: open buffers,    *)
(* semantic tokens, scenes and uids, the order of the scan, and the bases  *)
(* of classes.  They do not read each other's state: a behaviour is a      *)
(* behaviour of one of them, its part, and the others stay where they      *)
(* start.                                                                  *)
(***************************************************************************)
EXTENDS Documents, TokenDeltas, Scenes, ScanOrder, Inheritance, TLC

CONSTANTS letter, emoji, ff  \* an ASCII letter, an emoji, a form feed
CONSTANTS g, x, y, u, v                                      \* a script, two scenes, uids

W8  == (letter :> 1) @@ (emoji :> 4) @@ (LF :> 1) @@ (CR :> 1) @@ (ff :> 1)
W16 == [W8 EXCEPT ![emoji] = 2]
W32 == [W8 EXCEPT ![emoji] = 1]
MCWidth == ("utf-8" :> W8) @@ ("utf-16" :> W16) @@ ("utf-32" :> W32)

(* Tokens out of order, on one start, of types the client does not render, *)
(* spanning lines; and arrays that are the head or the tail of another.    *)
Token(l, s, type) == [line |-> l, start |-> s, length |-> 1, type |-> type, tall |-> FALSE]
MCRaws == {<<>>,
  <<Token(0, 1, "var")>>,
  <<Token(0, 2, "var"), Token(0, 1, "var"), Token(0, 3, "var")>>,
  <<Token(0, 1, "var"), Token(0, 2, "var"), Token(1, 2, "type"), Token(0, 1, "type")>>,
  <<Token(1, 1, "other"), Token(0, 1, "var"), [Token(0, 2, "var") EXCEPT !.tall = TRUE],
    Token(2, 1, "var")>>}

(* Scenes that name a script by uid, by path, and each other both ways.    *)
SceneNode(script, sub) == [script |-> script, sub |-> sub]
MCSceneTexts == {[uid |-> None, nodes |-> <<SceneNode(u, None)>>],
               [uid |-> v, nodes |-> <<SceneNode(g, None), SceneNode(None, x)>>],
               [uid |-> v, nodes |-> <<SceneNode(u, v)>>]}

(* Names that mix dots, underscores, digits and cases, and the projects of *)
(* two to four files under three names.                                    *)
MCCode   == ("." :> 46) @@ ("0" :> 48) @@ ("1" :> 49) @@ ("A" :> 65) @@ ("_" :> 95) @@ ("a" :> 97)
MCUpper  == [c \in DOMAIN MCCode |-> IF c = "a" THEN "A" ELSE c]
MCDigits == ("0" :> 0) @@ ("1" :> 1)
MCNames == {<<c>> : c \in DOMAIN MCCode} \cup
  {<<"_", "_">>, <<"_", ".">>, <<".", "_">>, <<".", ".">>, <<"_", "a">>, <<"a", "_">>,
   <<"0", "1">>, <<"1", "a">>, <<"1", "A">>, <<"a", "1">>, <<"A", "0">>, <<"0", "0">>,
   <<"a", "0", "1", "a">>, <<"a", "1", "A">>}
Files == {<<n>> : n \in {<<"a">>, <<"A">>, <<"_">>}}
           \cup {<<n, m>> : n, m \in {<<"a">>, <<"_">>, <<"0">>}}
           \cup {<<<<"a">>, <<"a">>, n>> : n \in {<<"a">>, <<"_">>}}
IsTree(t) == \A f, h \in t : f # h => ~IsPrefix(f, h)
MCTrees == {t \in UNION {kSubset(k, Files) : k \in 2..4} : IsTree(t)}

(* The classes of one file, in all ways to nest three, with every clause   *)
(* over two of their names; and a file with one inner class beside another *)
(* file with one, with every kind of clause, with the natives and without. *)
Chain(names)         == [path |-> Nil, names |-> names]
OnFile(file, names)   == [path |-> file, names |-> names]
Near == {Nil, Chain(<<"A">>), Chain(<<"B">>), Chain(<<"A", "B">>), Chain(<<"B", "A">>)}
Far  == {Nil, Chain(<<>>), Chain(<<"X">>), Chain(<<"A">>), Chain(<<"R", "A">>),
         Chain(<<"Node">>), Chain(<<"Node", "X">>), Chain(<<"Input">>),
         Chain(<<"O">>), Chain(<<"O", "P">>), Chain(<<"O", "X">>), Chain(<<"O", "X", "X">>),
         Chain(<<"K">>), Chain(<<"K", "P">>), Chain(<<"V">>),
         OnFile("o", <<>>), OnFile("o", <<"P">>), OnFile("r", <<>>), OnFile(Missing, <<>>)}
Members(c) == [n \in {"R", "A", "B", "C", "O", "P", "X", "K", "V", "Node", "Input"} |->
                IF c = "r" /\ n = "K" THEN "o" ELSE IF c = "r" /\ n = "V" THEN Other ELSE Nil]

Project(order, outer, names, clauses, natives, dialect) ==
  [order |-> order, outer |-> outer, name |-> names, clause |-> clauses,
   member |-> [c \in DOMAIN outer |-> Members(c)],
   natives |-> natives, singletons |-> {"Input"}, dialect |-> dialect]

InFile ==
  {Project(<<"r", "a", "b", "c">>, outer,
     [r |-> Nil, a |-> "A", b |-> "B", c |-> IF outer.c = "b" THEN "A" ELSE "C"],
     clauses, {"Node"}, dialect) :
   outer \in [r : {Nil}, a : {"r"}, b : {"r", "a"}, c : {"r", "b"}],
   clauses \in [r : {Nil, Chain(<<"A">>)}, a : Near, b : Near, c : Near],
   dialect \in {"4.6", "4.7"}}
Across ==
  {Project(<<"r", "a">>, [r |-> Nil, a |-> "r", o |-> Nil, p |-> "o"],
     [r |-> "R", a |-> "A", o |-> "O", p |-> "P"], clauses, natives, "4.7") :
   clauses \in [r : Far, a : Far, o : {Nil, Chain(<<"R">>), Chain(<<"P">>), Chain(<<"Node">>)},
                p : {Nil, Chain(<<"R", "A">>)}],
   natives \in {{}, {"Node", "Input"}}}
MCProjects == InFile \cup Across
Plain == CHOOSE P \in Across : P.clause = [c \in DOMAIN P.clause |-> Nil]

VARIABLE part

DocsIdle   == Init /\ enc = "utf-16"
ScenesIdle == ScenesInit /\ \A r \in Scripts \cup Scenes : disk[r] = None
BasesIdle  == project = Plain /\ InheritInit
OrderIdle  == left = <<"a">> /\ right = <<"a">> /\ tree = {}

ContentInit ==
  \/ part = "documents" /\ TokensInit   /\ ScenesIdle /\ OrderIdle /\ BasesIdle /\ Init
  \/ part = "tokens"    /\ DocsIdle /\ ScenesIdle /\ OrderIdle /\ BasesIdle /\ TokensInit
  \/ part = "scenes"    /\ DocsIdle /\ TokensInit     /\ OrderIdle /\ BasesIdle /\ ScenesInit
  \/ part = "order"     /\ BasesIdle /\ DocsIdle /\ TokensInit     /\ ScenesIdle /\ OrderInit
  \/ part = "bases"     /\ DocsIdle /\ TokensInit     /\ ScenesIdle /\ OrderIdle /\ InheritInit

ContentNext ==
  /\ part' = part
  /\ \/ part = "documents" /\ Next /\ UNCHANGED <<tokenVars, sceneVars, orderVars, inheritVars>>
     \/ part = "tokens" /\ TokensNext /\ UNCHANGED <<vars, sceneVars, orderVars, inheritVars>>
     \/ part = "scenes" /\ ScenesNext /\ UNCHANGED <<vars, tokenVars, orderVars, inheritVars>>
     \/ part = "order" /\ OrderNext /\ UNCHANGED <<vars, tokenVars, sceneVars, inheritVars>>
     \/ part = "bases" /\ InheritNext /\ UNCHANGED <<vars, tokenVars, sceneVars, orderVars>>

ContentSpec ==
  ContentInit /\ [][ContentNext]_<<part, vars, tokenVars, sceneVars, orderVars, inheritVars>>
=============================================================================
