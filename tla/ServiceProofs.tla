---------------------------- MODULE ServiceProofs ---------------------------
(***************************************************************************)
(* What the server's requests to the client and its memory ladder owe      *)
(* their users, for every number of changes, ids and messages on the wire, *)
(* and every window, budget and history of readings.                       *)
(***************************************************************************)
EXTENDS Outbound, MemoryLadder, TLAPS

(***************************************************************************)
(* The memory ladder.                                                      *)
(***************************************************************************)
\* RefusesLast is not inductive: a level that rises from soft to hard evicts
\* nothing, and relies on the soft rung having done so.
Levels == {"normal", "soft", "hard"}
LadderInv == level \in Levels /\ (level # "normal" => shed)

(* A reaction finds the caches shed, or sheds them.                        *)
LEMMA ReactInv ==
  ASSUME LadderInv, NEW window, React(window)
  PROVE  LadderInv'
<1>1. level' = Pressure(window) /\ level' \in Levels
  BY DEF React, Pressure, Levels
<1>2. ASSUME level' # "normal" PROVE shed'
  <2>1. CASE level = level'
    BY <1>1, <1>2, <2>1 DEF LadderInv, React
  <2>2. CASE level # level' /\ level = "normal"
    BY <1>1, <1>2, <2>2 DEF React, Evicts, Levels
  <2>3. CASE level # level' /\ level # "normal"
    BY <1>1, <1>2, <2>3 DEF LadderInv, React
  <2> QED
    BY <2>1, <2>2, <2>3
<1> QED
  BY <1>1, <1>2 DEF LadderInv

(* No request is refused for memory by a session that has not first given  *)
(* up cache entries, wherever the level came from.                         *)
THEOREM RefusalComesLast == LadderSpec => []RefusesLast
<1>1. LadderInit => LadderInv
  BY DEF LadderInit, LadderInv, Levels
<1>2. LadderInv /\ [LadderNext]_ladderVars => LadderInv'
  <2> SUFFICES ASSUME LadderInv, [LadderNext]_ladderVars PROVE LadderInv'
    OBVIOUS
  <2>1. CASE Tick
    BY <2>1, ReactInv DEF Tick
  <2>2. CASE FailedTick
    BY <2>2, ReactInv DEF FailedTick
  <2>3. CASE Sample \/ Configure \/ Breathe \/ UNCHANGED ladderVars
    BY <2>3 DEF Sample, Configure, Breathe, ladderVars, LadderInv
  <2> QED
    BY <2>1, <2>2, <2>3 DEF LadderNext
<1>3. LadderInv => RefusesLast
  BY DEF LadderInv, RefusesLast
<1> QED
  BY <1>1, <1>2, <1>3, PTL DEF LadderSpec

(***************************************************************************)
(* The wires.                                                              *)
(***************************************************************************)
Body == Section \cup {Bad, None}
ToServer == {"changed", "request", "created", "error", "section"}
ToClient == {"pull", "create", "begin", "report", "end", "reply"}
MessageOf(kinds) == [kind : kinds, id : 0..MaxIds, body : Body]
Wire(kinds) == Seq(MessageOf(kinds))
States == {"unknown", "offered", "refused", "spinning", "stopped", "over"}

WireTypes ==
  /\ caps \subseteq {"pull", "show"}
  /\ settings \in Body /\ changes \in Nat /\ options \in [Groups -> Values]
  /\ toServer \in Wire(ToServer) /\ forward \in Wire({"changed", "request", "error", "section"})
  /\ toClient \in Wire(ToClient) /\ answering \in Wire({"error", "section"})
  /\ outbound \subseteq Ids /\ creates \subseteq Ids /\ poisoned \subseteq Ids
  /\ ids \in 0..MaxIds /\ refused \in BOOLEAN
  /\ arc \in Reporters \cup {None}
  /\ spinner \in [Ids -> States]
  /\ \A i \in 1..Len(toClient) : toClient[i].id \in Ids

(* The ids of a wire's messages of some kinds, and that none comes twice.  *)
Of(q, kinds) == {i \in 1..Len(q) : q[i].kind \in kinds}
IdsOf(q, kinds) == {q[i].id : i \in Of(q, kinds)}
Distinct(q, kinds) == \A i, j \in Of(q, kinds) : i # j => q[i].id # q[j].id

(* Where a pull, a creation or its answer is: each is in one place.  A pull *)
(* without an answer is somewhere on its way.                               *)
Dues == {"pull", "create", "created", "error", "section"}
Owed(q) == IdsOf(q, Dues)

OwedInv ==
  /\ outbound \cap creates = {} /\ outbound \cup creates \subseteq 1..ids
  /\ IdsOf(toClient, {"pull"}) \subseteq outbound
       /\ IdsOf(toClient, {"create"}) \subseteq creates
  /\ IdsOf(toServer, {"created"}) \subseteq creates
  /\ IdsOf(toServer, {"section"}) \cup Owed(answering) \cup Owed(forward) \subseteq outbound
  /\ Owed(toServer) \subseteq outbound \cup creates
  /\ Distinct(toClient, Dues) /\ Distinct(toServer, Dues)
  /\ Distinct(answering, Dues) /\ Distinct(forward, Dues)
  /\ Owed(toClient) \cap (Owed(toServer) \cup Owed(answering) \cup Owed(forward)) = {}
  /\ Owed(toServer) \cap (Owed(answering) \cup Owed(forward)) = {}
  /\ Owed(answering) \cap Owed(forward) = {}
  /\ outbound \subseteq Owed(toClient) \cup Owed(toServer) \cup Owed(answering)
       \cup Owed(forward)

(***************************************************************************)
(* The settings: the server has them, or the last thing under way will     *)
(* bring them.                                                             *)
(***************************************************************************)
Matches ==
  settings \in Section => \A g \in Groups : settings[g] # None => options[g] = settings[g]

(* The last message of q in M is in G.                                     *)
At(q, M) == {i \in 1..Len(q) : q[i] \in M}
EndsIn(q, M, G) == \E i \in At(q, M) : q[i] \in G /\ \A k \in At(q, M) : k <= i

Messages == MessageOf(ToServer)
Answers == {m \in Messages : m.kind \in {"section", "error"} /\ m.id \in outbound}
Good == {m \in Messages : m.kind = "error" \/ m.body = settings}
Changes == {m \in Messages : m.kind = "changed"}
Telling == {m \in Messages : m.body = settings}

(* Along the two wires s and f to the server: the last message in M is in  *)
(* G, or no message is in M.                                               *)
Pipe(s, f, M, G) == EndsIn(s, M, G) \/ (At(s, M) = {} /\ EndsIn(f, M, G))
Dry(s, f, M) == At(s, M) = {} /\ At(f, M) = {}

Pulling ==
  \/ ~Dry(toServer, forward, Changes) \/ IdsOf(toClient, {"pull"}) # {}
  \/ answering # <<>> /\ answering[Len(answering)] \in Good
  \/ answering = <<>> /\ Pipe(toServer, forward, Answers, Good)
  \/ answering = <<>> /\ Dry(toServer, forward, Answers) /\ (refused \/ Matches)

Pushing ==
  \/ Pipe(toServer, forward, Changes, Telling)
  \/ Dry(toServer, forward, Changes) /\ Matches

ConfigInv ==
  /\ "pull" \notin caps => outbound = {}
  /\ changes > 0 => IF "pull" \in caps THEN Pulling ELSE Pushing

(***************************************************************************)
(* Progress: what the client has heard of a token fits what it hears next, *)
(* and the messages of a token follow each other.                          *)
(***************************************************************************)
Fits(state, kind) ==
  \/ kind = "create" /\ state = "unknown"
  \/ kind = "begin" /\ state \in {"offered", "refused"}
  \/ kind \in {"report", "end"} /\ state \in {"spinning", "refused"}
  \/ kind = "reply" /\ state \in {"offered", "stopped"}
Follows(kind, earlier) ==
  \/ kind = "begin" /\ earlier = "create"
  \/ kind \in {"report", "end"} /\ earlier \in {"begin", "report"}
  \/ kind = "reply" /\ earlier = "end"

Tokens(c) == {i \in 1..Len(c) : c[i].kind # "pull"}
Silent(c, x) == \A i \in Tokens(c) : c[i].id # x
Earliest(c, j) == \A i \in Tokens(c) : i < j => c[i].id # c[j].id
Latest(c, i) == \A k \in Tokens(c) : i < k => c[k].id # c[i].id
Adjacent(c, i, j) ==
  /\ i < j /\ c[i].id = c[j].id
  /\ \A k \in Tokens(c) : i < k /\ k < j => c[k].id # c[i].id

Orderly(c, s) ==
  /\ \A j \in Tokens(c) : Earliest(c, j) => Fits(s[c[j].id], c[j].kind)
  /\ \A i, j \in Tokens(c) : Adjacent(c, i, j) => Follows(c[j].kind, c[i].kind)
  /\ \A j \in Tokens(c) : c[j].kind = "reply" => s[c[j].id] \notin {"unknown", "refused"}

(* The last message of token x on the wire, or else its state.             *)
Stands(c, s, x, kinds, states) ==
  /\ \A i \in Tokens(c) : c[i].id = x /\ Latest(c, i) => c[i].kind \in kinds
  /\ Silent(c, x) => s[x] \in states

(* Where the reporter's token stands, and those of the ones that returned. *)
ArcInv ==
  arc # None =>
    /\ arc.ended => arc.begun
    /\ arc.asked => spinner[arc.id] \notin {"unknown", "refused"}
    /\ ~arc.begun /\ arc.asked => Silent(toClient, arc.id) /\ spinner[arc.id] = "offered"
    /\ ~arc.begun /\ ~arc.asked =>
         Stands(toClient, spinner, arc.id, {"create"}, {"offered", "refused"})
    /\ arc.begun /\ ~arc.ended =>
         Stands(toClient, spinner, arc.id, {"begin", "report"}, {"spinning", "refused"})
    /\ arc.ended => \/ Stands(toClient, spinner, arc.id, {"end"}, {"stopped", "refused"})
                    \/ spinner[arc.id] = "refused"

RestInv ==
  \A x \in Ids : arc = None \/ x # arc.id =>
    \/ Stands(toClient, spinner, x, {"create", "end", "reply"}, States \ {"spinning"})
    \/ spinner[x] = "refused"

(* A request on its way has a token that nobody has said anything of.      *)
Asking == IdsOf(toServer, {"request"}) \cup IdsOf(forward, {"request"})
RequestInv ==
  /\ Distinct(toServer, {"request"}) /\ Distinct(forward, {"request"})
  /\ IdsOf(toServer, {"request"}) \cap IdsOf(forward, {"request"}) = {}
  /\ Asking \subseteq 1..ids
  /\ \A x \in Asking : Silent(toClient, x) /\ spinner[x] = "offered"
  /\ arc # None => arc.id \notin Asking

TokenInv ==
  /\ \A i \in 1..Len(toClient) : toClient[i].id <= ids
  /\ \A x \in Ids : spinner[x] # "unknown" => x <= ids
  /\ arc # None => arc.id <= ids
  /\ \A x \in poisoned \cup (IdsOf(toServer, {"error"}) \cap creates) : spinner[x] = "refused"

ProgressInv == Orderly(toClient, spinner) /\ ArcInv /\ RestInv /\ RequestInv /\ TokenInv
OutInv == WireTypes /\ OwedInv /\ ConfigInv /\ ProgressInv

-----------------------------------------------------------------------------
(* A message at the end of a wire, and one taken from its head.            *)
LEMMA AppendIs ==
  ASSUME NEW T, NEW q \in Seq(T), NEW m \in T
  PROVE  /\ Append(q, m) \in Seq(T) /\ Len(Append(q, m)) = Len(q) + 1 /\ Len(q) \in Nat
         /\ Append(q, m)[Len(q) + 1] = m
         /\ \A i \in 1..Len(q) : Append(q, m)[i] = q[i]
OBVIOUS

LEMMA TailIs ==
  ASSUME NEW T, NEW q \in Seq(T), q # <<>>
  PROVE  /\ Tail(q) \in Seq(T) /\ Len(Tail(q)) = Len(q) - 1 /\ Len(Tail(q)) \in Nat
         /\ Head(q) = q[1] /\ Head(q) \in T
         /\ \A i \in 1..Len(Tail(q)) : Tail(q)[i] = q[i + 1]
OBVIOUS

LEMMA OfAppend ==
  ASSUME NEW T, NEW q \in Seq(T), NEW m \in T, NEW kinds
  PROVE  Of(Append(q, m), kinds) =
           Of(q, kinds) \cup (IF m.kind \in kinds THEN {Len(q) + 1} ELSE {})
<1> DEFINE r == Append(q, m)
<1>1. /\ Len(r) = Len(q) + 1 /\ Len(q) \in Nat /\ r[Len(q) + 1] = m
      /\ \A i \in 1..Len(q) : r[i] = q[i]
  BY AppendIs
<1>2. \A i : i \in 1..Len(r) <=> i \in 1..Len(q) \/ i = Len(q) + 1
  BY <1>1
<1> HIDE DEF r
<1>3. \A i : i \in Of(r, kinds) <=> i \in Of(q, kinds) \/ (i = Len(q) + 1 /\ m.kind \in kinds)
  BY <1>1, <1>2 DEF Of
<1> QED
  BY <1>3 DEF r

LEMMA IdsAppend ==
  ASSUME NEW T, NEW q \in Seq(T), NEW m \in T, NEW kinds
  PROVE  /\ IdsOf(Append(q, m), kinds) =
              IdsOf(q, kinds) \cup (IF m.kind \in kinds THEN {m.id} ELSE {})
         /\ Distinct(q, kinds) /\ (m.kind \in kinds => m.id \notin IdsOf(q, kinds)) =>
              Distinct(Append(q, m), kinds)
<1> DEFINE r == Append(q, m)
<1>1. Len(q) \in Nat /\ r[Len(q) + 1] = m /\ \A i \in 1..Len(q) : r[i] = q[i]
  BY AppendIs
<1>2. Of(r, kinds) = Of(q, kinds) \cup (IF m.kind \in kinds THEN {Len(q) + 1} ELSE {})
  BY OfAppend
<1>3. \A i \in Of(q, kinds) : i \in 1..Len(q) /\ r[i] = q[i] /\ i # Len(q) + 1
  BY <1>1 DEF Of
<1> HIDE DEF r
<1>4. IdsOf(r, kinds) = IdsOf(q, kinds) \cup (IF m.kind \in kinds THEN {m.id} ELSE {})
  BY <1>1, <1>2, <1>3 DEF IdsOf
<1>5. ASSUME Distinct(q, kinds), m.kind \in kinds => m.id \notin IdsOf(q, kinds),
             NEW i \in Of(r, kinds), NEW j \in Of(r, kinds), i # j
      PROVE  r[i].id # r[j].id
  <2>1. CASE i \in Of(q, kinds) /\ j \in Of(q, kinds)
    BY <1>3, <1>5, <2>1 DEF Distinct
  <2>2. CASE i \in Of(q, kinds) /\ j \notin Of(q, kinds)
    BY <1>1, <1>2, <1>3, <1>5, <2>2 DEF IdsOf
  <2>3. CASE i \notin Of(q, kinds) /\ j \in Of(q, kinds)
    BY <1>1, <1>2, <1>3, <1>5, <2>3 DEF IdsOf
  <2> QED
    BY <1>2, <1>5, <2>1, <2>2, <2>3
<1> QED
  BY <1>4, <1>5 DEF Distinct, r

LEMMA IdsTail ==
  ASSUME NEW T, NEW q \in Seq(T), q # <<>>, NEW kinds
  PROVE  /\ IdsOf(q, kinds) =
              IdsOf(Tail(q), kinds) \cup (IF Head(q).kind \in kinds THEN {Head(q).id} ELSE {})
         /\ Distinct(q, kinds) =>
              /\ Distinct(Tail(q), kinds)
              /\ Head(q).kind \in kinds => Head(q).id \notin IdsOf(Tail(q), kinds)
<1> DEFINE r == Tail(q)
<1>1. /\ Len(r) = Len(q) - 1 /\ Len(r) \in Nat /\ Len(q) \in Nat /\ Head(q) = q[1]
      /\ \A i \in 1..Len(r) : r[i] = q[i + 1]
  BY TailIs
<1> HIDE DEF r
<1>2. \A i \in Of(r, kinds) : i \in Nat /\ i + 1 \in Of(q, kinds) /\ r[i] = q[i + 1]
          /\ i + 1 # 1
  BY <1>1 DEF Of
<1>3. \A i \in Of(q, kinds) : i # 1 => i - 1 \in Of(r, kinds) /\ r[i - 1] = q[i]
  <2> TAKE i \in Of(q, kinds)
  <2> HAVE i # 1
  <2>1. i - 1 \in 1..Len(r) /\ (i - 1) + 1 = i
    BY <1>1 DEF Of
  <2> QED
    BY <1>1, <2>1 DEF Of
<1>4. 1 \in Of(q, kinds) <=> Head(q).kind \in kinds
  BY <1>1 DEF Of
<1>5. IdsOf(q, kinds) = IdsOf(r, kinds) \cup (IF Head(q).kind \in kinds THEN {Head(q).id}
          ELSE {})
  <2>1. \A x \in IdsOf(q, kinds) :
          x \in IdsOf(r, kinds) \/ (Head(q).kind \in kinds /\ x = Head(q).id)
    BY <1>1, <1>3, <1>4 DEF IdsOf
  <2>2. \A x \in IdsOf(r, kinds) : x \in IdsOf(q, kinds)
    BY <1>2 DEF IdsOf
  <2>3. Head(q).kind \in kinds => Head(q).id \in IdsOf(q, kinds)
    BY <1>1, <1>4 DEF IdsOf
  <2> QED
    BY <2>1, <2>2, <2>3
<1>6. ASSUME Distinct(q, kinds) PROVE Distinct(r, kinds)
  BY <1>2, <1>6 DEF Distinct
<1>7. ASSUME Distinct(q, kinds), Head(q).kind \in kinds PROVE Head(q).id \notin IdsOf(r, kinds)
  <2>1. 1 \in Of(q, kinds) /\ Head(q) = q[1]
    BY <1>1, <1>4, <1>7
  <2>2. ASSUME NEW i \in Of(r, kinds) PROVE r[i].id # Head(q).id
    <3>1. i + 1 \in Of(q, kinds) /\ r[i] = q[i + 1] /\ 1 # i + 1
      BY <1>2
    <3> QED
      BY <1>7, <2>1, <3>1 DEF Distinct
  <2> QED
    BY <2>2 DEF IdsOf
<1> QED
  BY <1>5, <1>6, <1>7 DEF r

(* The messages of a wire that are in a set.                               *)
LEMMA AtAppend ==
  ASSUME NEW T, NEW q \in Seq(T), NEW m \in T, NEW M, NEW G
  PROVE  /\ At(Append(q, m), M) = At(q, M) \cup (IF m \in M THEN {Len(q) + 1} ELSE {})
         /\ m \in M /\ m \in G => EndsIn(Append(q, m), M, G)
         /\ m \notin M /\ EndsIn(q, M, G) => EndsIn(Append(q, m), M, G)
<1> DEFINE r == Append(q, m)
<1>1. /\ Len(r) = Len(q) + 1 /\ Len(q) \in Nat /\ r[Len(q) + 1] = m
      /\ \A i \in 1..Len(q) : r[i] = q[i]
  BY AppendIs
<1>2. \A i : i \in 1..Len(r) <=> i \in 1..Len(q) \/ i = Len(q) + 1
  BY <1>1
<1> HIDE DEF r
<1>3. \A i : i \in At(r, M) <=> i \in At(q, M) \/ (i = Len(q) + 1 /\ m \in M)
  BY <1>1, <1>2 DEF At
<1>4. \A i \in At(q, M) : i \in 1..Len(q) /\ r[i] = q[i] /\ i <= Len(q) + 1
  BY <1>1 DEF At
<1>5. m \in M /\ m \in G => EndsIn(r, M, G)
  BY <1>1, <1>3, <1>4 DEF EndsIn
<1>6. m \notin M /\ EndsIn(q, M, G) => EndsIn(r, M, G)
  BY <1>3, <1>4 DEF EndsIn
<1> QED
  BY <1>3, <1>5, <1>6 DEF r

LEMMA AtTail ==
  ASSUME NEW T, NEW q \in Seq(T), q # <<>>, NEW M, NEW G
  PROVE  /\ At(q, M) = {} => At(Tail(q), M) = {} /\ Head(q) \notin M
         /\ EndsIn(q, M, G) =>
              \/ EndsIn(Tail(q), M, G)
              \/ At(Tail(q), M) = {} /\ Head(q) \in M /\ Head(q) \in G
         /\ Head(q) \notin M /\ At(q, M) # {} => At(Tail(q), M) # {}
<1> DEFINE r == Tail(q)
<1>1. /\ Len(r) = Len(q) - 1 /\ Len(r) \in Nat /\ Len(q) \in Nat /\ Head(q) = q[1]
      /\ \A i \in 1..Len(r) : r[i] = q[i + 1]
  BY TailIs
<1> HIDE DEF r
<1>2. \A i \in At(r, M) : i \in Nat /\ i >= 1 /\ i + 1 \in At(q, M) /\ r[i] = q[i + 1]
  BY <1>1 DEF At
<1>3. \A i \in At(q, M) : i \in Nat /\ (i # 1 => i - 1 \in At(r, M) /\ r[i - 1] = q[i])
  <2> TAKE i \in At(q, M)
  <2>1. i \in Nat
    BY DEF At
  <2>2. i # 1 => i - 1 \in 1..Len(r) /\ (i - 1) + 1 = i
    BY <1>1 DEF At
  <2> QED
    BY <1>1, <2>1, <2>2 DEF At
<1>4. 1 \in At(q, M) <=> Head(q) \in M
  BY <1>1 DEF At
<1>5. ASSUME EndsIn(q, M, G)
      PROVE  EndsIn(r, M, G) \/ (At(r, M) = {} /\ Head(q) \in M /\ Head(q) \in G)
  <2>1. PICK i \in At(q, M) : q[i] \in G /\ \A k \in At(q, M) : k <= i
    BY <1>5 DEF EndsIn
  <2>2. CASE i = 1
    <3>1. ASSUME NEW k \in At(r, M) PROVE FALSE
      <4>1. k + 1 <= 1 /\ k \in Nat /\ k >= 1
        BY <1>2, <2>1, <2>2
      <4> QED
        BY <4>1
    <3> QED
      BY <1>1, <1>4, <2>1, <2>2, <3>1
  <2>3. CASE i # 1
    <3>1. i - 1 \in At(r, M) /\ r[i - 1] \in G
      BY <1>3, <2>1, <2>3
    <3>2. \A k \in At(r, M) : k <= i - 1
      BY <1>2, <1>3, <2>1
    <3> QED
      BY <3>1, <3>2 DEF EndsIn
  <2> QED
    BY <2>2, <2>3
<1>6. At(q, M) = {} => At(r, M) = {} /\ Head(q) \notin M
  BY <1>2, <1>4
<1>7. Head(q) \notin M /\ At(q, M) # {} => At(r, M) # {}
  BY <1>3, <1>4
<1> QED
  BY <1>5, <1>6, <1>7 DEF r

(* Two sets that agree on a wire's messages.                               *)
LEMMA AtSame ==
  ASSUME NEW q, NEW M, NEW N, NEW G, NEW H,
         \A i \in 1..Len(q) : (q[i] \in M <=> q[i] \in N) /\ (q[i] \in G <=> q[i] \in H)
  PROVE  At(q, M) = At(q, N) /\ (EndsIn(q, M, G) <=> EndsIn(q, N, H))
<1>1. At(q, M) = At(q, N)
  BY DEF At
<1>2. \A i \in At(q, M) : q[i] \in G <=> q[i] \in H
  BY DEF At
<1> QED
  BY <1>1, <1>2 DEF EndsIn

LEMMA EndsNonEmpty ==
  ASSUME NEW q, NEW M, NEW G, EndsIn(q, M, G)
  PROVE  At(q, M) # {}
BY DEF EndsIn

-----------------------------------------------------------------------------
(* A pull at the end or the head of a wire changes nothing of its tokens.  *)
LEMMA TokensAppend ==
  ASSUME NEW T, NEW c \in Seq(T), NEW m \in T
  PROVE  /\ Tokens(Append(c, m)) = Tokens(c) \cup (IF m.kind # "pull" THEN {Len(c) + 1} ELSE {})
         /\ \A i \in Tokens(c) : Append(c, m)[i] = c[i] /\ i < Len(c) + 1 /\ i \in Nat
<1> DEFINE r == Append(c, m)
<1>1. /\ Len(r) = Len(c) + 1 /\ Len(c) \in Nat /\ r[Len(c) + 1] = m
      /\ \A i \in 1..Len(c) : r[i] = c[i]
  BY AppendIs
<1>2. \A i : i \in 1..Len(r) <=> i \in 1..Len(c) \/ i = Len(c) + 1
  BY <1>1
<1> HIDE DEF r
<1>3. \A i : i \in Tokens(r) <=> i \in Tokens(c) \/ (i = Len(c) + 1 /\ m.kind # "pull")
  BY <1>1, <1>2 DEF Tokens
<1>4. \A i \in Tokens(c) : r[i] = c[i] /\ i < Len(c) + 1 /\ i \in Nat
  BY <1>1 DEF Tokens
<1> QED
  BY <1>3, <1>4 DEF r

LEMMA TokensTail ==
  ASSUME NEW T, NEW c \in Seq(T), c # <<>>
  PROVE  /\ \A i \in Tokens(Tail(c)) : i \in Nat /\ i >= 1 /\ i + 1 \in Tokens(c)
              /\ Tail(c)[i] = c[i + 1]
         /\ \A i \in Tokens(c) : /\ i \in Nat /\ i >= 1
                                 /\ i # 1 => i - 1 \in Tokens(Tail(c)) /\ Tail(c)[i - 1] = c[i]
         /\ Head(c) = c[1] /\ (1 \in Tokens(c) <=> Head(c).kind # "pull")
<1> DEFINE r == Tail(c)
<1>1. /\ Len(r) = Len(c) - 1 /\ Len(r) \in Nat /\ Len(c) \in Nat /\ Head(c) = c[1]
      /\ \A i \in 1..Len(r) : r[i] = c[i + 1]
  BY TailIs
<1> HIDE DEF r
<1>2. \A i \in Tokens(r) : i \in Nat /\ i >= 1 /\ i + 1 \in Tokens(c) /\ r[i] = c[i + 1]
  BY <1>1 DEF Tokens
<1>3. ASSUME NEW i \in Tokens(c)
      PROVE  i \in Nat /\ i >= 1 /\ (i # 1 => i - 1 \in Tokens(r) /\ r[i - 1] = c[i])
  <2>1. i \in Nat /\ i >= 1
    BY <1>1 DEF Tokens
  <2>2. i # 1 => i - 1 \in 1..Len(r) /\ (i - 1) + 1 = i
    BY <1>1 DEF Tokens
  <2> QED
    BY <1>1, <2>1, <2>2 DEF Tokens
<1>4. 1 \in Tokens(c) <=> Head(c).kind # "pull"
  BY <1>1 DEF Tokens
<1> QED
  BY <1>1, <1>2, <1>3, <1>4 DEF r

(* A message of a token that may follow the one before it, or that fits    *)
(* what the client has heard when there is none.                           *)
LEMMA OrderlyAppend ==
  ASSUME NEW T, NEW c \in Seq(T), NEW m \in T, NEW s, Orderly(c, s),
         m.kind # "pull" =>
           /\ \A i \in Tokens(c) : c[i].id = m.id /\ Latest(c, i) => Follows(m.kind, c[i].kind)
           /\ Silent(c, m.id) => Fits(s[m.id], m.kind)
           /\ m.kind = "reply" => s[m.id] \notin {"unknown", "refused"}
  PROVE  Orderly(Append(c, m), s)
<1> DEFINE r == Append(c, m)  n == Len(c) + 1
<1>1. /\ Tokens(r) = Tokens(c) \cup (IF m.kind # "pull" THEN {n} ELSE {})
      /\ \A i \in Tokens(c) : r[i] = c[i] /\ i < n /\ i \in Nat
  BY TokensAppend
<1>2. r[n] = m /\ n \in Nat
  BY AppendIs
<1> HIDE DEF r, n
<1>3. ASSUME NEW j \in Tokens(r), Earliest(r, j) PROVE Fits(s[r[j].id], r[j].kind)
  <2>1. CASE j \in Tokens(c)
    <3>1. Earliest(c, j)
      BY <1>1, <1>3, <2>1 DEF Earliest
    <3> QED
      BY <1>1, <2>1, <3>1 DEF Orderly
  <2>2. CASE j \notin Tokens(c)
    <3>1. j = n /\ m.kind # "pull"
      BY <1>1, <2>2
    <3>2. Silent(c, m.id)
      BY <1>1, <1>2, <1>3, <3>1 DEF Earliest, Silent
    <3> QED
      BY <1>2, <3>1, <3>2
  <2> QED
    BY <2>1, <2>2
<1>4. ASSUME NEW i \in Tokens(r), NEW j \in Tokens(r), Adjacent(r, i, j)
      PROVE  Follows(r[j].kind, r[i].kind)
  <2>1. i \in Tokens(c)
    BY <1>1, <1>2, <1>4 DEF Adjacent
  <2>2. CASE j \in Tokens(c)
    <3>1. Adjacent(c, i, j)
      BY <1>1, <1>4, <2>1, <2>2 DEF Adjacent
    <3> QED
      BY <1>1, <2>1, <2>2, <3>1 DEF Orderly
  <2>3. CASE j \notin Tokens(c)
    <3>1. j = n /\ m.kind # "pull"
      BY <1>1, <2>3
    <3>2. c[i].id = m.id /\ Latest(c, i)
      BY <1>1, <1>2, <1>4, <2>1, <3>1 DEF Adjacent, Latest
    <3> QED
      BY <1>1, <1>2, <2>1, <3>1, <3>2
  <2> QED
    BY <2>2, <2>3
<1>5. ASSUME NEW j \in Tokens(r), r[j].kind = "reply"
      PROVE  s[r[j].id] \notin {"unknown", "refused"}
  BY <1>1, <1>2, <1>5 DEF Orderly
<1> QED
  BY <1>3, <1>4, <1>5 DEF Orderly, r

(* Where the tokens stand after it.                                        *)
LEMMA StandsAppend ==
  ASSUME NEW T, NEW c \in Seq(T), NEW m \in T, NEW s
  PROVE  /\ m.kind # "pull" => \A states : Stands(Append(c, m), s, m.id, {m.kind}, states)
         /\ \A x, kinds, states : Stands(c, s, x, kinds, states)
              /\ (m.kind = "pull" \/ m.id # x) =>
              Stands(Append(c, m), s, x, kinds, states)
         /\ \A x : Silent(c, x) /\ (m.kind = "pull" \/ m.id # x) => Silent(Append(c, m), x)
<1> DEFINE r == Append(c, m)  n == Len(c) + 1
<1>1. /\ Tokens(r) = Tokens(c) \cup (IF m.kind # "pull" THEN {n} ELSE {})
      /\ \A i \in Tokens(c) : r[i] = c[i] /\ i < n /\ i \in Nat
  BY TokensAppend
<1>2. r[n] = m /\ n \in Nat
  BY AppendIs
<1> HIDE DEF r, n
<1>3. ASSUME m.kind # "pull", NEW states PROVE Stands(r, s, m.id, {m.kind}, states)
  <2>1. \A i \in Tokens(r) : r[i].id = m.id /\ Latest(r, i) => i = n
    BY <1>1, <1>2, <1>3 DEF Latest
  <2>2. ~Silent(r, m.id)
    BY <1>1, <1>2, <1>3 DEF Silent
  <2> QED
    BY <1>2, <2>1, <2>2 DEF Stands
<1>4. ASSUME NEW x, Silent(c, x), m.kind = "pull" \/ m.id # x PROVE Silent(r, x)
  BY <1>1, <1>2, <1>4 DEF Silent
<1>5. ASSUME NEW x, NEW kinds, NEW states, Stands(c, s, x, kinds, states),
             m.kind = "pull" \/ m.id # x
      PROVE  Stands(r, s, x, kinds, states)
  <2>1. ASSUME NEW i \in Tokens(r), r[i].id = x, Latest(r, i) PROVE r[i].kind \in kinds
    <3>1. i \in Tokens(c) /\ r[i] = c[i]
      BY <1>1, <1>2, <1>5, <2>1
    <3>2. Latest(c, i)
      BY <1>1, <2>1, <3>1 DEF Latest
    <3> QED
      BY <1>5, <2>1, <3>1, <3>2 DEF Stands
  <2>2. Silent(r, x) => Silent(c, x)
    BY <1>1 DEF Silent
  <2> QED
    BY <1>5, <2>1, <2>2 DEF Stands
<1> QED
  BY <1>3, <1>4, <1>5 DEF r

(* The client reads a message: t is what it knows of the tokens then.      *)
Reads(c, s, t) ==
  \A x \in Ids :
    IF Head(c).kind = "pull" \/ x # Head(c).id THEN t[x] = s[x]
    ELSE IF Head(c).kind = "create" THEN s[x] = "unknown" => t[x] \in {"offered", "refused"}
    ELSE t[x] = Turned(s[x], Head(c).kind)

LEMMA OrderlyTail ==
  ASSUME NEW c \in Wire(ToClient), c # <<>>, \A i \in 1..Len(c) : c[i].id \in Ids,
         NEW s \in [Ids -> States], NEW t, Orderly(c, s), Reads(c, s, t)
  PROVE  /\ Orderly(Tail(c), t)
         /\ Head(c).kind # "pull" => Fits(s[Head(c).id], Head(c).kind)
<1> DEFINE r == Tail(c)  h == Head(c)
<1>1. /\ \A i \in Tokens(r) : i \in Nat /\ i >= 1 /\ i + 1 \in Tokens(c) /\ r[i] = c[i + 1]
      /\ \A i \in Tokens(c) : i \in Nat /\ i >= 1
           /\ (i # 1 => i - 1 \in Tokens(r) /\ r[i - 1] = c[i])
      /\ h = c[1] /\ (1 \in Tokens(c) <=> h.kind # "pull")
  BY TokensTail DEF Wire
<1> DEFINE R == MessageOf(ToClient)
<1>0. c \in Seq(R)
  BY DEF Wire
<1> HIDE DEF R
<1>8. h.id \in Ids
  <2>1. h = c[1] /\ 1 \in 1..Len(c)
    BY <1>0, <1>1, TailIs
  <2> QED
    BY <2>1
<1>2. h.kind \in ToClient /\ h.id \in Ids
  <2>1. h \in R
    BY <1>0, TailIs DEF h
  <2> QED
    BY <2>1, <1>8 DEF R, MessageOf
<1>3. \A i \in Tokens(c) : c[i].id \in Ids /\ c[i].kind \in ToClient \ {"pull"}
  <2> TAKE i \in Tokens(c)
  <2>1. i \in 1..Len(c) /\ c[i].kind # "pull"
    BY DEF Tokens
  <2>2. c[i] \in R
    BY <1>0, <2>1
  <2> QED
    BY <2>1, <2>2 DEF R, MessageOf
<1> HIDE DEF r, h
<1>4. h.kind # "pull" => Fits(s[h.id], h.kind)
  <2> SUFFICES ASSUME h.kind # "pull" PROVE Fits(s[h.id], h.kind)
    OBVIOUS
  <2>1. 1 \in Tokens(c) /\ Earliest(c, 1)
    BY <1>1 DEF Earliest
  <2> QED
    BY <1>1, <2>1 DEF Orderly
<1>5. ASSUME NEW j \in Tokens(r), Earliest(r, j) PROVE Fits(t[r[j].id], r[j].kind)
  <2>1. j + 1 \in Tokens(c) /\ r[j] = c[j + 1] /\ j \in Nat /\ j >= 1 /\ r[j].id \in Ids
    BY <1>1, <1>3
  <2>2. \A i \in Tokens(c) : 1 < i /\ i < j + 1 => c[i].id # r[j].id
    <3> TAKE i \in Tokens(c)
    <3> HAVE 1 < i /\ i < j + 1
    <3>1. i - 1 \in Tokens(r) /\ r[i - 1] = c[i] /\ i - 1 < j
      BY <1>1, <2>1
    <3> QED
      BY <1>5, <3>1 DEF Earliest
  <2>3. CASE h.kind # "pull" /\ h.id = r[j].id
    <3>1. Adjacent(c, 1, j + 1) /\ 1 \in Tokens(c)
      BY <1>1, <2>1, <2>2, <2>3 DEF Adjacent
    <3>2. Follows(r[j].kind, h.kind)
      BY <1>1, <2>1, <3>1 DEF Orderly
    <3>3. r[j].kind = "reply" => s[h.id] # "refused"
      BY <2>1, <2>3 DEF Orderly
    <3>4. h.kind = "create" => s[h.id] = "unknown"
      BY <1>4, <2>3 DEF Fits
    <3>5. t[h.id] = (IF h.kind = "create" THEN t[h.id] ELSE Turned(s[h.id], h.kind))
      BY <1>2, <2>3 DEF Reads, h
    <3>6. h.kind = "create" => t[h.id] \in {"offered", "refused"}
      BY <1>2, <2>3, <3>4 DEF Reads, h
    <3> QED
      BY <1>2, <1>4, <2>3, <3>2, <3>3, <3>5, <3>6 DEF Fits, Follows, Turned, ToClient
  <2>4. CASE ~(h.kind # "pull" /\ h.id = r[j].id)
    <3>1. Earliest(c, j + 1)
      BY <1>1, <2>1, <2>2, <2>4 DEF Earliest
    <3>2. t[r[j].id] = s[r[j].id]
      BY <2>1, <2>4 DEF Reads, h
    <3> QED
      BY <2>1, <3>1, <3>2 DEF Orderly
  <2> QED
    BY <2>3, <2>4
<1>6. ASSUME NEW i \in Tokens(r), NEW j \in Tokens(r), Adjacent(r, i, j)
      PROVE  Follows(r[j].kind, r[i].kind)
  <2>1. /\ i + 1 \in Tokens(c) /\ r[i] = c[i + 1] /\ i \in Nat
        /\ j + 1 \in Tokens(c) /\ r[j] = c[j + 1] /\ j \in Nat
    BY <1>1
  <2>2. \A k \in Tokens(c) : i + 1 < k /\ k < j + 1 => c[k].id # c[i + 1].id
    <3> TAKE k \in Tokens(c)
    <3> HAVE i + 1 < k /\ k < j + 1
    <3>1. k - 1 \in Tokens(r) /\ r[k - 1] = c[k] /\ i < k - 1 /\ k - 1 < j
      BY <1>1, <2>1
    <3> QED
      BY <1>6, <2>1, <3>1 DEF Adjacent
  <2>3. Adjacent(c, i + 1, j + 1)
    BY <1>6, <2>1, <2>2 DEF Adjacent
  <2> QED
    BY <2>1, <2>3 DEF Orderly
<1>7. ASSUME NEW j \in Tokens(r), r[j].kind = "reply"
      PROVE  t[r[j].id] \notin {"unknown", "refused"}
  <2>1. j + 1 \in Tokens(c) /\ r[j] = c[j + 1] /\ r[j].id \in Ids
    BY <1>1, <1>3
  <2>2. s[r[j].id] \notin {"unknown", "refused"}
    BY <1>7, <2>1 DEF Orderly
  <2>3. CASE h.kind # "pull" /\ h.id = r[j].id
    BY <1>4, <2>1, <2>2, <2>3 DEF Reads, Fits, Turned, h
  <2>4. CASE ~(h.kind # "pull" /\ h.id = r[j].id)
    BY <2>1, <2>2, <2>4 DEF Reads, h
  <2> QED
    BY <2>3, <2>4
<1> QED
  BY <1>4, <1>5, <1>6, <1>7 DEF Orderly, r, h

(* Where the tokens stand after it.                                        *)
LEMMA StandsTail ==
  ASSUME NEW T, NEW c \in Seq(T), c # <<>>, NEW s, NEW t, NEW x, NEW kinds, NEW states,
         Stands(c, s, x, kinds, states),
         Head(c).kind = "pull" \/ Head(c).id # x => t[x] = s[x],
         Head(c).kind # "pull" /\ Head(c).id = x /\ Head(c).kind \in kinds => t[x] \in states
  PROVE  Stands(Tail(c), t, x, kinds, states)
<1> DEFINE r == Tail(c)  h == Head(c)
<1>1. /\ \A i \in Tokens(r) : i \in Nat /\ i >= 1 /\ i + 1 \in Tokens(c) /\ r[i] = c[i + 1]
      /\ \A i \in Tokens(c) : i \in Nat /\ i >= 1
           /\ (i # 1 => i - 1 \in Tokens(r) /\ r[i - 1] = c[i])
      /\ h = c[1] /\ (1 \in Tokens(c) <=> h.kind # "pull")
  BY TokensTail
<1> HIDE DEF r
<1>2. ASSUME NEW i \in Tokens(r), r[i].id = x, Latest(r, i) PROVE r[i].kind \in kinds
  <2>1. i + 1 \in Tokens(c) /\ r[i] = c[i + 1] /\ i \in Nat
    BY <1>1
  <2>2. \A k \in Tokens(c) : i + 1 < k => c[k].id # c[i + 1].id
    <3> TAKE k \in Tokens(c)
    <3> HAVE i + 1 < k
    <3>1. k - 1 \in Tokens(r) /\ r[k - 1] = c[k] /\ i < k - 1
      BY <1>1, <2>1
    <3> QED
      BY <1>2, <2>1, <3>1 DEF Latest
  <2> QED
    BY <1>2, <2>1, <2>2 DEF Latest, Stands
<1>3. ASSUME Silent(r, x) PROVE t[x] \in states
  <2>1. \A k \in Tokens(c) : k # 1 => c[k].id # x
    BY <1>1, <1>3 DEF Silent
  <2>2. CASE h.kind # "pull" /\ h.id = x
    <3>1. 1 \in Tokens(c) /\ Latest(c, 1) /\ c[1].id = x
      BY <1>1, <2>1, <2>2 DEF Latest
    <3> QED
      BY <1>1, <2>2, <3>1 DEF Stands
  <2>3. CASE ~(h.kind # "pull" /\ h.id = x)
    <3>1. Silent(c, x)
      BY <1>1, <2>1, <2>3 DEF Silent
    <3> QED
      BY <2>3, <3>1 DEF Stands
  <2> QED
    BY <2>2, <2>3
<1> QED
  BY <1>2, <1>3 DEF Stands, r

LEMMA SilentTail ==
  ASSUME NEW T, NEW c \in Seq(T), c # <<>>, NEW x, Silent(c, x)
  PROVE  Silent(Tail(c), x) /\ (Head(c).kind = "pull" \/ Head(c).id # x)
<1>1. Head(c).kind # "pull" => Head(c).id # x
  BY TokensTail DEF Silent
<1>2. \A i \in Tokens(Tail(c)) : i + 1 \in Tokens(c) /\ Tail(c)[i] = c[i + 1]
  BY TokensTail
<1> QED
  BY <1>1, <1>2 DEF Silent

-----------------------------------------------------------------------------
(* Messages and the wires they are put on.                                 *)
LEMMA MessageIs ==
  ASSUME NEW kind, NEW id \in 0..MaxIds, NEW body \in Body
  PROVE  /\ Message(kind, id, body).kind = kind
         /\ Message(kind, id, body).id = id /\ Message(kind, id, body).body = body
         /\ \A kinds : kind \in kinds => Message(kind, id, body) \in MessageOf(kinds)
BY DEF Message, MessageOf

LEMMA NoBody == None \in Body
BY DEF Body

LEMMA Grows ==
  ASSUME NEW kinds, NEW q \in Wire(kinds), NEW m \in MessageOf(kinds)
  PROVE  /\ Append(q, m) \in Wire(kinds)
         /\ \A K : IdsOf(Append(q, m), K) = IF m.kind \in K THEN IdsOf(q, K) \cup {m.id}
              ELSE IdsOf(q, K)
         /\ \A K : Distinct(q, K) /\ (m.kind \in K => m.id \notin IdsOf(q, K)) =>
              Distinct(Append(q, m), K)
<1>1. Append(q, m) \in Wire(kinds)
  BY AppendIs DEF Wire
<1>2. ASSUME NEW K
      PROVE  IdsOf(Append(q, m), K) = IF m.kind \in K THEN IdsOf(q, K) \cup {m.id}
                 ELSE IdsOf(q, K)
  <2>1. IdsOf(Append(q, m), K) = IdsOf(q, K) \cup (IF m.kind \in K THEN {m.id} ELSE {})
    BY IdsAppend DEF Wire
  <2> QED
    BY <2>1
<1>3. ASSUME NEW K, Distinct(q, K), m.kind \in K => m.id \notin IdsOf(q, K)
      PROVE  Distinct(Append(q, m), K)
  BY <1>3, IdsAppend DEF Wire
<1> QED
  BY <1>1, <1>2, <1>3

LEMMA Shrinks ==
  ASSUME NEW kinds, NEW q \in Wire(kinds), q # <<>>
  PROVE  /\ Tail(q) \in Wire(kinds) /\ Head(q) \in MessageOf(kinds)
         /\ Head(q).kind \in kinds /\ Head(q).id \in 0..MaxIds /\ Head(q).body \in Body
         /\ \A K : IdsOf(q, K) = IF Head(q).kind \in K THEN IdsOf(Tail(q), K) \cup {Head(q).id}
                                                       ELSE IdsOf(Tail(q), K)
         /\ \A K : Head(q).kind \in K => Head(q).id \in IdsOf(q, K)
         /\ \A K : Distinct(q, K) =>
                     /\ Distinct(Tail(q), K)
                     /\ Head(q).kind \in K => Head(q).id \notin IdsOf(Tail(q), K)
<1>1. Tail(q) \in Wire(kinds) /\ Head(q) \in MessageOf(kinds)
  BY TailIs DEF Wire
<1>2. Head(q).kind \in kinds /\ Head(q).id \in 0..MaxIds /\ Head(q).body \in Body
  BY <1>1 DEF MessageOf
<1>3. ASSUME NEW K
      PROVE  IdsOf(q, K) = IF Head(q).kind \in K THEN IdsOf(Tail(q), K) \cup {Head(q).id}
                                                 ELSE IdsOf(Tail(q), K)
  <2>1. IdsOf(q, K) = IdsOf(Tail(q), K) \cup (IF Head(q).kind \in K THEN {Head(q).id} ELSE {})
    BY IdsTail DEF Wire
  <2> QED
    BY <2>1
<1>4. ASSUME NEW K, Distinct(q, K)
      PROVE  /\ Distinct(Tail(q), K)
             /\ Head(q).kind \in K => Head(q).id \notin IdsOf(Tail(q), K)
  BY <1>4, IdsTail DEF Wire
<1>5. \A K : Head(q).kind \in K => Head(q).id \in IdsOf(q, K)
  BY <1>3
<1> QED
  BY <1>1, <1>2, <1>3, <1>4, <1>5

(* What a set of kinds has no message of.                                  *)
LEMMA IdsTyped ==
  ASSUME NEW kinds, NEW q \in Wire(kinds), NEW K
  PROVE  /\ IdsOf(q, K) \subseteq 0..MaxIds
         /\ kinds \cap K = {} => IdsOf(q, K) = {}
         /\ \A L : K \subseteq L => IdsOf(q, K) \subseteq IdsOf(q, L)
<1>1. \A i \in Of(q, K) : q[i].id \in 0..MaxIds /\ q[i].kind \in kinds /\ q[i].kind \in K
  <2> TAKE i \in Of(q, K)
  <2>1. i \in 1..Len(q) /\ q[i].kind \in K
    BY DEF Of
  <2>2. q[i] \in MessageOf(kinds)
    BY <2>1 DEF Wire
  <2> QED
    BY <2>1, <2>2 DEF MessageOf
<1>2. \A L : K \subseteq L => Of(q, K) \subseteq Of(q, L)
  BY DEF Of
<1> QED
  BY <1>1, <1>2 DEF IdsOf

-----------------------------------------------------------------------------
(* A new id is nobody's yet.                                               *)
LEMMA NewId ==
  ASSUME OutInv, ids < MaxIds
  PROVE  /\ ids + 1 \in Ids /\ ids + 1 \in 0..MaxIds /\ ids + 1 \notin 1..ids
         /\ ids + 1 \notin outbound \cup creates \cup poisoned
         /\ ids + 1 \notin Owed(toClient) \cup Owed(toServer) \cup Owed(answering)
              \cup Owed(forward)
         /\ Silent(toClient, ids + 1) /\ spinner[ids + 1] = "unknown"
         /\ ids + 1 \notin Asking
<1> USE OutboundAssumption DEF OutInv, WireTypes, OwedInv, ProgressInv, TokenInv, RequestInv,
        Ids
<1>1. ids \in Nat /\ ids + 1 \in Ids /\ ids + 1 \notin 1..ids /\ ids + 1 \in 0..MaxIds
          /\ ~(ids + 1 <= ids)
  OBVIOUS
<1>2. ids + 1 \notin outbound \cup creates /\ spinner[ids + 1] = "unknown"
  BY <1>1
<1>3. ids + 1 \notin poisoned
  BY <1>1, <1>2
<1>4. Silent(toClient, ids + 1)
  BY <1>1 DEF Silent, Tokens
<1>5. ids + 1 \notin Owed(toClient)
  BY <1>1 DEF Owed, IdsOf, Of
<1>6. ids + 1 \notin Owed(toServer) \cup Owed(answering) \cup Owed(forward)
  BY <1>2
<1> QED
  BY <1>1, <1>2, <1>3, <1>4, <1>5, <1>6

-----------------------------------------------------------------------------
(* What a function that returns puts on the wire.                          *)
LEMMA ReturnSends ==
  ASSUME toClient \in Wire(ToClient), arc.id \in Ids, Return
  PROVE  \E mid \in Wire(ToClient) :
           /\ IF Closes THEN mid = Append(toClient, Message("end", arc.id, None))
                ELSE mid = toClient
           /\ IF arc.asked THEN toClient' = Append(mid, Message("reply", arc.id, None))
                           ELSE toClient' = mid
<1> DEFINE last == Message("end", arc.id, None)  reply == Message("reply", arc.id, None)
<1>1. last \in MessageOf(ToClient) /\ reply \in MessageOf(ToClient)
  BY NoBody, MessageIs DEF Ids, ToClient
<1>2. toClient' = (toClient \o (IF Closes THEN <<last>>
          ELSE <<>>)) \o (IF arc.asked THEN <<reply>> ELSE <<>>)
  BY DEF Return
<1> DEFINE mid == IF Closes THEN Append(toClient, last) ELSE toClient
<1>3. mid \in Wire(ToClient)
  BY <1>1, Grows
<1> HIDE DEF last, reply
<1>4. \A c \in Wire(ToClient) : c \o <<>> = c
  BY DEF Wire
<1>5. \A c \in Wire(ToClient), m \in MessageOf(ToClient) : c \o <<m>> = Append(c, m)
  BY DEF Wire
<1>6. toClient \o (IF Closes THEN <<last>> ELSE <<>>) = mid
  BY <1>1, <1>4, <1>5
<1>7. toClient' = IF arc.asked THEN Append(mid, reply) ELSE mid
  BY <1>1, <1>2, <1>3, <1>4, <1>5, <1>6
<1> QED
  BY <1>3, <1>7 DEF last, reply

-----------------------------------------------------------------------------
(* What the client makes of a message.                                     *)
LEMMA ClientHears ==
  ASSUME OutInv, ClientReads
  PROVE  /\ Reads(toClient, spinner, spinner') /\ spinner' \in [Ids -> States]
         /\ Head(toClient).id \in Ids
         /\ Head(toClient).kind = "create" => spinner[Head(toClient).id] = "unknown"
         /\ \A x \in Ids : spinner[x] = "refused" => spinner'[x] = "refused"
         /\ \A x \in Ids : spinner'[x] # "unknown" => x <= ids
         /\ \A x \in Ids : spinner'[x] = "unknown" => spinner[x] = "unknown"
<1> DEFINE m == Head(toClient)
<1>1. toClient \in Wire(ToClient) /\ toClient # <<>>
          /\ \A i \in 1..Len(toClient) : toClient[i].id \in Ids
  BY DEF OutInv, WireTypes, ClientReads
<1>2. m.kind \in ToClient /\ m = toClient[1] /\ 1 \in 1..Len(toClient)
  BY <1>1, Shrinks, TailIs DEF Wire
<1>3. m.id \in Ids /\ m.id <= ids
  BY <1>1, <1>2 DEF OutInv, ProgressInv, TokenInv
<1>4. spinner \in [Ids -> States] /\ Orderly(toClient, spinner)
  BY DEF OutInv, WireTypes, ProgressInv
<1>5. m.kind # "pull" => Fits(spinner[m.id], m.kind)
  <2> SUFFICES ASSUME m.kind # "pull" PROVE Fits(spinner[m.id], m.kind)
    OBVIOUS
  <2>1. 1 \in Tokens(toClient) /\ Earliest(toClient, 1)
    BY <1>2 DEF Tokens, Earliest
  <2> QED
    BY <1>2, <1>4, <2>1 DEF Orderly
<1> HIDE DEF m
<1>6. CASE m.kind = "pull"
  <2>1. spinner' = spinner
    BY <1>6 DEF ClientReads, m
  <2> QED
    BY <1>3, <1>4, <1>6, <2>1 DEF Reads, m, OutInv, ProgressInv, TokenInv
<1>7. CASE m.kind = "create"
  <2>1. spinner[m.id] = "unknown"
    BY <1>5, <1>7 DEF Fits
  <2>2. PICK state \in {"offered", "refused"} : spinner' = [spinner EXCEPT ![m.id] = state]
    BY <1>3, <1>4, <1>7, <2>1 DEF ClientReads, m
  <2> QED
    BY <1>3, <1>4, <1>7, <2>1, <2>2 DEF Reads, States, m, OutInv, ProgressInv, TokenInv
<1>8. CASE m.kind \in ToClient \ {"pull", "create"}
  <2>1. spinner' = [spinner EXCEPT ![m.id] = Turned(spinner[m.id], m.kind)]
    BY <1>3, <1>4, <1>8 DEF ClientReads, m
  <2>2. /\ Turned(spinner[m.id], m.kind) \in States \ {"unknown"}
        /\ spinner[m.id] = "refused" => Turned(spinner[m.id], m.kind) = "refused"
    BY <1>5, <1>8 DEF Turned, Fits, States, ToClient
  <2>3. spinner' \in [Ids -> States] /\ \A x \in Ids : x # m.id => spinner'[x] = spinner[x]
    BY <1>3, <1>4, <2>1, <2>2
  <2>4. spinner'[m.id] = Turned(spinner[m.id], m.kind)
    BY <1>3, <1>4, <2>1
  <2> QED
    BY <1>3, <1>8, <2>2, <2>3, <2>4 DEF Reads, m, OutInv, ProgressInv, TokenInv
<1> QED
  BY <1>2, <1>6, <1>7, <1>8

-----------------------------------------------------------------------------
(* Every step keeps the types of the wires.                                *)
LEMMA WireTypesStep ==
  ASSUME OutInv, [OutboundNext]_outboundVars
  PROVE  WireTypes'
<1> USE DEF WireTypes, configVars, progressVars
<1>1. WireTypes /\ OwedInv
  BY DEF OutInv
<1>2. CASE ChangeSettings
  <2>1. settings' \in Body /\ toServer' = Append(toServer, Message("changed", 0, settings'))
    BY <1>2 DEF ChangeSettings, Body
  <2>2. toServer' \in Wire(ToServer)
    BY <1>1, <2>1, MessageIs, Grows, OutboundAssumption DEF ToServer
  <2> QED
    BY <1>1, <1>2, <2>1, <2>2 DEF ChangeSettings
<1>3. CASE RequestWithToken
  <2>1. ids + 1 \in Ids /\ ids' = ids + 1 /\ ids' \in 0..MaxIds
    BY <1>3, NewId DEF RequestWithToken
  <2>2. toServer' \in Wire(ToServer)
    BY <1>1, <1>3, <2>1, NoBody, MessageIs, Grows DEF RequestWithToken, ToServer
  <2>3. spinner' \in [Ids -> States]
    BY <1>1, <1>3, <2>1 DEF RequestWithToken, States
  <2> QED
    BY <1>1, <1>3, <2>1, <2>2, <2>3 DEF RequestWithToken
<1>4. CASE ClientReads
  <2> DEFINE m == Head(toClient)
  <2>1. toClient' \in Wire(ToClient) /\ m.id \in Ids /\ spinner' \in [Ids -> States]
    BY <1>1, <1>4, ClientHears, Shrinks DEF ClientReads
  <2>2. m.id \in 0..MaxIds
    BY <2>1 DEF Ids
  <2>3. answering' \in Wire({"error", "section"})
    <3>1. CASE m.kind = "pull"
      <4>1. \/ answering' = Append(answering, Message("section", m.id, settings))
            \/ answering' = Append(answering, Message("error", m.id, None))
        BY <1>4, <3>1 DEF ClientReads
      <4>2. \A kind \in {"error", "section"}, body \in Body :
              Message(kind, m.id, body) \in MessageOf({"error", "section"})
        BY <2>2, MessageIs
      <4>3. \E msg \in MessageOf({"error", "section"}) : answering' = Append(answering, msg)
        BY <1>1, <4>1, <4>2, NoBody
      <4> QED
        BY <1>1, <4>3, Grows
    <3>2. CASE m.kind # "pull"
      BY <1>1, <1>4, <3>2 DEF ClientReads
    <3> QED
      BY <3>1, <3>2
  <2>4. toServer' \in Wire(ToServer)
    <3>1. CASE m.kind = "create"
      <4>1. \E kind \in {"created", "error"} :
                toServer' = Append(toServer, Message(kind, m.id, None))
        BY <1>4, <3>1 DEF ClientReads
      <4>2. \A kind \in {"created", "error"} : Message(kind, m.id, None) \in MessageOf(ToServer)
        BY <2>2, NoBody, MessageIs DEF ToServer
      <4> QED
        BY <1>1, <4>1, <4>2, Grows
    <3>2. CASE m.kind # "create"
      BY <1>1, <1>4, <3>2 DEF ClientReads
    <3> QED
      BY <3>1, <3>2
  <2>5. \A i \in 1..Len(toClient') : toClient'[i].id \in Ids
    <3>1. toClient \in Seq(MessageOf(ToClient)) /\ toClient # <<>> /\ toClient' = Tail(toClient)
      BY <1>1, <1>4 DEF ClientReads, Wire
    <3>2. \A i \in 1..Len(toClient') : toClient'[i] = toClient[i + 1]
              /\ i + 1 \in 1..Len(toClient)
      BY <3>1, TailIs
    <3> QED
      BY <1>1, <3>2
  <2> QED
    BY <1>1, <1>4, <2>1, <2>3, <2>4, <2>5 DEF ClientReads
<1>5. CASE ClientAnswers
  <2>1. answering' \in Wire({"error", "section"})
            /\ Head(answering) \in MessageOf({"error", "section"})
    BY <1>1, <1>5, Shrinks DEF ClientAnswers
  <2>2. Head(answering) \in MessageOf(ToServer)
    BY <2>1 DEF MessageOf, ToServer
  <2>3. toServer' \in Wire(ToServer)
    BY <1>1, <1>5, <2>2, Grows DEF ClientAnswers
  <2> QED
    BY <1>1, <1>5, <2>1, <2>3 DEF ClientAnswers
<1>6. CASE Route
  <2> DEFINE m == Head(toServer)
  <2>1. /\ toServer' \in Wire(ToServer) /\ m \in MessageOf(ToServer) /\ m.kind \in ToServer
        /\ \A K : m.kind \in K => m.id \in IdsOf(toServer, K)
    BY <1>1, <1>6, Shrinks DEF Route
  <2>2. CASE m.id \in creates /\ m.kind \in {"created", "error"}
    BY <1>1, <1>6, <2>1, <2>2 DEF Route
  <2>3. CASE ~(m.id \in creates /\ m.kind \in {"created", "error"})
    <3>1. m.kind # "created"
      BY <1>1, <2>1, <2>3 DEF OwedInv
    <3>2. m \in MessageOf({"changed", "request", "error", "section"})
      BY <2>1, <3>1 DEF MessageOf, ToServer
    <3>3. forward' = Append(forward, m) /\ creates' = creates /\ poisoned' = poisoned
      BY <1>6, <2>3 DEF Route
    <3>4. forward' \in Wire({"changed", "request", "error", "section"})
      BY <1>1, <3>2, <3>3, Grows
    <3> QED
      BY <1>1, <1>6, <2>1, <3>3, <3>4 DEF Route
  <2> QED
    BY <2>2, <2>3
<1>7. ASSUME NEW kind, Take(kind)
      PROVE  /\ forward' \in Wire({"changed", "request", "error", "section"})
             /\ Head(forward).id \in 0..MaxIds /\ Head(forward).body \in Body
  BY <1>1, <1>7, Shrinks DEF Take
<1>8. ASSUME NEW section \in Body, Apply(section) PROVE options' \in [Groups -> Values]
  <2>1. CASE section \in Section
    <3>1. \A g \in Groups : section[g] \in Values \/ section[g] = None
      BY <2>1 DEF Section
    <3> QED
      BY <1>1, <1>8, <2>1, <3>1 DEF Apply
  <2>2. CASE section \notin Section
    BY <1>1, <1>8, <2>2 DEF Apply
  <2> QED
    BY <2>1, <2>2
<1>9. ASSUME NEW c \in Wire(ToClient), \A i \in 1..Len(c) : c[i].id \in Ids,
             NEW kind \in ToClient, NEW id \in Ids
      PROVE  /\ Append(c, Message(kind, id, None)) \in Wire(ToClient)
             /\ \A i \in 1..Len(Append(c, Message(kind, id, None))) :
                  Append(c, Message(kind, id, None))[i].id \in Ids
  <2> DEFINE msg == Message(kind, id, None)
  <2>1. msg \in MessageOf(ToClient) /\ msg.id = id
    BY NoBody, MessageIs DEF Ids
  <2>2. c \in Seq(MessageOf(ToClient))
    BY <1>9 DEF Wire
  <2> HIDE DEF msg
  <2>3. Append(c, msg) \in Wire(ToClient)
    BY <1>9, <2>1, Grows
  <2>4. \A i \in 1..Len(Append(c, msg)) :
          (i \in 1..Len(c) /\ Append(c, msg)[i] = c[i]) \/ Append(c, msg)[i] = msg
    BY <2>1, <2>2, AppendIs
  <2>5. \A i \in 1..Len(Append(c, msg)) : Append(c, msg)[i].id \in Ids
    BY <1>9, <2>1, <2>4
  <2> QED
    BY <2>3, <2>5 DEF msg
<1>10. CASE DidChangeConfiguration
  <2>1. forward' \in Wire({"changed", "request", "error", "section"})
            /\ Head(forward).body \in Body
    BY <1>7, <1>10 DEF DidChangeConfiguration
  <2>2. CASE "pull" \in caps
    <3>1. ids < MaxIds /\ Pull
      BY <1>10, <2>2 DEF DidChangeConfiguration
    <3>2. ids + 1 \in Ids /\ ids + 1 \in 0..MaxIds
      BY <3>1, NewId
    <3>3. toClient' \in Wire(ToClient) /\ \A i \in 1..Len(toClient') : toClient'[i].id \in Ids
      BY <1>1, <1>9, <3>1, <3>2 DEF Pull, ToClient
    <3> QED
      BY <1>1, <1>10, <2>1, <3>1, <3>2, <3>3 DEF DidChangeConfiguration, Pull
  <2>3. CASE "pull" \notin caps
    <3>1. options' \in [Groups -> Values] /\ UNCHANGED <<outbound, ids, toClient>>
      BY <1>8, <1>10, <2>1, <2>3 DEF DidChangeConfiguration
    <3> QED
      BY <1>1, <1>10, <2>1, <3>1 DEF DidChangeConfiguration
  <2> QED
    BY <2>2, <2>3
<1>11. CASE HandleOutboundResponse
  <2>1. forward' \in Wire({"changed", "request", "error", "section"})
            /\ Head(forward).body \in Body
    BY <1>7, <1>11 DEF HandleOutboundResponse
  <2>2. options' \in [Groups -> Values] /\ outbound' \subseteq Ids
    BY <1>1, <1>8, <1>11, <2>1 DEF HandleOutboundResponse, Answer
  <2> QED
    BY <1>1, <1>11, <2>1, <2>2 DEF HandleOutboundResponse
<1>12. CASE Create
  <2>1. ids + 1 \in Ids /\ ids + 1 \in 0..MaxIds
    BY <1>12, NewId DEF Create
  <2>2. toClient' \in Wire(ToClient) /\ \A i \in 1..Len(toClient') : toClient'[i].id \in Ids
    BY <1>1, <1>9, <1>12, <2>1 DEF Create, ToClient
  <2>3. arc' \in Reporters
    BY <1>12, <2>1 DEF Create, Reporter, Reporters
  <2> QED
    BY <1>1, <1>12, <2>1, <2>2, <2>3 DEF Create
<1>13. CASE StartRequest
  <2>1. forward' \in Wire({"changed", "request", "error", "section"})
    BY <1>7, <1>13 DEF StartRequest
  <2>2. Head(forward).id \in Ids
    <3>1. forward # <<>> /\ Head(forward).kind = "request"
      BY <1>13 DEF StartRequest, Take
    <3>2. Head(forward).id \in IdsOf(forward, {"request"})
      <4>1. \A K : Head(forward).kind \in K => Head(forward).id \in IdsOf(forward, K)
        BY <1>1, <3>1, Shrinks
      <4> QED
        BY <3>1, <4>1
    <3> QED
      BY <1>1, <3>2, OutboundAssumption DEF OutInv, ProgressInv, RequestInv, Asking, Ids
  <2>3. arc' \in Reporters
    BY <1>13, <2>2 DEF StartRequest, Reporter, Reporters
  <2> QED
    BY <1>1, <1>13, <2>1, <2>3 DEF StartRequest
<1>14. CASE Begin \/ Report \/ End
  <2>1. arc \in Reporters /\ arc' \in Reporters /\ arc.id \in Ids
    BY <1>1, <1>14 DEF Begin, Report, End, Reporters
  <2>2. toClient' = toClient \/ \E kind \in ToClient :
            toClient' = Append(toClient, Message(kind, arc.id, None))
    BY <1>14 DEF Begin, Report, End, Sends, ToClient
  <2>3. toClient' \in Wire(ToClient) /\ \A i \in 1..Len(toClient') : toClient'[i].id \in Ids
    BY <1>1, <1>9, <2>1, <2>2
  <2> QED
    BY <1>1, <1>14, <2>1, <2>3 DEF Begin, Report, End
<1>15. CASE Return
  <2>1. arc \in Reporters /\ arc.id \in Ids
    BY <1>1, <1>15 DEF Return, Reporters
  <2>2. PICK mid \in Wire(ToClient) :
           /\ mid = toClient \/ mid = Append(toClient, Message("end", arc.id, None))
           /\ toClient' = mid \/ toClient' = Append(mid, Message("reply", arc.id, None))
    BY <1>1, <1>15, <2>1, ReturnSends
  <2>3. \A i \in 1..Len(mid) : mid[i].id \in Ids
    BY <1>1, <1>9, <2>1, <2>2 DEF ToClient
  <2>4. toClient' \in Wire(ToClient) /\ \A i \in 1..Len(toClient') : toClient'[i].id \in Ids
    BY <1>9, <2>1, <2>2, <2>3 DEF ToClient
  <2> QED
    BY <1>1, <1>15, <2>4 DEF Return
<1>16. CASE UNCHANGED outboundVars
  BY <1>1, <1>16 DEF outboundVars
<1> QED
  BY <1>2, <1>3, <1>4, <1>5, <1>6, <1>10, <1>11, <1>12, <1>13, <1>14, <1>15, <1>16
     DEF OutboundNext

-----------------------------------------------------------------------------
(* Every step keeps each pull and each creation in one place.              *)
LEMMA OwedStep ==
  ASSUME OutInv, [OutboundNext]_outboundVars
  PROVE  OwedInv'
<1> USE DEF configVars, progressVars
<1>1. WireTypes /\ OwedInv
  BY DEF OutInv
<1>2. ASSUME UNCHANGED <<ids, outbound, creates, toClient, answering, forward>>,
             NEW msg \in MessageOf({"changed", "request"}), toServer' = Append(toServer, msg)
      PROVE  OwedInv'
  <2>1. msg \in MessageOf(ToServer) /\ msg.kind \in {"changed", "request"}
    BY DEF MessageOf, ToServer
  <2>2. /\ \A K : msg.kind \notin K => IdsOf(toServer', K) = IdsOf(toServer, K)
        /\ \A K : Distinct(toServer, K) /\ msg.kind \notin K => Distinct(toServer', K)
    BY <1>1, <1>2, <2>1, Grows DEF WireTypes
  <2>3. /\ IdsOf(toServer', Dues) = IdsOf(toServer, Dues) /\ Distinct(toServer', Dues)
        /\ IdsOf(toServer', {"created"}) = IdsOf(toServer, {"created"})
        /\ IdsOf(toServer', {"section"}) = IdsOf(toServer, {"section"})
    BY <1>1, <2>1, <2>2 DEF OwedInv, Dues
  <2> QED
    BY <1>1, <1>2, <2>3 DEF OwedInv, Owed
<1>3. CASE ChangeSettings
  <2>1. Message("changed", 0, settings') \in MessageOf({"changed", "request"})
    BY <1>3, MessageIs, OutboundAssumption DEF ChangeSettings, Body
  <2> QED
    BY <1>2, <1>3, <2>1 DEF ChangeSettings
<1>4. CASE RequestWithToken
  <2>1. ids + 1 \in 0..MaxIds /\ ids' = ids + 1 /\ 1..ids \subseteq 1..ids'
    BY <1>1, <1>4, NewId DEF RequestWithToken, WireTypes
  <2>2. Message("request", ids', None) \in MessageOf({"changed", "request"})
    BY <2>1, NoBody, MessageIs
  <2> DEFINE msg == Message("request", ids', None)
  <2>3. msg \in MessageOf(ToServer) /\ msg.kind = "request"
    BY <2>1, NoBody, MessageIs DEF ToServer
  <2> HIDE DEF msg
  <2>4. toServer' = Append(toServer, msg)
    BY <1>4 DEF RequestWithToken, msg
  <2>5. /\ \A K : msg.kind \notin K => IdsOf(toServer', K) = IdsOf(toServer, K)
        /\ \A K : Distinct(toServer, K) /\ msg.kind \notin K => Distinct(toServer', K)
    BY <1>1, <2>3, <2>4, Grows DEF WireTypes
  <2>6. /\ IdsOf(toServer', Dues) = IdsOf(toServer, Dues) /\ Distinct(toServer', Dues)
        /\ IdsOf(toServer', {"created"}) = IdsOf(toServer, {"created"})
        /\ IdsOf(toServer', {"section"}) = IdsOf(toServer, {"section"})
    BY <1>1, <2>3, <2>5 DEF OwedInv, Dues
  <2> QED
    BY <1>1, <1>4, <2>1, <2>6 DEF OwedInv, Owed, RequestWithToken
<1>5. CASE ClientReads
  <2> DEFINE m == Head(toClient)
  <2>1. /\ m.kind \in ToClient /\ m.id \in 0..MaxIds
        /\ \A K : IdsOf(toClient, K) = IF m.kind \in K THEN IdsOf(toClient', K) \cup {m.id}
             ELSE IdsOf(toClient', K)
        /\ \A K : Distinct(toClient, K) =>
                    Distinct(toClient', K) /\ (m.kind \in K => m.id \notin IdsOf(toClient', K))
    BY <1>1, <1>5, Shrinks DEF ClientReads, WireTypes
  <2>2. UNCHANGED <<ids, outbound, creates, forward>>
    BY <1>5 DEF ClientReads
  <2>3. CASE m.kind = "pull"
    <3>1. PICK kind \in {"section", "error"}, body \in Body :
            answering' = Append(answering, Message(kind, m.id, body))
      BY <1>1, <1>5, <2>3, NoBody DEF ClientReads, WireTypes
    <3> DEFINE msg == Message(kind, m.id, body)
    <3>2. msg \in MessageOf({"error", "section"}) /\ msg.kind \in Dues /\ msg.id = m.id
      BY <2>1, MessageIs DEF Dues
    <3> HIDE DEF msg
    <3>3. m.id \notin Owed(toClient') /\ Owed(toClient) = Owed(toClient') \cup {m.id}
              /\ Distinct(toClient', Dues)
      BY <1>1, <2>1, <2>3 DEF OwedInv, Owed, Dues
    <3>4. /\ IdsOf(toClient, {"pull"}) = IdsOf(toClient', {"pull"}) \cup {m.id}
          /\ IdsOf(toClient, {"create"}) = IdsOf(toClient', {"create"})
      BY <2>1, <2>3
    <3>5. m.id \notin Owed(answering)
      BY <1>1, <3>3 DEF OwedInv
    <3>6. Owed(answering') = Owed(answering) \cup {m.id} /\ Distinct(answering', Dues)
      BY <1>1, <3>1, <3>2, <3>5, Grows DEF OwedInv, WireTypes, Owed, msg
    <3>7. toServer' = toServer
      BY <1>5, <2>3 DEF ClientReads
    <3> QED
      BY <1>1, <2>2, <3>3, <3>4, <3>6, <3>7 DEF OwedInv, Owed
  <2>4. CASE m.kind = "create"
    <3>1. PICK kind \in {"created", "error"} :
                   toServer' = Append(toServer, Message(kind, m.id, None))
      BY <1>5, <2>4 DEF ClientReads
    <3> DEFINE msg == Message(kind, m.id, None)
    <3>2. msg \in MessageOf(ToServer) /\ msg.kind = kind /\ msg.id = m.id
      BY <2>1, NoBody, MessageIs DEF ToServer
    <3> HIDE DEF msg
    <3>3. m.id \notin Owed(toClient') /\ Owed(toClient) = Owed(toClient') \cup {m.id}
              /\ Distinct(toClient', Dues)
      BY <1>1, <2>1, <2>4 DEF OwedInv, Owed, Dues
    <3>4. /\ IdsOf(toClient, {"create"}) = IdsOf(toClient', {"create"}) \cup {m.id}
          /\ IdsOf(toClient, {"pull"}) = IdsOf(toClient', {"pull"})
      BY <2>1, <2>4
    <3>5. m.id \notin Owed(toServer) /\ m.id \in creates
      BY <1>1, <3>3, <3>4 DEF OwedInv
    <3>6. \A K : IdsOf(toServer', K) = IF kind \in K THEN IdsOf(toServer, K) \cup {m.id}
              ELSE IdsOf(toServer, K)
      <4>1. toServer' = Append(toServer, msg)
        BY <3>1 DEF msg
      <4> QED
        BY <1>1, <3>2, <4>1, Grows DEF WireTypes
    <3>7. Distinct(toServer', Dues)
      BY <1>1, <3>1, <3>2, <3>5, Grows DEF OwedInv, WireTypes, Owed, msg
    <3>8. /\ Owed(toServer') = Owed(toServer) \cup {m.id}
          /\ IdsOf(toServer', {"created"}) \subseteq IdsOf(toServer, {"created"}) \cup {m.id}
          /\ IdsOf(toServer', {"section"}) = IdsOf(toServer, {"section"})
      BY <3>6 DEF Owed, Dues
    <3>9. answering' = answering
      BY <1>5, <2>4 DEF ClientReads
    <3> QED
      BY <1>1, <2>2, <3>3, <3>4, <3>5, <3>7, <3>8, <3>9 DEF OwedInv
  <2>5. CASE m.kind \notin {"pull", "create"}
    <3>1. m.kind \notin Dues
      BY <2>1, <2>5 DEF Dues, ToClient
    <3>2. /\ IdsOf(toClient', {"pull"}) = IdsOf(toClient, {"pull"})
          /\ IdsOf(toClient', {"create"}) = IdsOf(toClient, {"create"})
          /\ Owed(toClient') = Owed(toClient) /\ Distinct(toClient', Dues)
      BY <1>1, <2>1, <2>5, <3>1 DEF OwedInv, Owed
    <3>3. answering' = answering /\ toServer' = toServer
      BY <1>5, <2>5 DEF ClientReads
    <3> QED
      BY <1>1, <2>2, <3>2, <3>3 DEF OwedInv
  <2> QED
    BY <2>3, <2>4, <2>5
<1>6. CASE ClientAnswers
  <2> DEFINE m == Head(answering)
  <2>1. /\ m \in MessageOf({"error", "section"}) /\ m.kind \in {"error", "section"}
        /\ \A K : IdsOf(answering, K) = IF m.kind \in K THEN IdsOf(answering', K) \cup {m.id}
             ELSE IdsOf(answering', K)
        /\ \A K : Distinct(answering, K) =>
                    Distinct(answering', K)
                        /\ (m.kind \in K => m.id \notin IdsOf(answering', K))
    BY <1>1, <1>6, Shrinks DEF ClientAnswers, WireTypes
  <2>2. m \in MessageOf(ToServer)
    BY <2>1 DEF MessageOf, ToServer
  <2>3. Owed(answering) = Owed(answering') \cup {m.id} /\ m.id \notin Owed(answering')
            /\ Distinct(answering', Dues)
    BY <1>1, <2>1 DEF OwedInv, Owed, Dues
  <2>4. m.id \notin Owed(toServer) /\ m.id \in outbound
    BY <1>1, <2>3 DEF OwedInv
  <2>5. \A K : IdsOf(toServer', K) = IF m.kind \in K THEN IdsOf(toServer, K) \cup {m.id}
            ELSE IdsOf(toServer, K)
    BY <1>1, <1>6, <2>2, Grows DEF WireTypes, ClientAnswers
  <2>6. Distinct(toServer', Dues)
    BY <1>1, <1>6, <2>2, <2>4, Grows DEF OwedInv, WireTypes, ClientAnswers, Owed
  <2>7. /\ Owed(toServer') = Owed(toServer) \cup {m.id}
        /\ IdsOf(toServer', {"section"}) \subseteq IdsOf(toServer, {"section"}) \cup {m.id}
        /\ IdsOf(toServer', {"created"}) = IdsOf(toServer, {"created"})
    BY <2>1, <2>5 DEF Owed, Dues
  <2>8. UNCHANGED <<ids, outbound, creates, forward, toClient>>
    BY <1>6 DEF ClientAnswers
  <2> QED
    BY <1>1, <2>3, <2>4, <2>6, <2>7, <2>8 DEF OwedInv
<1>7. CASE Route
  <2> DEFINE m == Head(toServer)
  <2>1. /\ m \in MessageOf(ToServer) /\ m.kind \in ToServer
        /\ \A K : IdsOf(toServer, K) = IF m.kind \in K THEN IdsOf(toServer', K) \cup {m.id}
             ELSE IdsOf(toServer', K)
        /\ \A K : Distinct(toServer, K) =>
                    Distinct(toServer', K) /\ (m.kind \in K => m.id \notin IdsOf(toServer', K))
    BY <1>1, <1>7, Shrinks DEF Route, WireTypes
  <2>2. Distinct(toServer', Dues) /\ (m.kind \in Dues => m.id \notin Owed(toServer'))
    BY <1>1, <2>1 DEF OwedInv, Owed
  <2>3. /\ Owed(toServer) = Owed(toServer') \cup (IF m.kind \in Dues THEN {m.id} ELSE {})
        /\ IdsOf(toServer', {"created"}) \subseteq IdsOf(toServer, {"created"})
        /\ IdsOf(toServer', {"section"}) \subseteq IdsOf(toServer, {"section"})
        /\ m.kind = "created" => m.id \in IdsOf(toServer, {"created"})
        /\ m.kind = "section" => m.id \in IdsOf(toServer, {"section"})
    BY <2>1 DEF Owed
  <2>4. UNCHANGED <<ids, outbound, toClient, answering>>
    BY <1>7 DEF Route
  <2>5. CASE m.id \in creates /\ m.kind \in {"created", "error"}
    <3>1. creates' = creates \ {m.id} /\ forward' = forward /\ m.kind \in Dues
      BY <1>7, <2>5 DEF Route, Dues
    <3>2. IdsOf(toServer', {"created"}) \subseteq Owed(toServer')
              /\ IdsOf(toClient', {"create"}) \subseteq Owed(toClient')
      <4>1. \A K, q : K \subseteq Dues => IdsOf(q, K) \subseteq IdsOf(q, Dues)
        BY DEF IdsOf, Of
      <4> QED
        BY <4>1 DEF Owed, Dues
    <3>3. m.id \notin Owed(toClient)
      BY <1>1, <2>3, <3>1 DEF OwedInv
    <3>4. m.id \notin outbound
      BY <1>1, <2>5 DEF OwedInv
    <3>5. IdsOf(toServer', {"created"}) \subseteq creates'
              /\ IdsOf(toClient', {"create"}) \subseteq creates'
      BY <1>1, <2>2, <2>3, <2>4, <3>1, <3>2, <3>3 DEF OwedInv
    <3> QED
      BY <1>1, <2>2, <2>3, <2>4, <3>1, <3>4, <3>5 DEF OwedInv
  <2>6. CASE ~(m.id \in creates /\ m.kind \in {"created", "error"})
    <3>1. forward' = Append(forward, m) /\ creates' = creates
      BY <1>7, <2>6 DEF Route
    <3>2. m.kind # "created"
      BY <1>1, <2>3, <2>6 DEF OwedInv
    <3>3. m \in MessageOf({"changed", "request", "error", "section"})
      BY <2>1, <3>2 DEF MessageOf, ToServer
    <3>4. m.kind \in Dues => m.id \in outbound /\ m.id \notin Owed(forward)
      BY <1>1, <2>1, <2>3, <2>6, <3>2 DEF OwedInv, Dues, ToServer
    <3>5. Owed(forward') = (IF m.kind \in Dues THEN Owed(forward) \cup {m.id}
              ELSE Owed(forward)) /\ Distinct(forward', Dues)
      BY <1>1, <3>1, <3>3, <3>4, Grows DEF OwedInv, WireTypes, Owed
    <3>6. CASE m.kind \in Dues
      BY <1>1, <2>2, <2>3, <2>4, <3>1, <3>4, <3>5, <3>6 DEF OwedInv
    <3>7. CASE m.kind \notin Dues
      BY <1>1, <2>2, <2>3, <2>4, <3>1, <3>4, <3>5, <3>7 DEF OwedInv
    <3> QED
      BY <3>6, <3>7
  <2> QED
    BY <2>5, <2>6
<1>8. ASSUME NEW kind, Take(kind)
      PROVE  /\ \A K : IdsOf(forward, K) = IF kind \in K THEN IdsOf(forward', K)
                  \cup {Head(forward).id} ELSE IdsOf(forward', K)
             /\ \A K : Distinct(forward, K) =>
                         Distinct(forward', K)
                             /\ (kind \in K => Head(forward).id \notin IdsOf(forward', K))
  BY <1>1, <1>8, Shrinks DEF Take, WireTypes
<1>9. ASSUME NEW kind \in ToClient \ {"pull", "create"}, NEW id \in Ids,
                 NEW c \in Wire(ToClient)
      PROVE  LET d == Append(c, Message(kind, id, None))
             IN  /\ IdsOf(d, {"pull"}) = IdsOf(c, {"pull"})
                      /\ IdsOf(d, {"create"}) = IdsOf(c, {"create"})
                 /\ Owed(d) = Owed(c) /\ (Distinct(c, Dues) => Distinct(d, Dues))
  <2> DEFINE msg == Message(kind, id, None)
  <2>1. msg \in MessageOf(ToClient) /\ msg.kind = kind
    BY NoBody, MessageIs DEF Ids
  <2>2. kind \notin Dues
    BY DEF Dues, ToClient
  <2> HIDE DEF msg
  <2>3. /\ \A K : IdsOf(Append(c, msg), K) = IF kind \in K THEN IdsOf(c, K) \cup {msg.id}
             ELSE IdsOf(c, K)
        /\ Distinct(c, Dues) => Distinct(Append(c, msg), Dues)
    BY <2>1, <2>2, Grows
  <2>4. /\ IdsOf(Append(c, msg), {"pull"}) = IdsOf(c, {"pull"})
        /\ IdsOf(Append(c, msg), {"create"}) = IdsOf(c, {"create"})
        /\ Owed(Append(c, msg)) = Owed(c)
    BY <2>2, <2>3 DEF Owed
  <2> QED
    BY <2>3, <2>4 DEF msg
<1>10. ASSUME NEW kind \in {"pull", "create"}, ids < MaxIds,
              toClient' = Append(toClient, Message(kind, ids + 1, None))
       PROVE  /\ \A K : IdsOf(toClient', K)
                   = IF kind \in K THEN IdsOf(toClient, K) \cup {ids + 1}
                       ELSE IdsOf(toClient, K)
              /\ Owed(toClient') = Owed(toClient) \cup {ids + 1} /\ Distinct(toClient', Dues)
  <2> DEFINE msg == Message(kind, ids + 1, None)
  <2>1. ids + 1 \in 0..MaxIds /\ ids + 1 \notin Owed(toClient)
    BY <1>10, NewId
  <2>2. msg \in MessageOf(ToClient) /\ msg.kind = kind /\ msg.id = ids + 1 /\ kind \in Dues
    BY <2>1, NoBody, MessageIs DEF ToClient, Dues
  <2> HIDE DEF msg
  <2>3. toClient' = Append(toClient, msg)
    BY <1>10 DEF msg
  <2>4. /\ \A K : IdsOf(toClient', K) = IF kind \in K THEN IdsOf(toClient, K) \cup {ids + 1}
             ELSE IdsOf(toClient, K)
        /\ Distinct(toClient', Dues)
    BY <1>1, <2>1, <2>2, <2>3, Grows DEF WireTypes, OwedInv, Owed
  <2> QED
    BY <2>2, <2>4 DEF Owed
<1>11. CASE DidChangeConfiguration
  <2>1. Owed(forward') = Owed(forward) /\ Distinct(forward', Dues)
    BY <1>1, <1>8, <1>11 DEF DidChangeConfiguration, OwedInv, Owed, Dues
  <2>2. UNCHANGED <<creates, answering, toServer>>
    BY <1>11 DEF DidChangeConfiguration
  <2>3. CASE "pull" \in caps
    <3>1. ids < MaxIds /\ Pull
      BY <1>11, <2>3 DEF DidChangeConfiguration
    <3>2. /\ IdsOf(toClient', {"pull"}) = IdsOf(toClient, {"pull"}) \cup {ids + 1}
          /\ IdsOf(toClient', {"create"}) = IdsOf(toClient, {"create"})
          /\ Owed(toClient') = Owed(toClient) \cup {ids + 1} /\ Distinct(toClient', Dues)
      BY <1>10, <3>1 DEF Pull
    <3>3. ids' = ids + 1 /\ outbound' = outbound \cup {ids + 1}
              /\ 1..ids' = 1..ids \cup {ids + 1}
      BY <1>1, <3>1 DEF Pull, WireTypes
    <3>4. /\ ids + 1 \notin outbound \cup creates
          /\ ids + 1 \notin Owed(toClient) \cup Owed(toServer) \cup Owed(answering)
               \cup Owed(forward)
      BY <3>1, NewId
    <3> QED
      BY <1>1, <2>1, <2>2, <3>2, <3>3, <3>4 DEF OwedInv
  <2>4. CASE "pull" \notin caps
    BY <1>1, <1>11, <2>1, <2>2, <2>4 DEF OwedInv, DidChangeConfiguration
  <2> QED
    BY <2>3, <2>4
<1>12. CASE HandleOutboundResponse
  <2> DEFINE x == Head(forward).id
  <2>1. Owed(forward) = Owed(forward') \cup {x} /\ Distinct(forward', Dues)
            /\ x \notin Owed(forward')
    BY <1>1, <1>8, <1>12 DEF HandleOutboundResponse, OwedInv, Owed, Dues
  <2>2. UNCHANGED <<ids, creates, answering, toServer, toClient>> /\ outbound' = outbound \ {x}
    BY <1>12 DEF HandleOutboundResponse, Answer
  <2>3. x \notin Owed(toClient) \cup Owed(toServer) \cup Owed(answering)
    BY <1>1, <2>1 DEF OwedInv
  <2>4. /\ IdsOf(toClient, {"pull"}) \subseteq Owed(toClient)
        /\ IdsOf(toServer, {"section"}) \subseteq Owed(toServer)
    <3>1. \A K, q : K \subseteq Dues => IdsOf(q, K) \subseteq IdsOf(q, Dues)
      BY DEF IdsOf, Of
    <3> QED
      BY <3>1 DEF Owed, Dues
  <2> HIDE DEF x
  <2> QED
    BY <1>1, <2>1, <2>2, <2>3, <2>4 DEF OwedInv
<1>13. CASE Create
  <2>1. /\ IdsOf(toClient', {"create"}) = IdsOf(toClient, {"create"}) \cup {ids + 1}
        /\ IdsOf(toClient', {"pull"}) = IdsOf(toClient, {"pull"})
        /\ Owed(toClient') = Owed(toClient) \cup {ids + 1} /\ Distinct(toClient', Dues)
    BY <1>10, <1>13 DEF Create
  <2>2. ids' = ids + 1 /\ creates' = creates \cup {ids + 1} /\ 1..ids' = 1..ids \cup {ids + 1}
    BY <1>1, <1>13 DEF Create, WireTypes
  <2>3. /\ ids + 1 \notin outbound \cup creates
        /\ ids + 1 \notin Owed(toClient) \cup Owed(toServer) \cup Owed(answering)
             \cup Owed(forward)
    BY <1>13, NewId DEF Create
  <2>4. UNCHANGED <<outbound, answering, toServer, forward>>
    BY <1>13 DEF Create
  <2> QED
    BY <1>1, <2>1, <2>2, <2>3, <2>4 DEF OwedInv
<1>14. CASE StartRequest
  <2>1. Owed(forward') = Owed(forward) /\ Distinct(forward', Dues)
    BY <1>1, <1>8, <1>14 DEF StartRequest, OwedInv, Owed, Dues
  <2> QED
    BY <1>1, <1>14, <2>1 DEF OwedInv, StartRequest
<1>15. ASSUME UNCHANGED <<ids, outbound, creates, toServer, answering, forward>>,
              toClient' \in Wire(ToClient), Owed(toClient') = Owed(toClient),
              Distinct(toClient, Dues) => Distinct(toClient', Dues),
              IdsOf(toClient', {"pull"}) = IdsOf(toClient, {"pull"}),
              IdsOf(toClient', {"create"}) = IdsOf(toClient, {"create"})
       PROVE  OwedInv'
  BY <1>1, <1>15 DEF OwedInv
<1>16. toClient' \in Wire(ToClient)
  BY WireTypesStep DEF WireTypes
<1>17. CASE Begin \/ Report \/ End
  <2>1. arc.id \in Ids
    BY <1>1, <1>17 DEF Begin, Report, End, WireTypes, Reporters
  <2>2. \/ toClient' = toClient
        \/ \E kind \in ToClient \ {"pull", "create"} :
             toClient' = Append(toClient, Message(kind, arc.id, None))
    BY <1>17 DEF Begin, Report, End, Sends, ToClient
  <2>3. UNCHANGED <<ids, outbound, creates, toServer, answering, forward>>
    BY <1>17 DEF Begin, Report, End
  <2>4. CASE toClient' = toClient
    BY <1>15, <1>16, <2>3, <2>4
  <2>5. CASE toClient' # toClient
    <3>1. PICK kind \in ToClient \ {"pull", "create"} :
                   toClient' = Append(toClient, Message(kind, arc.id, None))
      BY <2>2, <2>5
    <3> QED
      BY <1>1, <1>9, <1>15, <1>16, <2>1, <2>3, <3>1 DEF WireTypes
  <2> QED
    BY <2>4, <2>5
<1>18. CASE Return
  <2>1. arc.id \in Ids
    BY <1>1, <1>18 DEF Return, WireTypes, Reporters
  <2>2. PICK mid \in Wire(ToClient) :
           /\ mid = toClient \/ mid = Append(toClient, Message("end", arc.id, None))
           /\ toClient' = mid \/ toClient' = Append(mid, Message("reply", arc.id, None))
    BY <1>1, <1>18, <2>1, ReturnSends DEF WireTypes
  <2>3. /\ IdsOf(mid, {"pull"}) = IdsOf(toClient, {"pull"})
             /\ IdsOf(mid, {"create"}) = IdsOf(toClient, {"create"})
        /\ Owed(mid) = Owed(toClient) /\ (Distinct(toClient, Dues) => Distinct(mid, Dues))
    <3>1. CASE mid = toClient
      BY <3>1
    <3>2. CASE mid = Append(toClient, Message("end", arc.id, None))
      BY <1>1, <1>9, <2>1, <3>2 DEF ToClient, WireTypes
    <3> QED
      BY <2>2, <3>1, <3>2
  <2>4. /\ IdsOf(toClient', {"pull"}) = IdsOf(mid, {"pull"})
             /\ IdsOf(toClient', {"create"}) = IdsOf(mid, {"create"})
        /\ Owed(toClient') = Owed(mid) /\ (Distinct(mid, Dues) => Distinct(toClient', Dues))
    <3>1. CASE toClient' = mid
      BY <3>1
    <3>2. CASE toClient' = Append(mid, Message("reply", arc.id, None))
      BY <1>9, <2>1, <3>2 DEF ToClient
    <3> QED
      BY <2>2, <3>1, <3>2
  <2>5. UNCHANGED <<ids, outbound, creates, toServer, answering, forward>>
    BY <1>18 DEF Return
  <2> QED
    BY <1>15, <1>16, <2>3, <2>4, <2>5
<1>19. CASE UNCHANGED outboundVars
  BY <1>1, <1>19 DEF outboundVars, OwedInv
<1> QED
  BY <1>3, <1>4, <1>5, <1>6, <1>7, <1>11, <1>12, <1>13, <1>14, <1>17, <1>18, <1>19
     DEF OutboundNext

-----------------------------------------------------------------------------
(* A message that enters the first wire, moves to the second, is dropped   *)
(* between the two, or is handled.                                         *)
LEMMA PipeEnter ==
  ASSUME NEW T, NEW s \in Seq(T), NEW f, NEW m \in T, NEW M, NEW G
  PROVE  /\ m \in M /\ m \in G => Pipe(Append(s, m), f, M, G)
         /\ m \in M => ~Dry(Append(s, m), f, M)
         /\ m \notin M /\ Pipe(s, f, M, G) => Pipe(Append(s, m), f, M, G)
         /\ m \notin M => (Dry(Append(s, m), f, M) <=> Dry(s, f, M))
<1>1. /\ At(Append(s, m), M) = At(s, M) \cup (IF m \in M THEN {Len(s) + 1} ELSE {})
      /\ m \in M /\ m \in G => EndsIn(Append(s, m), M, G)
      /\ m \notin M /\ EndsIn(s, M, G) => EndsIn(Append(s, m), M, G)
  BY AtAppend
<1>2. m \notin M => At(Append(s, m), M) = At(s, M)
  BY <1>1
<1>3. m \in M => At(Append(s, m), M) # {}
  BY <1>1
<1> QED
  BY <1>1, <1>2, <1>3 DEF Pipe, Dry

LEMMA PipeDrop ==
  ASSUME NEW T, NEW s \in Seq(T), s # <<>>, NEW f, NEW M, NEW G, Head(s) \notin M
  PROVE  /\ Pipe(s, f, M, G) => Pipe(Tail(s), f, M, G)
         /\ Dry(Tail(s), f, M) <=> Dry(s, f, M)
BY AtTail DEF Pipe, Dry

LEMMA PipeMove ==
  ASSUME NEW T, NEW s \in Seq(T), s # <<>>, NEW U, NEW f \in Seq(U), Head(s) \in U, NEW M, NEW G
  PROVE  /\ Pipe(s, f, M, G) => Pipe(Tail(s), Append(f, Head(s)), M, G)
         /\ Dry(Tail(s), Append(f, Head(s)), M) <=> Dry(s, f, M)
<1> DEFINE m == Head(s)
<1>1. /\ At(Append(f, m), M) = At(f, M) \cup (IF m \in M THEN {Len(f) + 1} ELSE {})
      /\ m \in M /\ m \in G => EndsIn(Append(f, m), M, G)
      /\ m \notin M /\ EndsIn(f, M, G) => EndsIn(Append(f, m), M, G)
  BY AtAppend
<1>2. (m \notin M => At(Append(f, m), M) = At(f, M)) /\ (m \in M => At(Append(f, m), M) # {})
  BY <1>1
<1>3. /\ At(s, M) = {} => At(Tail(s), M) = {} /\ m \notin M
      /\ EndsIn(s, M, G) => EndsIn(Tail(s), M, G) \/ (At(Tail(s), M) = {} /\ m \in M /\ m \in G)
      /\ m \notin M /\ At(s, M) # {} => At(Tail(s), M) # {}
  BY AtTail
<1> HIDE DEF m
<1>4. Pipe(s, f, M, G) => Pipe(Tail(s), Append(f, m), M, G)
  BY <1>1, <1>3 DEF Pipe
<1>5. Dry(Tail(s), Append(f, m), M) <=> Dry(s, f, M)
  BY <1>2, <1>3 DEF Dry
<1> QED
  BY <1>4, <1>5 DEF m

LEMMA PipeLeave ==
  ASSUME NEW s, NEW U, NEW f \in Seq(U), f # <<>>, NEW M, NEW G
  PROVE  /\ Head(f) \notin M /\ Pipe(s, f, M, G) => Pipe(s, Tail(f), M, G)
         /\ Head(f) \notin M => (Dry(s, Tail(f), M) <=> Dry(s, f, M))
         /\ Head(f) \in M => ~Dry(s, f, M)
         /\ Head(f) \in M /\ Pipe(s, f, M, G) =>
              Pipe(s, Tail(f), M, G) \/ (Dry(s, Tail(f), M) /\ Head(f) \in G)
<1>1. /\ At(f, M) = {} => At(Tail(f), M) = {} /\ Head(f) \notin M
      /\ EndsIn(f, M, G) => EndsIn(Tail(f), M, G)
           \/ (At(Tail(f), M) = {} /\ Head(f) \in M /\ Head(f) \in G)
      /\ Head(f) \notin M /\ At(f, M) # {} => At(Tail(f), M) # {}
  BY AtTail
<1> QED
  BY <1>1 DEF Pipe, Dry

LEMMA PipeSame ==
  ASSUME NEW s, NEW f, NEW M, NEW N, NEW G,
         \A i \in 1..Len(s) : s[i] \in M <=> s[i] \in N,
         \A i \in 1..Len(f) : f[i] \in M <=> f[i] \in N
  PROVE  (Pipe(s, f, M, G) <=> Pipe(s, f, N, G)) /\ (Dry(s, f, M) <=> Dry(s, f, N))
<1>1. At(s, M) = At(s, N) /\ (EndsIn(s, M, G) <=> EndsIn(s, N, G))
  BY AtSame
<1>2. At(f, M) = At(f, N) /\ (EndsIn(f, M, G) <=> EndsIn(f, N, G))
  BY AtSame
<1> QED
  BY <1>1, <1>2 DEF Pipe, Dry

(* A message whose id is not owed on a wire is no answer there, and what   *)
(* happens to its id changes no answer there.                              *)
LEMMA AnswersSame ==
  ASSUME NEW kinds, NEW q \in Wire(kinds), NEW x, x \notin Owed(q), NEW ob, NEW pb,
         \A y : y # x => (y \in ob <=> y \in pb),
         NEW i \in 1..Len(q)
  PROVE  (q[i].kind \in {"section", "error"} /\ q[i].id \in ob)
           <=> (q[i].kind \in {"section", "error"} /\ q[i].id \in pb)
<1>1. q[i].kind \in {"section", "error"} => q[i].id \in Owed(q)
  BY DEF Owed, IdsOf, Of, Dues
<1> QED
  BY <1>1

LEMMA AnswersKept ==
  ASSUME OutInv, NEW x, x \notin Owed(toServer), x \notin Owed(forward'),
         toServer' = toServer, forward' \in Wire({"changed", "request", "error", "section"}),
         \A y : y # x => (y \in outbound <=> y \in outbound')
  PROVE  /\ Pipe(toServer', forward', Answers', Good)
              <=> Pipe(toServer, forward', Answers, Good)
         /\ Dry(toServer', forward', Answers') <=> Dry(toServer, forward', Answers)
<1>1. toServer \in Wire(ToServer)
  BY DEF OutInv, WireTypes
<1>2. ASSUME NEW kinds, NEW q \in Wire(kinds), x \notin Owed(q), NEW i \in 1..Len(q)
      PROVE  q[i] \in Answers <=> q[i] \in Answers'
  <2>1. (q[i].kind \in {"section", "error"} /\ q[i].id \in outbound)
          <=> (q[i].kind \in {"section", "error"} /\ q[i].id \in outbound')
    BY <1>2, AnswersSame
  <2> QED
    BY <2>1 DEF Answers
<1>3. /\ \A i \in 1..Len(toServer) : toServer[i] \in Answers <=> toServer[i] \in Answers'
      /\ \A i \in 1..Len(forward') : forward'[i] \in Answers <=> forward'[i] \in Answers'
  BY <1>1, <1>2
<1> QED
  BY <1>3, PipeSame

-----------------------------------------------------------------------------
(* Every step leaves the client's settings in force or on their way.       *)
LEMMA ConfigStep ==
  ASSUME OutInv, [OutboundNext]_outboundVars
  PROVE  ConfigInv'
<1> USE DEF configVars, progressVars
<1>1. WireTypes /\ OwedInv /\ ConfigInv /\ WireTypes' /\ OwedInv'
  BY WireTypesStep, OwedStep DEF OutInv
<1>2. /\ toServer \in Seq(Messages) /\ toServer' \in Seq(Messages)
      /\ forward \in Seq(MessageOf({"changed", "request", "error", "section"}))
      /\ answering \in Seq(MessageOf({"error", "section"}))
      /\ toClient \in Wire(ToClient)
  BY <1>1 DEF WireTypes, Wire, Messages
<1>3. caps' = caps
  BY
     DEF OutboundNext, outboundVars, ChangeSettings, RequestWithToken, ClientReads,
         ClientAnswers,
         Route, DidChangeConfiguration, HandleOutboundResponse, Create, StartRequest, Begin,
         Report, End, Return
<1>4. ASSUME "pull" \notin caps PROVE outbound' = {}
  <2>1. outbound = {}
    BY <1>1, <1>4 DEF ConfigInv
  <2> QED
    BY <1>4, <2>1
    DEF OutboundNext, outboundVars, ChangeSettings, RequestWithToken, ClientReads, ClientAnswers,
        Route, DidChangeConfiguration, HandleOutboundResponse, Answer, Create, StartRequest,
            Begin,
        Report, End, Return
<1> SUFFICES ASSUME changes' > 0 PROVE IF "pull" \in caps THEN Pulling' ELSE Pushing'
  BY <1>3, <1>4 DEF ConfigInv
(* A step that only sends: nothing that the settings depend on changes.    *)
<1>5. ASSUME UNCHANGED <<settings, changes, options, refused, outbound, answering, toServer,
                 forward>>,
             IdsOf(toClient, {"pull"}) \subseteq IdsOf(toClient', {"pull"})
      PROVE  IF "pull" \in caps THEN Pulling' ELSE Pushing'
  BY <1>1, <1>5 DEF ConfigInv, Pulling, Pushing, Answers, Good, Telling, Matches
<1>6. CASE ChangeSettings
  <2> DEFINE m == Message("changed", 0, settings')
  <2>1. m \in Messages /\ m.kind = "changed" /\ m.body = settings'
    <3>1. settings' \in Body /\ 0 \in 0..MaxIds /\ "changed" \in ToServer
      BY <1>1, OutboundAssumption DEF WireTypes, ToServer
    <3> QED
      BY <3>1, MessageIs DEF Messages
  <2>2. m \in Changes /\ m \in Telling'
    BY <2>1 DEF Changes, Telling
  <2> HIDE DEF m
  <2>3. toServer' = Append(toServer, m) /\ forward' = forward
    BY <1>6 DEF ChangeSettings, m
  <2>4. ~Dry(toServer', forward', Changes) /\ Pipe(toServer', forward', Changes, Telling')
    BY <1>2, <2>1, <2>2, <2>3, PipeEnter
  <2> QED
    BY <2>4 DEF Pulling, Pushing
(* A message that is neither a change nor an answer enters.                *)
<1>7. ASSUME UNCHANGED <<settings, changes, options, refused, outbound, answering, forward>>,
             IdsOf(toClient, {"pull"}) \subseteq IdsOf(toClient', {"pull"}),
             NEW m \in Messages, m \notin Changes, m \notin Answers,
                 toServer' = Append(toServer, m)
      PROVE  IF "pull" \in caps THEN Pulling' ELSE Pushing'
  <2>1. Answers' = Answers /\ Good' = Good /\ Telling' = Telling /\ Matches' = Matches
    BY <1>7 DEF Answers, Good, Telling, Matches
  <2>2. /\ Dry(toServer', forward', Changes) <=> Dry(toServer, forward, Changes)
        /\ Dry(toServer', forward', Answers) <=> Dry(toServer, forward, Answers)
        /\ Pipe(toServer, forward, Answers, Good) => Pipe(toServer', forward', Answers, Good)
        /\ Pipe(toServer, forward, Changes, Telling) =>
             Pipe(toServer', forward', Changes, Telling)
    BY <1>2, <1>7, PipeEnter
  <2> QED
    BY <1>1, <1>7, <2>1, <2>2 DEF ConfigInv, Pulling, Pushing
<1>8. CASE RequestWithToken
  <2>1. ids + 1 \in 0..MaxIds /\ ids' = ids + 1
    BY <1>8, NewId DEF RequestWithToken
  <2>2. Message("request", ids', None) \in Messages
            /\ Message("request", ids', None).kind = "request"
    BY <2>1, NoBody, MessageIs DEF Messages, ToServer
  <2>3. Message("request", ids', None) \notin Changes
            /\ Message("request", ids', None) \notin Answers
    BY <2>2 DEF Changes, Answers
  <2> QED
    BY <1>7, <1>8, <2>2, <2>3 DEF RequestWithToken
<1>9. CASE ClientReads
  <2> DEFINE m == Head(toClient)
  <2>1. /\ m.kind \in ToClient /\ m.id \in 0..MaxIds
        /\ m.kind # "pull" => IdsOf(toClient, {"pull"}) = IdsOf(toClient', {"pull"})
        /\ \A K : m.kind \in K => m.id \in IdsOf(toClient, K)
    <3>1. toClient # <<>> /\ toClient' = Tail(toClient)
      BY <1>9 DEF ClientReads
    <3>2. m.kind \in ToClient /\ m.id \in 0..MaxIds
      BY <1>2, <3>1, Shrinks
    <3>3. \A K : m.kind \in K => m.id \in IdsOf(toClient, K)
      BY <1>2, <3>1, Shrinks
    <3>4. \A K : IdsOf(toClient, K) = IF m.kind \in K THEN IdsOf(toClient', K) \cup {m.id}
                                                       ELSE IdsOf(toClient', K)
      BY <1>2, <3>1, Shrinks
    <3>5. m.kind \notin {"pull"} => IdsOf(toClient, {"pull"}) = IdsOf(toClient', {"pull"})
      BY <3>4
    <3> QED
      BY <3>2, <3>3, <3>5
  <2>2. UNCHANGED <<settings, changes, options, refused, outbound, forward>>
    BY <1>9 DEF ClientReads
  <2>3. CASE m.kind = "pull"
    <3>1. m.id \in outbound /\ "pull" \in caps
      BY <1>1, <2>1, <2>3 DEF OwedInv, ConfigInv
    <3>2. PICK msg \in {Message("section", m.id, settings), Message("error", m.id, None)} :
            answering' = Append(answering, msg)
      BY <1>9, <2>3 DEF ClientReads
    <3>3. msg \in MessageOf({"error", "section"}) /\ msg \in Good
      <4>1. settings \in Body
        BY <1>1 DEF WireTypes
      <4> QED
        BY <2>1, <3>2, <4>1, NoBody, MessageIs DEF Good, Messages, ToServer
    <3>4. answering' # <<>> /\ answering'[Len(answering')] = msg
      BY <1>2, <3>2, <3>3, AppendIs
    <3>5. Good' = Good
      BY <2>2 DEF Good
    <3> QED
      BY <3>1, <3>3, <3>4, <3>5 DEF Pulling
  <2>4. CASE m.kind = "create"
    <3>1. PICK kind \in {"created", "error"} :
                   toServer' = Append(toServer, Message(kind, m.id, None))
      BY <1>9, <2>4 DEF ClientReads
    <3>2. m.id \in creates /\ m.id \notin outbound
      BY <1>1, <2>1, <2>4 DEF OwedInv
    <3>3. /\ Message(kind, m.id, None) \in Messages /\ Message(kind, m.id, None).kind = kind
          /\ Message(kind, m.id, None).id = m.id
      BY <2>1, NoBody, MessageIs DEF Messages, ToServer
    <3>4. Message(kind, m.id, None) \notin Changes /\ Message(kind, m.id, None) \notin Answers
      BY <3>2, <3>3 DEF Changes, Answers
    <3>5. answering' = answering
      BY <1>9, <2>4 DEF ClientReads
    <3> QED
      BY <1>7, <2>1, <2>2, <2>4, <3>1, <3>3, <3>4, <3>5
  <2>5. CASE m.kind \notin {"pull", "create"}
    <3>1. answering' = answering /\ toServer' = toServer
      BY <1>9, <2>5 DEF ClientReads
    <3> QED
      BY <1>5, <2>1, <2>2, <2>5, <3>1
  <2> QED
    BY <2>3, <2>4, <2>5
<1>10. CASE ClientAnswers
  <2> DEFINE m == Head(answering)
  <2>1. m \in MessageOf({"error", "section"}) /\ m.kind \in {"error", "section"}
            /\ m.id \in Owed(answering)
    <3>1. /\ m \in MessageOf({"error", "section"}) /\ m.kind \in {"error", "section"}
          /\ \A K : m.kind \in K => m.id \in IdsOf(answering, K)
      BY <1>1, <1>10, Shrinks DEF ClientAnswers, WireTypes
    <3> QED
      BY <3>1 DEF Owed, Dues
  <2>2. m.id \in outbound /\ "pull" \in caps
    BY <1>1, <2>1 DEF OwedInv, ConfigInv
  <2>3. m \in Messages
    BY <2>1 DEF MessageOf, Messages, ToServer
  <2>4. m \in Answers /\ m \notin Changes
    BY <2>1, <2>2, <2>3 DEF Answers, Changes
  <2>5. UNCHANGED <<settings, changes, options, refused, outbound, forward, toClient>>
    BY <1>10 DEF ClientAnswers
  <2>6. answering # <<>> /\ answering' = Tail(answering) /\ toServer' = Append(toServer, m)
    BY <1>10 DEF ClientAnswers
  <2>7. Good' = Good /\ Answers' = Answers
    BY <2>5 DEF Good, Answers
  <2>8. Pulling
    BY <1>1, <2>2, <2>5 DEF ConfigInv
  <2>9. CASE ~Dry(toServer, forward, Changes) \/ IdsOf(toClient, {"pull"}) # {}
    <3>1. Dry(toServer', forward', Changes) <=> Dry(toServer, forward, Changes)
      BY <1>2, <2>3, <2>4, <2>5, <2>6, PipeEnter
    <3> QED
      BY <2>2, <2>5, <2>9, <3>1 DEF Pulling
  <2>10. CASE answering[Len(answering)] \in Good
    <3>1. CASE Len(answering) = 1
      <4>1. answering' = <<>> /\ m = answering[Len(answering)]
        BY <1>2, <2>6, <3>1, TailIs
      <4>2. Pipe(toServer', forward', Answers, Good)
        BY <1>2, <2>3, <2>4, <2>6, <2>10, <4>1, PipeEnter
      <4> QED
        BY <2>2, <2>7, <4>1, <4>2 DEF Pulling
    <3>2. CASE Len(answering) # 1
      <4>1. /\ Len(answering') = Len(answering) - 1 /\ Len(answering') \in Nat
                 /\ Len(answering) \in Nat
            /\ \A i \in 1..Len(answering') : answering'[i] = answering[i + 1]
        BY <1>2, <2>6, TailIs
      <4>2. Len(answering') \in 1..Len(answering') /\ Len(answering') + 1 = Len(answering)
        BY <3>2, <4>1
      <4>3. answering' # <<>> /\ answering'[Len(answering')] = answering[Len(answering)]
        BY <4>1, <4>2
      <4> QED
        BY <2>2, <2>7, <2>10, <4>3 DEF Pulling
    <3> QED
      BY <3>1, <3>2
  <2> QED
    BY <2>6, <2>8, <2>9, <2>10 DEF Pulling
<1>11. CASE Route
  <2> DEFINE m == Head(toServer)
  <2>1. /\ m \in Messages /\ m.kind \in ToServer
        /\ \A K : m.kind \in K => m.id \in IdsOf(toServer, K)
    BY <1>1, <1>11, Shrinks DEF Route, WireTypes, Messages
  <2>2. UNCHANGED <<settings, changes, options, refused, outbound, answering, toClient>>
        /\ toServer # <<>> /\ toServer' = Tail(toServer)
    BY <1>11 DEF Route
  <2>3. Answers' = Answers /\ Good' = Good /\ Telling' = Telling /\ Matches' = Matches
    BY <2>2 DEF Answers, Good, Telling, Matches
  <2>4. ASSUME NEW M \in {Answers, Changes}, NEW G
        PROVE  /\ Pipe(toServer, forward, M, G) => Pipe(toServer', forward', M, G)
               /\ Dry(toServer', forward', M) <=> Dry(toServer, forward, M)
    <3>1. CASE m.id \in creates /\ m.kind \in {"created", "error"}
      <4>1. m \notin M
        BY <1>1, <3>1 DEF OwedInv, Answers, Changes
      <4>2. forward' = forward
        BY <1>11, <3>1 DEF Route
      <4> QED
        BY <1>2, <2>2, <4>1, <4>2, PipeDrop
    <3>2. CASE ~(m.id \in creates /\ m.kind \in {"created", "error"})
      <4>1. forward' = Append(forward, m)
        BY <1>11, <3>2 DEF Route
      <4>2. m.kind # "created"
        BY <1>1, <2>1, <3>2 DEF OwedInv
      <4>3. m \in MessageOf({"changed", "request", "error", "section"})
        BY <2>1, <4>2 DEF MessageOf, ToServer, Messages
      <4> QED
        BY <1>2, <2>2, <4>1, <4>3, PipeMove
    <3> QED
      BY <3>1, <3>2
  <2> QED
    BY <1>1, <2>2, <2>3, <2>4 DEF ConfigInv, Pulling, Pushing
(* A message of the settings is handled.                                   *)
<1>12. ASSUME NEW section \in Body, section = settings, settings' = settings, Apply(section)
       PROVE  Matches'
  <2> SUFFICES ASSUME settings \in Section, NEW g \in Groups, settings[g] # None
               PROVE  options'[g] = settings[g]
    BY <1>12 DEF Matches
  <2> QED
    BY <1>12 DEF Apply
<1>13. ASSUME NEW kind, Take(kind)
       PROVE  /\ forward # <<>> /\ forward' = Tail(forward) /\ Head(forward).kind = kind
              /\ Head(forward) \in Messages
              /\ forward' \in Wire({"changed", "request", "error", "section"})
              /\ \A K : kind \in K => Head(forward).id \in IdsOf(forward, K)
              /\ kind \in Dues => Head(forward).id \notin Owed(forward')
  <2>1. /\ forward # <<>> /\ forward' = Tail(forward) /\ Head(forward).kind = kind
    BY <1>13 DEF Take
  <2>2. /\ forward' \in Wire({"changed", "request", "error", "section"})
        /\ Head(forward) \in MessageOf({"changed", "request", "error", "section"})
        /\ \A K : kind \in K => Head(forward).id \in IdsOf(forward, K)
        /\ kind \in Dues => Head(forward).id \notin IdsOf(forward', Dues)
    BY <1>1, <2>1, Shrinks DEF WireTypes, OwedInv
  <2>3. Head(forward) \in Messages
    BY <2>2 DEF Messages, MessageOf, ToServer
  <2> QED
    BY <2>1, <2>2, <2>3 DEF Owed
<1>14. CASE DidChangeConfiguration
  <2> DEFINE m == Head(forward)
  <2>1. /\ m \in Changes /\ m.body \in Body /\ forward # <<>> /\ forward' = Tail(forward)
    <3>1. Take("changed")
      BY <1>14 DEF DidChangeConfiguration
    <3> QED
      BY <1>13, <3>1 DEF Changes, Messages, MessageOf
  <2>2. CASE "pull" \in caps
    <3>1. ids < MaxIds /\ toClient' = Append(toClient, Message("pull", ids + 1, None))
      BY <1>14, <2>2 DEF DidChangeConfiguration, Pull
    <3>2. ids + 1 \in 0..MaxIds
      BY <3>1, NewId
    <3>3. Message("pull", ids + 1, None) \in MessageOf(ToClient)
              /\ Message("pull", ids + 1, None).kind = "pull"
      BY <3>2, NoBody, MessageIs DEF ToClient
    <3>4. IdsOf(toClient', {"pull"}) # {}
      <4> DEFINE new == Message("pull", ids + 1, None)
      <4>1. new.kind \in {"pull"} /\ new \in MessageOf(ToClient)
                /\ toClient' = Append(toClient, new)
        BY <3>1, <3>3
      <4> HIDE DEF new
      <4>2. \A K : new.kind \in K => new.id \in IdsOf(toClient', K)
        BY <1>2, <4>1, Grows
      <4> QED
        BY <4>1, <4>2
    <3> QED
      BY <2>2, <3>4 DEF Pulling
  <2>3. CASE "pull" \notin caps
    <3>1. Apply(m.body) /\ UNCHANGED <<settings, changes, toServer>>
      BY <1>14, <2>3 DEF DidChangeConfiguration
    <3>2. Pushing /\ Telling' = Telling
      BY <1>1, <2>3, <3>1 DEF ConfigInv, Telling
    <3>3. /\ ~Dry(toServer, forward, Changes)
          /\ Pipe(toServer, forward, Changes, Telling) =>
               Pipe(toServer, forward', Changes, Telling)
                   \/ (Dry(toServer, forward', Changes) /\ m \in Telling)
      BY <1>2, <2>1, PipeLeave
    <3>4. m \in Telling => Matches'
      BY <1>12, <2>1, <3>1 DEF Telling
    <3> QED
      BY <2>3, <3>1, <3>2, <3>3, <3>4 DEF Pushing
  <2> QED
    BY <2>2, <2>3
<1>15. CASE HandleOutboundResponse
  <2> DEFINE m == Head(forward)
  <2>1. /\ m.kind \in {"section", "error"} /\ m \in Messages /\ forward # <<>>
             /\ forward' = Tail(forward)
        /\ m.id \in Owed(forward) /\ m.id \notin Owed(forward')
        /\ forward' \in Wire({"changed", "request", "error", "section"})
    <3>1. Take("section") \/ Take("error")
      BY <1>15 DEF HandleOutboundResponse
    <3> QED
      BY <1>13, <3>1 DEF Owed, Dues
  <2>2. m.id \in outbound /\ m.id \notin Owed(toServer) /\ "pull" \in caps
    BY <1>1, <2>1 DEF OwedInv, ConfigInv
  <2>3. m \in Answers /\ m \notin Changes /\ m.body \in Body
    BY <2>1, <2>2 DEF Answers, Changes, Messages, MessageOf
  <2>4. /\ UNCHANGED <<settings, changes, toServer, answering, toClient>>
             /\ outbound' = outbound \ {m.id}
        /\ refused' = (m.kind = "error") /\ (m.kind = "section" => Apply(m.body))
    BY <1>15, <2>2 DEF HandleOutboundResponse, Answer
  <2>5. Good' = Good
    BY <2>4 DEF Good
  <2>6. /\ Pipe(toServer', forward', Answers', Good) <=> Pipe(toServer, forward', Answers, Good)
        /\ Dry(toServer', forward', Answers') <=> Dry(toServer, forward', Answers)
    <3>1. \A y : y # m.id => (y \in outbound <=> y \in outbound')
      BY <2>4
    <3> QED
      BY <2>1, <2>2, <2>4, <3>1, AnswersKept
  <2>7. /\ Dry(toServer, forward', Changes) <=> Dry(toServer, forward, Changes)
        /\ ~Dry(toServer, forward, Answers)
        /\ Pipe(toServer, forward, Answers, Good) =>
             Pipe(toServer, forward', Answers, Good)
                 \/ (Dry(toServer, forward', Answers) /\ m \in Good)
    <3>1. /\ forward \in Seq(MessageOf({"changed", "request", "error", "section"}))
               /\ forward # <<>>
          /\ forward' = Tail(forward) /\ Head(forward) \notin Changes
               /\ Head(forward) \in Answers
      BY <1>2, <2>1, <2>3
    <3>2. Dry(toServer, Tail(forward), Changes) <=> Dry(toServer, forward, Changes)
      BY <3>1, PipeLeave
    <3>3. ~Dry(toServer, forward, Answers)
      BY <3>1, PipeLeave
    <3>4. Pipe(toServer, forward, Answers, Good) =>
            \/ Pipe(toServer, Tail(forward), Answers, Good)
            \/ Dry(toServer, Tail(forward), Answers) /\ Head(forward) \in Good
      BY <3>1, PipeLeave
    <3> QED
      BY <3>1, <3>2, <3>3, <3>4
  <2>8. m \in Good => refused' \/ Matches'
    BY <1>12, <2>1, <2>3, <2>4 DEF Good
  <2>9. Pulling
    BY <1>1, <2>2, <2>4 DEF ConfigInv
  <2> QED
    BY <2>2, <2>4, <2>5, <2>6, <2>7, <2>8, <2>9 DEF Pulling
<1>16. CASE Create
  <2>1. ids < MaxIds /\ toClient' = Append(toClient, Message("create", ids + 1, None))
    BY <1>16 DEF Create
  <2>2. Message("create", ids + 1, None) \in MessageOf(ToClient)
    BY <2>1, NewId, NoBody, MessageIs DEF ToClient
  <2>3. IdsOf(toClient, {"pull"}) \subseteq IdsOf(toClient', {"pull"})
    BY <1>2, <2>1, <2>2, Grows
  <2> QED
    BY <1>5, <1>16, <2>3 DEF Create
<1>17. CASE StartRequest
  <2> DEFINE m == Head(forward)
  <2>1. m.kind = "request" /\ forward # <<>> /\ forward' = Tail(forward)
    BY <1>17 DEF StartRequest, Take
  <2>2. m \notin Answers /\ m \notin Changes
    BY <2>1 DEF Answers, Changes
  <2>3. UNCHANGED <<settings, changes, options, refused, outbound, answering, toServer,
            toClient>>
    BY <1>17 DEF StartRequest
  <2>4. Answers' = Answers /\ Good' = Good /\ Telling' = Telling /\ Matches' = Matches
    BY <2>3 DEF Answers, Good, Telling, Matches
  <2>5. /\ Dry(toServer, forward', Changes) <=> Dry(toServer, forward, Changes)
        /\ Dry(toServer, forward', Answers) <=> Dry(toServer, forward, Answers)
        /\ Pipe(toServer, forward, Answers, Good) => Pipe(toServer, forward', Answers, Good)
        /\ Pipe(toServer, forward, Changes, Telling) =>
             Pipe(toServer, forward', Changes, Telling)
    BY <1>2, <2>1, <2>2, PipeLeave
  <2> QED
    BY <1>1, <2>3, <2>4, <2>5 DEF ConfigInv, Pulling, Pushing
<1>18. ASSUME NEW kind \in ToClient, NEW id \in Ids, NEW c \in Wire(ToClient)
       PROVE  /\ IdsOf(c, {"pull"}) \subseteq IdsOf(Append(c, Message(kind, id, None)),
                   {"pull"})
  <2>1. Message(kind, id, None) \in MessageOf(ToClient)
    BY NoBody, MessageIs DEF Ids
  <2> QED
    BY <2>1, Grows
<1>19. CASE Begin \/ Report \/ End
  <2>1. arc.id \in Ids
    BY <1>1, <1>19 DEF Begin, Report, End, WireTypes, Reporters
  <2>2. toClient' = toClient \/ \E kind \in ToClient :
            toClient' = Append(toClient, Message(kind, arc.id, None))
    BY <1>19 DEF Begin, Report, End, Sends, ToClient
  <2>3. IdsOf(toClient, {"pull"}) \subseteq IdsOf(toClient', {"pull"})
    BY <1>2, <1>18, <2>1, <2>2
  <2> QED
    BY <1>5, <1>19, <2>3 DEF Begin, Report, End
<1>20. CASE Return
  <2>1. arc.id \in Ids
    BY <1>1, <1>20 DEF Return, WireTypes, Reporters
  <2>2. PICK mid \in Wire(ToClient) :
           /\ mid = toClient \/ mid = Append(toClient, Message("end", arc.id, None))
           /\ toClient' = mid \/ toClient' = Append(mid, Message("reply", arc.id, None))
    BY <1>2, <1>20, <2>1, ReturnSends
  <2>3. IdsOf(toClient, {"pull"}) \subseteq IdsOf(mid, {"pull"})
    BY <1>2, <1>18, <2>1, <2>2 DEF ToClient
  <2>4. IdsOf(mid, {"pull"}) \subseteq IdsOf(toClient', {"pull"})
    BY <1>18, <2>1, <2>2 DEF ToClient
  <2> QED
    BY <1>5, <1>20, <2>3, <2>4 DEF Return
<1>21. CASE UNCHANGED outboundVars
  BY <1>5, <1>21 DEF outboundVars
<1> QED
  BY <1>6, <1>8, <1>9, <1>10, <1>11, <1>14, <1>15, <1>16, <1>17, <1>19, <1>20, <1>21
     DEF OutboundNext

-----------------------------------------------------------------------------
(* A message of token x that its reporter may send.                        *)
MaySend(c, s, x, kind) ==
  /\ \A i \in Tokens(c) : c[i].id = x /\ Latest(c, i) => Follows(kind, c[i].kind)
  /\ Silent(c, x) => Fits(s[x], kind)
  /\ kind = "reply" => s[x] \notin {"unknown", "refused"}

LEMMA StandsSends ==
  ASSUME NEW c, NEW s, NEW x, NEW kinds, NEW states, Stands(c, s, x, kinds, states), NEW kind,
         \A k \in kinds : Follows(kind, k), \A state \in states : Fits(state, kind),
         kind = "reply" => s[x] \notin {"unknown", "refused"}
  PROVE  MaySend(c, s, x, kind)
BY DEF Stands, MaySend

LEMMA SilentSends ==
  ASSUME NEW c, NEW s, NEW x, Silent(c, x), NEW kind, Fits(s[x], kind),
         kind = "reply" => s[x] \notin {"unknown", "refused"}
  PROVE  MaySend(c, s, x, kind)
BY DEF Silent, MaySend

LEMMA StandsWider ==
  ASSUME NEW c, NEW s, NEW x, NEW kinds, NEW states, Stands(c, s, x, kinds, states),
         NEW more, NEW wider, kinds \subseteq more, states \subseteq wider
  PROVE  Stands(c, s, x, more, wider)
BY DEF Stands

LEMMA StandsSilent ==
  ASSUME NEW c, NEW s, NEW x, Silent(c, x), NEW kinds, NEW states, s[x] \in states
  PROVE  Stands(c, s, x, kinds, states)
BY DEF Stands, Silent

LEMMA Sending ==
  ASSUME NEW c \in Wire(ToClient), NEW kind \in ToClient \ {"pull"}, NEW id \in Ids, NEW s
  PROVE  LET d == Append(c, Message(kind, id, None))
         IN  /\ d \in Wire(ToClient)
             /\ Orderly(c, s) /\ MaySend(c, s, id, kind) => Orderly(d, s)
             /\ \A states : Stands(d, s, id, {kind}, states)
             /\ \A x, kinds, states : Stands(c, s, x, kinds, states) /\ x # id =>
                  Stands(d, s, x, kinds, states)
             /\ \A x : Silent(c, x) /\ x # id => Silent(d, x)
<1> DEFINE m == Message(kind, id, None)
<1>1. m \in MessageOf(ToClient) /\ m.kind = kind /\ m.id = id /\ c \in Seq(MessageOf(ToClient))
  BY NoBody, MessageIs DEF Ids, Wire
<1> HIDE DEF m
<1>2. Append(c, m) \in Wire(ToClient)
  BY <1>1, Grows
<1>3. ASSUME Orderly(c, s), MaySend(c, s, id, kind) PROVE Orderly(Append(c, m), s)
  BY <1>1, <1>3, OrderlyAppend DEF MaySend
<1>4. \A states : Stands(Append(c, m), s, id, {kind}, states)
  BY <1>1, StandsAppend
<1>5. \A x, kinds, states : Stands(c, s, x, kinds, states) /\ x # id =>
          Stands(Append(c, m), s, x, kinds, states)
  BY <1>1, StandsAppend
<1>6. \A x : Silent(c, x) /\ x # id => Silent(Append(c, m), x)
  BY <1>1, StandsAppend
<1> QED
  BY <1>2, <1>3, <1>4, <1>5, <1>6 DEF m

LEMMA Pulls ==
  ASSUME NEW c \in Wire(ToClient), NEW id \in 0..MaxIds, NEW s
  PROVE  LET d == Append(c, Message("pull", id, None))
         IN  /\ d \in Wire(ToClient)
             /\ Orderly(c, s) => Orderly(d, s)
             /\ \A x, kinds, states : Stands(c, s, x, kinds, states) =>
                  Stands(d, s, x, kinds, states)
             /\ \A x : Silent(c, x) => Silent(d, x)
<1> DEFINE m == Message("pull", id, None)
<1>1. m \in MessageOf(ToClient) /\ m.kind = "pull" /\ c \in Seq(MessageOf(ToClient))
  BY NoBody, MessageIs DEF ToClient, Wire
<1> HIDE DEF m
<1>2. Append(c, m) \in Wire(ToClient)
  BY <1>1, Grows
<1>3. Orderly(c, s) => Orderly(Append(c, m), s)
  BY <1>1, OrderlyAppend
<1>4. \A x, kinds, states : Stands(c, s, x, kinds, states) =>
          Stands(Append(c, m), s, x, kinds, states)
  BY <1>1, StandsAppend
<1>5. \A x : Silent(c, x) => Silent(Append(c, m), x)
  BY <1>1, StandsAppend
<1> QED
  BY <1>2, <1>3, <1>4, <1>5 DEF m

(* What the client makes of a message, when its tokens are in order.       *)
LEMMA HeardState ==
  ASSUME OutInv, ClientReads
  PROVE  /\ \A x \in Ids : Head(toClient).kind = "pull" \/ Head(toClient).id # x =>
              spinner'[x] = spinner[x]
         /\ Head(toClient).kind = "create" =>
              spinner'[Head(toClient).id] \in {"offered", "refused"}
         /\ Head(toClient).kind \in {"begin", "report"} =>
              spinner'[Head(toClient).id] \in {"spinning", "refused"}
         /\ Head(toClient).kind = "end" => spinner'[Head(toClient).id] \in {"stopped",
              "refused"}
         /\ Head(toClient).kind = "reply" => spinner'[Head(toClient).id] = "over"
         /\ \A x \in Ids : spinner'[x] = "refused" => spinner[x] \in {"unknown", "refused"}
         /\ Orderly(toClient', spinner')
<1> DEFINE m == Head(toClient)
<1>1. /\ toClient \in Wire(ToClient) /\ toClient # <<>>
           /\ \A i \in 1..Len(toClient) : toClient[i].id \in Ids
      /\ spinner \in [Ids -> States] /\ Orderly(toClient, spinner) /\ toClient' = Tail(toClient)
  BY DEF OutInv, WireTypes, ClientReads, ProgressInv
<1>2. /\ Reads(toClient, spinner, spinner') /\ m.id \in Ids
      /\ m.kind = "create" => spinner[m.id] = "unknown"
  BY ClientHears
<1>3. Orderly(toClient', spinner') /\ (m.kind # "pull" => Fits(spinner[m.id], m.kind))
  BY <1>1, <1>2, OrderlyTail
<1>4. m.kind \in ToClient
  BY <1>1, Shrinks
<1> HIDE DEF m
<1>5. /\ \A x \in Ids : m.kind = "pull" \/ m.id # x => spinner'[x] = spinner[x]
      /\ m.kind = "create" => spinner'[m.id] \in {"offered", "refused"}
      /\ m.kind \notin {"pull", "create"} => spinner'[m.id] = Turned(spinner[m.id], m.kind)
  BY <1>2 DEF Reads, m
<1>6. /\ m.kind \in {"begin", "report"} => spinner'[m.id] \in {"spinning", "refused"}
      /\ m.kind = "end" => spinner'[m.id] \in {"stopped", "refused"}
      /\ m.kind = "reply" => spinner'[m.id] = "over"
  BY <1>3, <1>5 DEF Fits, Turned
<1>7. m.kind # "pull" /\ spinner'[m.id] = "refused" => spinner[m.id] \in {"unknown", "refused"}
  BY <1>2, <1>3, <1>4, <1>5 DEF Fits, Turned, ToClient
<1>8. \A x \in Ids : spinner'[x] = "refused" => spinner[x] \in {"unknown", "refused"}
  BY <1>5, <1>7
<1> QED
  BY <1>3, <1>5, <1>6, <1>8 DEF m

(* A token stays where it stands while the client reads.                   *)
LEMMA StandsRead ==
  ASSUME OutInv, ClientReads, NEW x \in Ids, NEW kinds, NEW states,
         Stands(toClient, spinner, x, kinds, states),
         "create" \in kinds => {"offered", "refused"} \subseteq states,
         "begin" \in kinds \/ "report" \in kinds => {"spinning", "refused"} \subseteq states,
         "end" \in kinds => {"stopped", "refused"} \subseteq states,
         "reply" \in kinds => "over" \in states
  PROVE  Stands(toClient', spinner', x, kinds, states)
<1> DEFINE m == Head(toClient)
<1>1. toClient \in Seq(MessageOf(ToClient)) /\ toClient # <<>> /\ toClient' = Tail(toClient)
  BY DEF OutInv, WireTypes, ClientReads, Wire
<1>2. m.kind \in ToClient
  BY <1>1, Shrinks DEF Wire
<1>3. m.kind = "pull" \/ m.id # x => spinner'[x] = spinner[x]
  BY HeardState
<1>4. m.kind # "pull" /\ m.id = x /\ m.kind \in kinds => spinner'[x] \in states
  BY <1>2, HeardState DEF ToClient
<1> HIDE DEF m
<1>5. Stands(Tail(toClient), spinner', x, kinds, states)
  BY <1>1, <1>3, <1>4, StandsTail DEF m
<1> QED
  BY <1>1, <1>5

(* What the reporter may send, and where its token stands then.            *)
LEMMA ArcMaySend ==
  ASSUME OutInv, arc # None
  PROVE  /\ arc.id \in Ids /\ arc.id <= ids /\ arc \in Reporters /\ toClient \in Wire(ToClient)
         /\ Poisoned => spinner[arc.id] = "refused" /\ ~arc.asked
         /\ ~arc.begun /\ ~arc.ended => MaySend(toClient, spinner, arc.id, "begin")
         /\ arc.begun /\ ~arc.ended => /\ MaySend(toClient, spinner, arc.id, "report")
                                       /\ MaySend(toClient, spinner, arc.id, "end")
<1>1. arc.id \in Ids /\ arc.id <= ids /\ arc \in Reporters /\ toClient \in Wire(ToClient)
  BY DEF OutInv, WireTypes, Reporters, ProgressInv, TokenInv
<1>2. ArcInv
  BY DEF OutInv, ProgressInv
<1>3. Poisoned => spinner[arc.id] = "refused" /\ ~arc.asked
  BY <1>2 DEF Poisoned, ArcInv, OutInv, ProgressInv, TokenInv
<1>4. ASSUME ~arc.begun, ~arc.ended PROVE MaySend(toClient, spinner, arc.id, "begin")
  <2>1. CASE arc.asked
    <3>1. Silent(toClient, arc.id) /\ spinner[arc.id] = "offered"
      BY <1>2, <1>4, <2>1 DEF ArcInv
    <3> QED
      BY <3>1, SilentSends DEF Fits
  <2>2. CASE ~arc.asked
    <3>1. Stands(toClient, spinner, arc.id, {"create"}, {"offered", "refused"})
      BY <1>2, <1>4, <2>2 DEF ArcInv
    <3>2. (\A k \in {"create"} : Follows("begin", k))
              /\ \A state \in {"offered", "refused"} : Fits(state, "begin")
      BY DEF Follows, Fits
    <3> QED
      BY <3>1, <3>2, StandsSends
  <2> QED
    BY <2>1, <2>2
<1>5. ASSUME arc.begun, ~arc.ended, NEW kind \in {"report", "end"}
      PROVE  MaySend(toClient, spinner, arc.id, kind)
  <2>1. Stands(toClient, spinner, arc.id, {"begin", "report"}, {"spinning", "refused"})
    BY <1>2, <1>5 DEF ArcInv
  <2>2. /\ \A k \in {"begin", "report"} : Follows(kind, k)
        /\ \A state \in {"spinning", "refused"} : Fits(state, kind)
    BY DEF Follows, Fits
  <2> QED
    BY <2>1, <2>2, StandsSends
<1> QED
  BY <1>1, <1>3, <1>4, <1>5

(* The function returns: its token comes to rest, the others stay put.     *)
LEMMA ReturnRests ==
  ASSUME OutInv, Return
  PROVE  /\ Orderly(toClient', spinner)
         /\ \A x, kinds, states : Stands(toClient, spinner, x, kinds, states) /\ x # arc.id =>
              Stands(toClient', spinner, x, kinds, states)
         /\ \A x : Silent(toClient, x) /\ x # arc.id => Silent(toClient', x)
         /\ \/ Stands(toClient', spinner, arc.id, {"create", "end", "reply"},
              States \ {"spinning"})
            \/ spinner[arc.id] = "refused"
<1> DEFINE x == arc.id
<1>1. /\ arc # None /\ x \in Ids /\ toClient \in Wire(ToClient) /\ arc.begun \in BOOLEAN
           /\ arc.ended \in BOOLEAN
      /\ Poisoned => spinner[x] = "refused" /\ ~arc.asked
      /\ arc.begun /\ ~arc.ended => MaySend(toClient, spinner, x, "end")
  BY ArcMaySend DEF Return, Reporters
<1>2. ArcInv /\ Orderly(toClient, spinner)
  BY DEF OutInv, ProgressInv
<1>3. PICK mid \in Wire(ToClient) :
        /\ IF Closes THEN mid = Append(toClient, Message("end", x, None)) ELSE mid = toClient
        /\ IF arc.asked THEN toClient' = Append(mid, Message("reply", x, None))
             ELSE toClient' = mid
  BY <1>1, ReturnSends
<1> HIDE DEF x
<1>4. /\ Orderly(mid, spinner)
      /\ \A y, kinds, states : Stands(toClient, spinner, y, kinds, states) /\ y # x =>
           Stands(mid, spinner, y, kinds, states)
      /\ \A y : Silent(toClient, y) /\ y # x => Silent(mid, y)
      /\ Closes => \A states : Stands(mid, spinner, x, {"end"}, states)
  <2>1. CASE Closes
    <3>1. MaySend(toClient, spinner, x, "end") /\ "end" \in ToClient \ {"pull"}
      BY <1>1, <2>1 DEF Closes, ToClient
    <3>2. mid = Append(toClient, Message("end", x, None))
      BY <1>3, <2>1
    <3> QED
      BY <1>1, <1>2, <3>1, <3>2, Sending
  <2>2. CASE ~Closes
    BY <1>2, <1>3, <2>2
  <2> QED
    BY <2>1, <2>2
<1>5. \/ Stands(mid, spinner, x, {"end"}, {"stopped", "refused"})
      \/ ~arc.begun /\ arc.asked /\ Silent(mid, x) /\ spinner[x] = "offered"
      \/ ~arc.begun /\ ~arc.asked /\ Stands(mid, spinner, x, {"create"}, {"offered", "refused"})
      \/ ~arc.asked /\ spinner[x] = "refused"
  <2>1. CASE Closes
    BY <1>4, <2>1
  <2>2. CASE Poisoned
    BY <1>1, <2>2
  <2>3. CASE ~Closes /\ ~Poisoned
    <3>1. mid = toClient /\ (~arc.begun \/ arc.ended)
      BY <1>3, <2>3 DEF Closes
    <3> QED
      BY <1>1, <1>2, <2>3, <3>1 DEF ArcInv, x
  <2> QED
    BY <2>1, <2>2, <2>3
<1>6. CASE arc.asked
  <2>1. spinner[x] \notin {"unknown", "refused"}
    BY <1>1, <1>2, <1>6 DEF ArcInv, x
  <2>2. MaySend(mid, spinner, x, "reply")
    <3>1. CASE Stands(mid, spinner, x, {"end"}, {"stopped", "refused"})
      <4>1. Stands(mid, spinner, x, {"end"}, {"stopped"})
        BY <2>1, <3>1 DEF Stands
      <4>2. Follows("reply", "end") /\ Fits("stopped", "reply")
        BY DEF Follows, Fits
      <4> QED
        BY <2>1, <4>1, <4>2, StandsSends
    <3>2. CASE Silent(mid, x) /\ spinner[x] = "offered"
      BY <2>1, <3>2, SilentSends DEF Fits
    <3> QED
      BY <1>5, <1>6, <3>1, <3>2
  <2>3. toClient' = Append(mid, Message("reply", x, None)) /\ "reply" \in ToClient \ {"pull"}
    BY <1>3, <1>6 DEF ToClient
  <2>4. /\ Orderly(toClient', spinner)
        /\ \A states : Stands(toClient', spinner, x, {"reply"}, states)
        /\ \A y, kinds, states : Stands(mid, spinner, y, kinds, states) /\ y # x =>
             Stands(toClient', spinner, y, kinds, states)
        /\ \A y : Silent(mid, y) /\ y # x => Silent(toClient', y)
    BY <1>1, <1>4, <2>2, <2>3, Sending
  <2>5. Stands(toClient', spinner, x, {"create", "end", "reply"}, States \ {"spinning"})
    BY <2>4, StandsWider
  <2>6. /\ \A y, kinds, states : Stands(toClient, spinner, y, kinds, states) /\ y # x =>
             Stands(toClient', spinner, y, kinds, states)
        /\ \A y : Silent(toClient, y) /\ y # x => Silent(toClient', y)
    BY <1>4, <2>4
  <2> QED
    BY <2>4, <2>5, <2>6 DEF x
<1>7. CASE ~arc.asked
  <2>1. toClient' = mid
    BY <1>3, <1>7
  <2>2. \/ Stands(mid, spinner, x, {"create", "end", "reply"}, States \ {"spinning"})
        \/ spinner[x] = "refused"
    BY <1>5, <1>7, StandsWider DEF States
  <2> QED
    BY <1>4, <2>1, <2>2 DEF x
<1> QED
  BY <1>6, <1>7

(* What the server sends while nothing runs, and the steps that send       *)
(* nothing.                                                                *)
LEMMA Taken ==
  ASSUME OutInv, DidChangeConfiguration \/ HandleOutboundResponse
  PROVE  /\ arc = None /\ arc' = None /\ spinner' = spinner
         /\ Orderly(toClient, spinner) => Orderly(toClient', spinner)
         /\ \A x, kinds, states : Stands(toClient, spinner, x, kinds, states) =>
              Stands(toClient', spinner, x, kinds, states)
         /\ \A x : Silent(toClient, x) => Silent(toClient', x)
<1>1. arc = None /\ arc' = None /\ spinner' = spinner
  BY DEF DidChangeConfiguration, HandleOutboundResponse, Take, progressVars
<1>2. toClient' = toClient \/ (ids < MaxIds
          /\ toClient' = Append(toClient, Message("pull", ids + 1, None)))
  BY DEF DidChangeConfiguration, HandleOutboundResponse, Pull
<1>3. CASE toClient' = toClient
  BY <1>1, <1>3
<1>4. CASE ids < MaxIds /\ toClient' = Append(toClient, Message("pull", ids + 1, None))
  <2>1. ids + 1 \in 0..MaxIds /\ toClient \in Wire(ToClient)
    BY <1>4, NewId DEF OutInv, WireTypes
  <2> QED
    BY <1>1, <1>4, <2>1, Pulls
<1> QED
  BY <1>2, <1>3, <1>4

(* A token the client brings is none that anything has been said of.       *)
LEMMA Offered ==
  ASSUME OutInv, RequestWithToken
  PROVE  /\ ids + 1 \in Ids /\ Silent(toClient, ids + 1) /\ toClient' = toClient /\ arc' = arc
         /\ spinner'[ids + 1] = "offered" /\ \A x \in Ids : x <= ids =>
              x # ids + 1 /\ spinner'[x] = spinner[x]
         /\ \A x \in Ids : x # ids + 1 => spinner'[x] = spinner[x]
         /\ Orderly(toClient', spinner')
<1>1. /\ ids + 1 \in Ids /\ Silent(toClient, ids + 1) /\ toClient' = toClient /\ arc' = arc
           /\ ids \in Nat
      /\ spinner' = [spinner EXCEPT ![ids + 1] = "offered"] /\ spinner \in [Ids -> States]
  BY NewId, OutboundAssumption DEF RequestWithToken, OutInv, WireTypes
<1>2. /\ \A x \in Ids : x <= ids => x # ids + 1
      /\ spinner'[ids + 1] = "offered" /\ \A x \in Ids : x # ids + 1 => spinner'[x] = spinner[x]
  BY <1>1 DEF Ids
<1>3. \A i \in Tokens(toClient) : toClient[i].id \in Ids /\ toClient[i].id # ids + 1
  BY <1>1 DEF Silent, Tokens, OutInv, WireTypes
<1>4. Orderly(toClient, spinner')
  BY <1>2, <1>3 DEF Orderly, OutInv, ProgressInv
<1> QED
  BY <1>1, <1>2, <1>4

(* Each step of a reporter that sends.                                     *)
LEMMA ReporterSends ==
  ASSUME OutInv, Begin \/ Report \/ (End /\ Closes)
  PROVE  /\ arc # None /\ arc.id \in Ids /\ arc'.id = arc.id /\ spinner' = spinner
         /\ Orderly(toClient', spinner)
         /\ Begin => \A states : Stands(toClient', spinner, arc.id, {"begin"}, states)
         /\ Report => \A states : Stands(toClient', spinner, arc.id, {"report"}, states)
         /\ End => \A states : Stands(toClient', spinner, arc.id, {"end"}, states)
         /\ \A x, kinds, states : Stands(toClient, spinner, x, kinds, states) /\ x # arc.id =>
              Stands(toClient', spinner, x, kinds, states)
         /\ \A x : Silent(toClient, x) /\ x # arc.id => Silent(toClient', x)
<1>1. arc # None /\ spinner' = spinner
  BY DEF Begin, Report, End
<1>2. /\ arc.id \in Ids /\ arc \in Reporters /\ toClient \in Wire(ToClient)
           /\ Orderly(toClient, spinner)
      /\ ~arc.begun /\ ~arc.ended => MaySend(toClient, spinner, arc.id, "begin")
      /\ arc.begun /\ ~arc.ended => MaySend(toClient, spinner, arc.id, "report")
      /\ arc.begun /\ ~arc.ended => MaySend(toClient, spinner, arc.id, "end")
  BY <1>1, ArcMaySend DEF OutInv, ProgressInv
<1>3. arc'.id = arc.id
  BY <1>1, <1>2 DEF Begin, Report, End, Reporters
<1>4. ASSUME NEW kind \in ToClient \ {"pull"}, MaySend(toClient, spinner, arc.id, kind),
             toClient' = Append(toClient, Message(kind, arc.id, None))
      PROVE  /\ Orderly(toClient', spinner)
             /\ \A states : Stands(toClient', spinner, arc.id, {kind}, states)
             /\ \A x, kinds, states : Stands(toClient, spinner, x, kinds, states)
                  /\ x # arc.id =>
                  Stands(toClient', spinner, x, kinds, states)
             /\ \A x : Silent(toClient, x) /\ x # arc.id => Silent(toClient', x)
  BY <1>2, <1>4, Sending
<1>5. CASE Begin
  <2>1. ~arc.begun /\ ~arc.ended /\ toClient' = Append(toClient, Message("begin", arc.id, None))
    BY <1>5 DEF Begin, Sends
  <2>2. ~Report /\ ~End
    BY <2>1 DEF Report, End
  <2> QED
    BY <1>1, <1>2, <1>3, <1>4, <2>1, <2>2 DEF ToClient
<1>6. CASE Report
  <2>1. arc.begun /\ ~arc.ended /\ toClient' = Append(toClient, Message("report", arc.id, None))
    BY <1>6 DEF Report, Sends
  <2>2. ~Begin /\ ~End
    <3>1. arc' = arc
      BY <1>6 DEF Report
    <3> QED
      BY <1>2, <2>1, <3>1 DEF Begin, End, Reporters
  <2> QED
    BY <1>1, <1>2, <1>3, <1>4, <2>1, <2>2 DEF ToClient
<1>7. CASE End /\ Closes
  <2>1. arc.begun /\ ~arc.ended /\ toClient' = Append(toClient, Message("end", arc.id, None))
    BY <1>7 DEF End, Closes, Sends
  <2>2. ~Begin /\ ~Report
    <3>1. arc' # arc
      BY <1>2, <1>7 DEF End, Reporters
    <3> QED
      BY <2>1, <3>1 DEF Begin, Report
  <2> QED
    BY <1>1, <1>2, <1>3, <1>4, <2>1, <2>2 DEF ToClient
<1> QED
  BY <1>5, <1>6, <1>7

-----------------------------------------------------------------------------
(* Every step keeps the tokens of the wire in order.                       *)
LEMMA OrderlyStep ==
  ASSUME OutInv, [OutboundNext]_outboundVars
  PROVE  Orderly(toClient', spinner')
<1>1. Orderly(toClient, spinner) /\ toClient \in Wire(ToClient)
  BY DEF OutInv, ProgressInv, WireTypes
<1>2. CASE RequestWithToken
  BY <1>2, Offered
<1>3. CASE ClientReads
  BY <1>3, HeardState
<1>4. CASE DidChangeConfiguration \/ HandleOutboundResponse
  BY <1>1, <1>4, Taken
<1>5. CASE Create
  <2>1. ids < MaxIds /\ toClient' = Append(toClient, Message("create", ids + 1, None))
            /\ spinner' = spinner
    BY <1>5 DEF Create
  <2>2. ids + 1 \in Ids /\ Silent(toClient, ids + 1) /\ spinner[ids + 1] = "unknown"
    BY <2>1, NewId
  <2>3. MaySend(toClient, spinner, ids + 1, "create")
    BY <2>2, SilentSends DEF Fits
  <2> QED
    BY <1>1, <2>1, <2>2, <2>3, Sending DEF ToClient
<1>6. CASE Begin \/ Report \/ (End /\ Closes)
  BY <1>6, ReporterSends
<1>7. CASE Return
  <2>1. spinner' = spinner
    BY <1>7 DEF Return
  <2> QED
    BY <1>7, <2>1, ReturnRests
<1>8. CASE ChangeSettings \/ ClientAnswers \/ Route \/ StartRequest \/ (End /\ ~Closes)
               \/ UNCHANGED outboundVars
  <2>1. toClient' = toClient /\ spinner' = spinner
    BY <1>8
    DEF ChangeSettings, ClientAnswers, Route, StartRequest, End, outboundVars, progressVars
  <2> QED
    BY <1>1, <2>1
<1> QED
  BY <1>2, <1>3, <1>4, <1>5, <1>6, <1>7, <1>8 DEF OutboundNext

(* Every step keeps the reporter's token where the function is.            *)
LEMMA ArcStep ==
  ASSUME OutInv, [OutboundNext]_outboundVars
  PROVE  ArcInv'
<1> SUFFICES ASSUME arc' # None PROVE ArcInv'
  BY DEF ArcInv
<1>1. ArcInv /\ toClient \in Wire(ToClient) /\ arc' \in Reporters
          /\ (arc # None => arc \in Reporters /\ arc.id \in Ids)
  <2>1. WireTypes'
    BY WireTypesStep
  <2> QED
    BY <2>1 DEF OutInv, ProgressInv, WireTypes, Reporters
<1>2. CASE RequestWithToken
  <2>1. arc' = arc /\ toClient' = toClient /\ arc.id <= ids
    BY <1>2, Offered, ArcMaySend
  <2>2. spinner'[arc.id] = spinner[arc.id]
    BY <1>1, <1>2, <2>1, Offered
  <2> QED
    BY <1>1, <2>1, <2>2 DEF ArcInv, Stands
<1>3. CASE ClientReads
  <2> DEFINE x == arc.id
  <2>1. arc' = arc /\ arc # None /\ x \in Ids
    BY <1>1, <1>3 DEF ClientReads
  <2>2. /\ spinner'[x] = "unknown" => spinner[x] = "unknown"
        /\ spinner'[x] = "refused" => spinner[x] \in {"unknown", "refused"}
        /\ spinner[x] = "refused" => spinner'[x] = "refused"
    BY <1>3, <2>1, ClientHears, HeardState
  <2>3. ASSUME Silent(toClient, x) PROVE Silent(toClient', x) /\ spinner'[x] = spinner[x]
    <3>1. toClient \in Seq(MessageOf(ToClient)) /\ toClient # <<>> /\ toClient' = Tail(toClient)
      BY <1>1, <1>3 DEF ClientReads, Wire
    <3>2. Silent(toClient', x) /\ (Head(toClient).kind = "pull" \/ Head(toClient).id # x)
      BY <2>3, <3>1, SilentTail
    <3> QED
      BY <1>3, <2>1, <3>2, HeardState
  <2>4. /\ Stands(toClient, spinner, x, {"create"}, {"offered", "refused"}) =>
             Stands(toClient', spinner', x, {"create"}, {"offered", "refused"})
        /\ Stands(toClient, spinner, x, {"begin", "report"}, {"spinning", "refused"}) =>
             Stands(toClient', spinner', x, {"begin", "report"}, {"spinning", "refused"})
        /\ Stands(toClient, spinner, x, {"end"}, {"stopped", "refused"}) =>
             Stands(toClient', spinner', x, {"end"}, {"stopped", "refused"})
    BY <1>3, <2>1, StandsRead
  <2> HIDE DEF x
  <2> QED
    BY <1>1, <2>1, <2>2, <2>3, <2>4 DEF ArcInv, x
<1>4. CASE DidChangeConfiguration \/ HandleOutboundResponse
  BY <1>4, Taken
<1>5. CASE Create
  <2>1. /\ ids < MaxIds /\ toClient' = Append(toClient, Message("create", ids + 1, None))
        /\ spinner' = spinner /\ arc' = Reporter(ids + 1, FALSE)
    BY <1>5 DEF Create
  <2>2. ids + 1 \in Ids
    BY <2>1, NewId
  <2>3. Stands(toClient', spinner', ids + 1, {"create"}, {"offered", "refused"})
    BY <1>1, <2>1, <2>2, Sending DEF ToClient
  <2> QED
    BY <2>1, <2>3 DEF ArcInv, Reporter
<1>6. CASE StartRequest
  <2> DEFINE x == Head(forward).id
  <2>1. arc' = Reporter(x, TRUE) /\ toClient' = toClient /\ spinner' = spinner
    BY <1>6 DEF StartRequest
  <2>2. x \in Asking
    <3>1. forward # <<>> /\ Head(forward).kind \in {"request"}
      BY <1>6 DEF StartRequest, Take
    <3>2. PICK kinds : forward \in Wire(kinds)
      BY DEF OutInv, WireTypes
    <3>3. \A K : Head(forward).kind \in K => x \in IdsOf(forward, K)
      BY <3>1, <3>2, Shrinks
    <3> QED
      BY <3>1, <3>3 DEF Asking
  <2>3. Silent(toClient, x) /\ spinner[x] = "offered"
    BY <2>2 DEF OutInv, ProgressInv, RequestInv
  <2> HIDE DEF x
  <2> QED
    BY <2>1, <2>3 DEF ArcInv, Reporter
<1>7. CASE Begin
  <2>1. /\ arc'.id = arc.id /\ spinner' = spinner /\ arc # None
        /\ \A states : Stands(toClient', spinner, arc.id, {"begin"}, states)
    BY <1>7, ReporterSends
  <2>2. arc'.begun /\ ~arc'.ended /\ arc'.asked = arc.asked
    BY <1>1, <1>7, <2>1 DEF Begin, Reporters
  <2>3. Stands(toClient', spinner', arc'.id, {"begin", "report"}, {"spinning", "refused"})
    BY <2>1, StandsWider
  <2> QED
    BY <1>1, <2>1, <2>2, <2>3 DEF ArcInv
<1>8. CASE Report
  <2>1. /\ arc' = arc /\ spinner' = spinner /\ arc # None /\ arc.begun /\ ~arc.ended
        /\ \A states : Stands(toClient', spinner, arc.id, {"report"}, states)
    BY <1>8, ReporterSends DEF Report
  <2>2. Stands(toClient', spinner', arc'.id, {"begin", "report"}, {"spinning", "refused"})
    BY <2>1, StandsWider
  <2> QED
    BY <1>1, <2>1, <2>2 DEF ArcInv
<1>9. CASE End
  <2>1. /\ arc'.begun /\ arc'.ended /\ arc'.asked = arc.asked /\ arc'.id = arc.id
             /\ spinner' = spinner
        /\ arc # None
    BY <1>1, <1>9 DEF End, Reporters
  <2>2. \/ Stands(toClient', spinner', arc'.id, {"end"}, {"stopped", "refused"})
        \/ spinner'[arc'.id] = "refused"
    <3>1. CASE Closes
      <4>1. \A states : Stands(toClient', spinner, arc.id, {"end"}, states)
        BY <1>9, <3>1, ReporterSends
      <4> QED
        BY <2>1, <4>1
    <3>2. CASE ~Closes
      <4>1. Poisoned
        BY <1>9, <3>2 DEF End, Closes
      <4> QED
        BY <2>1, <4>1, ArcMaySend
    <3> QED
      BY <3>1, <3>2
  <2> QED
    BY <1>1, <2>1, <2>2 DEF ArcInv
<1>10. CASE Return
  BY <1>10 DEF Return
<1>11. CASE ChangeSettings \/ ClientAnswers \/ Route \/ UNCHANGED outboundVars
  <2>1. toClient' = toClient /\ spinner' = spinner /\ arc' = arc
    BY <1>11 DEF ChangeSettings, ClientAnswers, Route, outboundVars, progressVars
  <2> QED
    BY <1>1, <2>1 DEF ArcInv
<1> QED
  BY <1>2, <1>3, <1>4, <1>5, <1>6, <1>7, <1>8, <1>9, <1>10, <1>11 DEF OutboundNext

(* Every step leaves the other tokens at rest.                             *)
LEMMA RestStep ==
  ASSUME OutInv, [OutboundNext]_outboundVars
  PROVE  RestInv'
<1> DEFINE Rests(c, s, x) ==
             \/ Stands(c, s, x, {"create", "end", "reply"}, States \ {"spinning"})
             \/ s[x] = "refused"
<1>1. RestInv /\ toClient \in Wire(ToClient)
  BY DEF OutInv, ProgressInv, WireTypes
<1>2. \A x \in Ids : arc = None \/ x # arc.id => Rests(toClient, spinner, x)
  BY <1>1 DEF RestInv
<1> SUFFICES ASSUME NEW x \in Ids, arc' = None
                        \/ x # arc'.id PROVE Rests(toClient', spinner', x)
  BY DEF RestInv
<1>3. CASE RequestWithToken
  <2>1. /\ arc' = arc /\ toClient' = toClient /\ Silent(toClient, ids + 1)
        /\ spinner'[ids + 1] = "offered" /\ (x # ids + 1 => spinner'[x] = spinner[x])
    BY <1>3, Offered
  <2>2. CASE x = ids + 1
    <3>1. spinner'[x] \in States \ {"spinning"}
      BY <2>1, <2>2 DEF States
    <3> QED
      BY <2>1, <2>2, <3>1, StandsSilent
  <2>3. CASE x # ids + 1
    BY <1>2, <2>1, <2>3 DEF Stands
  <2> QED
    BY <2>2, <2>3
<1>4. CASE ClientReads
  <2>1. arc' = arc /\ (spinner[x] = "refused" => spinner'[x] = "refused")
    BY <1>4, ClientHears DEF ClientReads
  <2>2. Stands(toClient, spinner, x, {"create", "end", "reply"}, States \ {"spinning"}) =>
          Stands(toClient', spinner', x, {"create", "end", "reply"}, States \ {"spinning"})
    BY <1>4, StandsRead DEF States
  <2> QED
    BY <1>2, <2>1, <2>2
<1>5. CASE DidChangeConfiguration \/ HandleOutboundResponse
  BY <1>2, <1>5, Taken
<1>6. CASE Create
  <2>1. /\ ids < MaxIds /\ toClient' = Append(toClient, Message("create", ids + 1, None))
        /\ spinner' = spinner /\ arc = None /\ arc' = Reporter(ids + 1, FALSE) /\ arc' # None
    <3>1. arc' # None
      <4>1. ids + 1 \in Ids /\ arc' = Reporter(ids + 1, FALSE)
        BY <1>6, NewId DEF Create
      <4>2. arc' \in Reporters
        BY <4>1 DEF Reporter, Reporters
      <4> QED
        BY <4>2, OutboundAssumption
    <3> QED
      BY <1>6, <3>1 DEF Create
  <2>2. ids + 1 \in Ids /\ x # ids + 1
    BY <2>1, NewId DEF Reporter
  <2>3. "create" \in ToClient \ {"pull"}
    BY DEF ToClient
  <2>4. \A kinds, states : Stands(toClient, spinner, x, kinds, states) =>
            Stands(toClient', spinner, x, kinds, states)
    BY <1>1, <2>1, <2>2, <2>3, Sending
  <2> QED
    BY <1>2, <2>1, <2>4
<1>7. CASE StartRequest
  BY <1>2, <1>7 DEF StartRequest, Take
<1>8. CASE Begin \/ Report \/ (End /\ Closes)
  <2>1. arc # None /\ arc' # None /\ arc'.id = arc.id /\ spinner' = spinner
    <3>1. arc # None /\ arc'.id = arc.id /\ spinner' = spinner /\ arc \in Reporters
      BY <1>8, ReporterSends, ArcMaySend
    <3>2. arc' \in Reporters
      BY <1>8, <3>1 DEF Begin, Report, End, Reporters
    <3> QED
      BY <3>1, <3>2, OutboundAssumption
  <2>2. x # arc.id
    BY <2>1
  <2> QED
    BY <1>2, <1>8, <2>1, <2>2, ReporterSends
<1>9. CASE Return
  <2>1. spinner' = spinner
    BY <1>9 DEF Return
  <2>2. CASE x = arc.id
    BY <1>9, <2>1, <2>2, ReturnRests
  <2>3. CASE x # arc.id
    BY <1>2, <1>9, <2>1, <2>3, ReturnRests
  <2> QED
    BY <2>2, <2>3
<1>10. CASE End /\ ~Closes
  <2>1. arc # None /\ arc.id \in Ids /\ toClient' = toClient /\ spinner' = spinner
            /\ arc \in Reporters
    BY <1>10, ArcMaySend DEF End
  <2>2. arc' \in Reporters /\ arc'.id = arc.id
    BY <1>10, <2>1 DEF End, Reporters
  <2> QED
    BY <1>2, <2>1, <2>2, OutboundAssumption
<1>11. CASE ChangeSettings \/ ClientAnswers \/ Route \/ UNCHANGED outboundVars
  <2>1. toClient' = toClient /\ spinner' = spinner /\ arc' = arc
    BY <1>11 DEF ChangeSettings, ClientAnswers, Route, outboundVars, progressVars
  <2> QED
    BY <1>2, <2>1
<1> QED
  BY <1>3, <1>4, <1>5, <1>6, <1>7, <1>8, <1>9, <1>10, <1>11 DEF OutboundNext

-----------------------------------------------------------------------------
(* Every step keeps the requests on their way apart from what was said.    *)
LEMMA RequestStep ==
  ASSUME OutInv, [OutboundNext]_outboundVars
  PROVE  RequestInv'
<1> DEFINE R == {"request"}
<1>1. /\ RequestInv /\ toServer \in Wire(ToServer) /\ toClient \in Wire(ToClient) /\ ids \in Nat
      /\ forward \in Wire({"changed", "request", "error", "section"})
      /\ answering \in Wire({"error", "section"})
  BY OutboundAssumption DEF OutInv, ProgressInv, WireTypes
<1>2. Asking \subseteq Ids /\ \A x \in Asking : x <= ids
  BY <1>1, OutboundAssumption DEF RequestInv, Ids, OutInv, WireTypes
(* The wires to the server keep their requests, and nothing is said of     *)
(* these; the reporter is the one it was or has another token.             *)
<1>3. ASSUME IdsOf(toServer', R) = IdsOf(toServer, R), Distinct(toServer', R),
             IdsOf(forward', R) = IdsOf(forward, R), Distinct(forward', R),
             ids' = ids \/ ids' = ids + 1,
             \A x \in Asking : Silent(toClient', x) /\ spinner'[x] = "offered",
             arc' # None => arc'.id \notin Asking
      PROVE  RequestInv'
  <2>1. Asking' = Asking /\ 1..ids \subseteq 1..ids'
    BY <1>1, <1>3 DEF Asking
  <2> QED
    BY <1>1, <1>3, <2>1 DEF RequestInv
(* A message that is no request comes at the end of the wire.              *)
<1>4. ASSUME NEW m \in MessageOf(ToServer), m.kind # "request", toServer' = Append(toServer, m)
      PROVE  IdsOf(toServer', R) = IdsOf(toServer, R) /\ Distinct(toServer', R)
  <2>1. /\ \A K : IdsOf(Append(toServer, m), K) =
                    IF m.kind \in K THEN IdsOf(toServer, K) \cup {m.id} ELSE IdsOf(toServer, K)
        /\ \A K : Distinct(toServer, K) /\ (m.kind \in K => m.id \notin IdsOf(toServer, K)) =>
                    Distinct(Append(toServer, m), K)
    BY <1>1, Grows
  <2>2. m.kind \notin R /\ Distinct(toServer, R)
    BY <1>1, <1>4 DEF RequestInv
  <2> HIDE DEF R
  <2> QED
    BY <1>4, <2>1, <2>2
(* A message that is no request leaves a wire.                             *)
<1>5. ASSUME NEW kinds, NEW q \in Wire(kinds), q # <<>>, Head(q).kind # "request",
                 Distinct(q, R)
      PROVE  IdsOf(Tail(q), R) = IdsOf(q, R) /\ Distinct(Tail(q), R)
  <2>1. /\ \A K : IdsOf(q, K) = IF Head(q).kind \in K THEN IdsOf(Tail(q), K) \cup {Head(q).id}
                                                        ELSE IdsOf(Tail(q), K)
        /\ \A K : Distinct(q, K) => Distinct(Tail(q), K)
    BY <1>5, Shrinks
  <2>2. Head(q).kind \notin R
    BY <1>5
  <2> HIDE DEF R
  <2> QED
    BY <1>5, <2>1, <2>2
<1>6. /\ Distinct(toServer, R) /\ Distinct(forward, R)
      /\ \A x \in Asking : Silent(toClient, x) /\ spinner[x] = "offered"
      /\ arc # None => arc.id \notin Asking
  BY <1>1 DEF RequestInv
<1> HIDE DEF R
<1>7. CASE ChangeSettings
  <2>1. Message("changed", 0, settings') \in MessageOf(ToServer)
            /\ Message("changed", 0, settings').kind = "changed"
    <3>1. settings' \in Body /\ 0 \in 0..MaxIds /\ "changed" \in ToServer
      BY <1>7, OutboundAssumption DEF ChangeSettings, Body, ToServer
    <3> QED
      BY <3>1, MessageIs
  <2>2. /\ toServer' = Append(toServer, Message("changed", 0, settings'))
        /\ UNCHANGED <<forward, toClient, spinner, arc, ids>>
    BY <1>7 DEF ChangeSettings, progressVars
  <2> QED
    BY <1>3, <1>4, <1>6, <2>1, <2>2
<1>8. CASE RequestWithToken
  <2> DEFINE new == Message("request", ids + 1, None)
  <2>1. /\ ids + 1 \notin Asking /\ ids + 1 \in 0..MaxIds /\ ids + 1 \in Ids
        /\ Silent(toClient, ids + 1)
        /\ toServer' = Append(toServer, new) /\ ids' = ids + 1 /\ forward' = forward
    BY <1>8, NewId DEF RequestWithToken
  <2>2. new \in MessageOf(ToServer) /\ new.kind = "request" /\ new.id = ids + 1
    <3>1. "request" \in ToServer
      BY DEF ToServer
    <3>2. \A id \in 0..MaxIds : /\ Message("request", id, None) \in MessageOf(ToServer)
                               /\ Message("request", id, None).kind = "request"
                               /\ Message("request", id, None).id = id
      BY <3>1, NoBody, MessageIs
    <3> QED
      BY <2>1, <3>2
  <2> HIDE DEF new
  <2>3. /\ \A K : IdsOf(toServer', K) =
                    IF new.kind \in K THEN IdsOf(toServer, K) \cup {new.id}
                        ELSE IdsOf(toServer, K)
        /\ \A K : Distinct(toServer, K) /\ (new.kind \in K =>
             new.id \notin IdsOf(toServer, K)) =>
                    Distinct(toServer', K)
    BY <1>1, <2>1, <2>2, Grows
  <2>4. IdsOf(toServer', R) = IdsOf(toServer, R) \cup {ids + 1} /\ Distinct(toServer', R)
    <3>1. new.kind \in R /\ new.id \notin IdsOf(toServer, R)
      BY <2>1, <2>2 DEF R, Asking
    <3> QED
      BY <1>6, <2>2, <2>3, <3>1
  <2>5. Asking' = Asking \cup {ids + 1}
    BY <2>1, <2>4 DEF Asking, R
  <2>6. \A x \in Asking' : Silent(toClient', x) /\ spinner'[x] = "offered"
    BY <1>2, <1>6, <1>8, <2>5, Offered
  <2>7. arc' = arc /\ (arc # None => arc.id \notin Asking')
    BY <1>6, <1>8, <2>1, <2>5, ArcMaySend, Offered
  <2>8. Asking' \subseteq 1..ids'
    BY <1>1, <2>1, <2>5 DEF RequestInv
  <2>9. IdsOf(toServer', R) \cap IdsOf(forward', R) = {}
    BY <1>1, <2>1, <2>4 DEF RequestInv, R, Asking
  <2> QED
    BY <1>6, <2>1, <2>4, <2>6, <2>7, <2>8, <2>9 DEF RequestInv, R
<1>9. CASE ClientReads
  <2> DEFINE m == Head(toClient)
  <2>1. toClient \in Seq(MessageOf(ToClient)) /\ toClient # <<>> /\ toClient' = Tail(toClient)
    BY <1>1, <1>9 DEF ClientReads, Wire
  <2>2. \A x \in Asking : Silent(toClient', x) /\ spinner'[x] = "offered"
    <3> TAKE x \in Asking
    <3>1. Silent(toClient', x) /\ (m.kind = "pull" \/ m.id # x)
      BY <1>6, <2>1, SilentTail
    <3> QED
      BY <1>2, <1>6, <1>9, <3>1, HeardState
  <2>3. IdsOf(toServer', R) = IdsOf(toServer, R) /\ Distinct(toServer', R)
    <3>1. CASE m.kind = "create"
      <4>1. PICK kind \in {"created", "error"} :
                     toServer' = Append(toServer, Message(kind, m.id, None))
        BY <1>9, <3>1 DEF ClientReads
      <4>2. m.id \in 0..MaxIds
        BY <1>1, <2>1, Shrinks
      <4>3. Message(kind, m.id, None) \in MessageOf(ToServer)
                /\ Message(kind, m.id, None).kind # "request"
        BY <4>2, NoBody, MessageIs DEF ToServer
      <4> QED
        BY <1>4, <4>1, <4>3
    <3>2. CASE m.kind # "create"
      BY <1>6, <1>9, <3>2 DEF ClientReads
    <3> QED
      BY <3>1, <3>2
  <2>4. UNCHANGED <<forward, arc, ids>>
    BY <1>9 DEF ClientReads
  <2> QED
    BY <1>3, <1>6, <2>2, <2>3, <2>4
<1>10. CASE ClientAnswers
  <2>1. answering # <<>> /\ toServer' = Append(toServer, Head(answering))
            /\ UNCHANGED <<forward, toClient, spinner, arc, ids>>
    BY <1>10 DEF ClientAnswers, progressVars
  <2>2. Head(answering) \in MessageOf({"error", "section"})
    BY <1>1, <2>1, Shrinks
  <2>3. Head(answering) \in MessageOf(ToServer) /\ Head(answering).kind # "request"
    BY <2>2 DEF MessageOf, ToServer
  <2> QED
    BY <1>3, <1>4, <1>6, <2>1, <2>3
<1>11. CASE Route
  <2> DEFINE m == Head(toServer)
  <2>1. toServer # <<>> /\ toServer' = Tail(toServer)
            /\ UNCHANGED <<toClient, arc, ids, spinner>>
    BY <1>11 DEF Route
  <2>2. m \in MessageOf(ToServer) /\ m.kind \in ToServer
    BY <1>1, <2>1, Shrinks
  <2>3. CASE m.id \in creates /\ m.kind \in {"created", "error"}
    <3>1. forward' = forward /\ m.kind # "request"
      BY <1>11, <2>3 DEF Route
    <3> QED
      BY <1>1, <1>3, <1>5, <1>6, <2>1, <3>1
  <2>4. CASE ~(m.id \in creates /\ m.kind \in {"created", "error"})
    <3>1. forward' = Append(forward, m)
      BY <1>11, <2>4 DEF Route
    <3>2. m \in MessageOf({"changed", "request", "error", "section"})
      <4>1. \A K : m.kind \in K => m.id \in IdsOf(toServer, K)
        BY <1>1, <2>1, Shrinks
      <4>2. m.kind # "created"
        BY <2>4, <4>1 DEF OutInv, OwedInv
      <4> QED
        BY <2>2, <4>2 DEF MessageOf, ToServer
    <3>3. /\ \A K : IdsOf(forward', K) =
                      IF m.kind \in K THEN IdsOf(forward, K) \cup {m.id} ELSE IdsOf(forward, K)
          /\ \A K : Distinct(forward, K) /\ (m.kind \in K => m.id \notin IdsOf(forward, K)) =>
                      Distinct(forward', K)
      BY <1>1, <3>1, <3>2, Grows
    <3>4. CASE m.kind = "request"
      <4>1. /\ \A K : IdsOf(toServer, K) = IF m.kind \in K THEN IdsOf(toServer', K) \cup {m.id}
                                                             ELSE IdsOf(toServer', K)
            /\ \A K : Distinct(toServer, K) =>
                        Distinct(toServer', K)
                            /\ (m.kind \in K => m.id \notin IdsOf(toServer', K))
        BY <1>1, <2>1, Shrinks
      <4>2. m.kind \in R /\ IdsOf(toServer, R) \cap IdsOf(forward, R) = {}
        BY <1>1, <3>4 DEF R, RequestInv
      <4>3. /\ IdsOf(toServer, R) = IdsOf(toServer', R) \cup {m.id}
                 /\ m.id \notin IdsOf(toServer', R)
            /\ Distinct(toServer', R)
        BY <1>6, <4>1, <4>2
      <4>4. IdsOf(forward', R) = IdsOf(forward, R) \cup {m.id} /\ Distinct(forward', R)
        BY <1>6, <3>3, <4>2, <4>3
      <4>5. Asking' = Asking /\ IdsOf(toServer', R) \cap IdsOf(forward', R) = {}
        BY <4>2, <4>3, <4>4 DEF Asking, R
      <4> QED
        BY <1>1, <2>1, <4>3, <4>4, <4>5 DEF RequestInv, R
    <3>5. CASE m.kind # "request"
      <4>1. m.kind \notin R
        BY <3>5 DEF R
      <4>2. IdsOf(forward', R) = IdsOf(forward, R) /\ Distinct(forward', R)
        BY <1>6, <3>3, <4>1
      <4>3. IdsOf(toServer', R) = IdsOf(toServer, R) /\ Distinct(toServer', R)
        BY <1>1, <1>5, <1>6, <2>1, <3>5
      <4> QED
        BY <1>3, <1>6, <2>1, <4>2, <4>3
    <3> QED
      BY <3>4, <3>5
  <2> QED
    BY <2>3, <2>4
<1>12. CASE DidChangeConfiguration \/ HandleOutboundResponse
  <2>1. /\ forward # <<>> /\ forward' = Tail(forward) /\ Head(forward).kind # "request"
        /\ toServer' = toServer /\ (ids' = ids \/ ids' = ids + 1)
    BY <1>12 DEF DidChangeConfiguration, HandleOutboundResponse, Take, Pull
  <2>2. IdsOf(forward', R) = IdsOf(forward, R) /\ Distinct(forward', R)
    BY <1>1, <1>5, <1>6, <2>1
  <2>3. arc' = None /\ \A x \in Asking : Silent(toClient', x) /\ spinner'[x] = "offered"
    BY <1>6, <1>12, Taken
  <2> QED
    BY <1>3, <1>6, <2>1, <2>2, <2>3
<1>13. CASE Create
  <2>1. /\ ids < MaxIds /\ toClient' = Append(toClient, Message("create", ids + 1, None))
             /\ ids' = ids + 1
        /\ arc' = Reporter(ids + 1, FALSE) /\ UNCHANGED <<toServer, forward, spinner>>
    BY <1>13 DEF Create, configVars
  <2>2. ids + 1 \in Ids /\ ids + 1 \notin Asking /\ arc'.id = ids + 1
    BY <2>1, NewId DEF Reporter
  <2>3. "create" \in ToClient \ {"pull"}
    BY DEF ToClient
  <2>4. \A x : Silent(toClient, x) /\ x # ids + 1 => Silent(toClient', x)
    BY <1>1, <2>1, <2>2, <2>3, Sending
  <2> QED
    BY <1>3, <1>6, <2>1, <2>2, <2>4
<1>14. CASE StartRequest
  <2> DEFINE m == Head(forward)
  <2>1. /\ forward # <<>> /\ forward' = Tail(forward) /\ m.kind \in R
             /\ arc' = Reporter(m.id, TRUE)
        /\ UNCHANGED <<toServer, toClient, spinner, ids>>
    BY <1>14 DEF StartRequest, Take, R, configVars
  <2>2. /\ \A K : IdsOf(forward, K) = IF m.kind \in K THEN IdsOf(forward', K) \cup {m.id}
                                                        ELSE IdsOf(forward', K)
        /\ \A K : Distinct(forward, K) =>
                    Distinct(forward', K) /\ (m.kind \in K => m.id \notin IdsOf(forward', K))
    BY <1>1, <2>1, Shrinks
  <2>3. /\ IdsOf(forward, R) = IdsOf(forward', R) \cup {m.id} /\ m.id \notin IdsOf(forward', R)
        /\ Distinct(forward', R) /\ IdsOf(toServer, R) \cap IdsOf(forward, R) = {}
    BY <1>1, <1>6, <2>1, <2>2 DEF RequestInv, R
  <2>4. Asking' \subseteq Asking /\ arc'.id \notin Asking'
    BY <2>1, <2>3 DEF Asking, R, Reporter
  <2>5. IdsOf(toServer', R) \cap IdsOf(forward', R) = {}
    BY <2>1, <2>3
  <2> HIDE DEF m
  <2> QED
    BY <1>1, <1>6, <2>1, <2>3, <2>4, <2>5 DEF RequestInv, R
<1>15. CASE Begin \/ Report \/ (End /\ Closes)
  <2>1. /\ arc # None /\ arc'.id = arc.id /\ spinner' = spinner
        /\ \A x : Silent(toClient, x) /\ x # arc.id => Silent(toClient', x)
    BY <1>15, ReporterSends
  <2>2. UNCHANGED <<toServer, forward, ids>>
    BY <1>15 DEF Begin, Report, End
  <2> QED
    BY <1>3, <1>6, <2>1, <2>2
<1>16. CASE Return
  <2>1. arc # None /\ arc' = None /\ UNCHANGED <<toServer, forward, ids, spinner>>
    BY <1>16 DEF Return
  <2>2. \A x : Silent(toClient, x) /\ x # arc.id => Silent(toClient', x)
    BY <1>16, ReturnRests
  <2> QED
    BY <1>3, <1>6, <2>1, <2>2
<1>17. CASE End /\ ~Closes
  <2>1. arc # None /\ arc'.id = arc.id /\ UNCHANGED <<toServer, forward, ids, spinner,
            toClient>>
    BY <1>17, ArcMaySend DEF End, Reporters
  <2> QED
    BY <1>3, <1>6, <2>1
<1>18. CASE UNCHANGED outboundVars
  BY <1>3, <1>6, <1>18 DEF outboundVars, progressVars
<1> QED
  BY <1>7, <1>8, <1>9, <1>10, <1>11, <1>12, <1>13, <1>14, <1>15, <1>16, <1>17, <1>18
     DEF OutboundNext

-----------------------------------------------------------------------------
(* Every step: no id is used before it is given, and a token that is       *)
(* poisoned, or will be, is one the client refused.                        *)
LEMMA TokenStep ==
  ASSUME OutInv, [OutboundNext]_outboundVars
  PROVE  TokenInv'
<1> DEFINE Refusals == poisoned \cup (IdsOf(toServer, {"error"}) \cap creates)
<1>1. /\ TokenInv /\ toServer \in Wire(ToServer) /\ toClient \in Wire(ToClient) /\ ids \in Nat
      /\ answering \in Wire({"error", "section"}) /\ spinner \in [Ids -> States]
      /\ Refusals \subseteq Ids
  BY OutboundAssumption DEF OutInv, ProgressInv, WireTypes
<1>2. /\ \A i \in 1..Len(toClient) : toClient[i].id <= ids
      /\ \A x \in Ids : spinner[x] # "unknown" => x <= ids
      /\ arc # None => arc.id <= ids
      /\ \A x \in Refusals : spinner[x] = "refused"
  BY <1>1 DEF TokenInv
<1>3. \A x \in Refusals : x <= ids
  BY <1>1, <1>2
(* The four parts, of the values they are about.                           *)
<1>4. ASSUME ids' = ids \/ ids' = ids + 1,
             \A i \in 1..Len(toClient') : toClient'[i].id <= ids',
             \A x \in Ids : spinner'[x] # "unknown" => x <= ids',
             arc' # None => arc'.id <= ids',
             Refusals' \subseteq Refusals, \A x \in Refusals : spinner'[x] = "refused"
      PROVE  TokenInv'
  BY <1>4 DEF TokenInv
(* A message with an id that has been given comes on the wire.             *)
<1>5. ASSUME NEW c \in Wire(ToClient), NEW m \in MessageOf(ToClient), NEW n \in Nat, m.id <= n,
             \A i \in 1..Len(c) : c[i].id <= n
      PROVE  \A i \in 1..Len(Append(c, m)) : Append(c, m)[i].id <= n
  <2>1. c \in Seq(MessageOf(ToClient))
    BY DEF Wire
  <2>2. /\ Len(Append(c, m)) = Len(c) + 1 /\ Len(c) \in Nat /\ Append(c, m)[Len(c) + 1] = m
        /\ \A i \in 1..Len(c) : Append(c, m)[i] = c[i]
    BY <2>1, AppendIs
  <2>3. \A i \in 1..Len(Append(c, m)) : i \in 1..Len(c) \/ i = Len(c) + 1
    BY <2>2
  <2> QED
    BY <1>5, <2>2, <2>3
<1>6. ASSUME UNCHANGED <<poisoned, creates>>, NEW m \in MessageOf(ToServer),
             m.kind # "error" \/ m.id \notin creates, toServer' = Append(toServer, m)
      PROVE  Refusals' = Refusals
  <2>1. \A K : IdsOf(toServer', K) =
                 IF m.kind \in K THEN IdsOf(toServer, K) \cup {m.id} ELSE IdsOf(toServer, K)
    BY <1>1, <1>6, Grows
  <2>2. IdsOf(toServer', {"error"}) \cap creates = IdsOf(toServer, {"error"}) \cap creates
    BY <1>6, <2>1
  <2> QED
    BY <1>6, <2>2
<1> HIDE DEF Refusals
<1>7. CASE ChangeSettings
  <2>1. Message("changed", 0, settings') \in MessageOf(ToServer)
            /\ Message("changed", 0, settings').kind = "changed"
    <3>1. settings' \in Body /\ 0 \in 0..MaxIds /\ "changed" \in ToServer
      BY <1>7, OutboundAssumption DEF ChangeSettings, Body, ToServer
    <3> QED
      BY <3>1, MessageIs
  <2>2. /\ toServer' = Append(toServer, Message("changed", 0, settings'))
        /\ UNCHANGED <<toClient, spinner, arc, ids, poisoned, creates>>
    BY <1>7 DEF ChangeSettings, progressVars
  <2>3. Refusals' = Refusals
    BY <1>6, <2>1, <2>2
  <2> QED
    BY <1>2, <1>4, <2>2, <2>3
<1>8. CASE RequestWithToken
  <2>1. /\ ids + 1 \in Ids /\ toServer' = Append(toServer, Message("request", ids + 1, None))
             /\ ids' = ids + 1
        /\ UNCHANGED <<poisoned, creates>>
    BY <1>8, NewId DEF RequestWithToken
  <2>2. /\ toClient' = toClient /\ arc' = arc
        /\ \A x \in Ids : x <= ids => spinner'[x] = spinner[x]
        /\ \A x \in Ids : x # ids + 1 => spinner'[x] = spinner[x]
    BY <1>8, Offered
  <2>3. Refusals' = Refusals
    <3>1. ids + 1 \in 0..MaxIds /\ "request" \in ToServer
      BY <2>1 DEF Ids, ToServer
    <3>2. Message("request", ids + 1, None) \in MessageOf(ToServer)
              /\ Message("request", ids + 1, None).kind = "request"
      BY <3>1, NoBody, MessageIs
    <3> QED
      BY <1>6, <2>1, <3>2
  <2>4. \A i \in 1..Len(toClient') : toClient'[i].id <= ids'
    <3> TAKE i \in 1..Len(toClient')
    <3>1. toClient[i].id \in Ids /\ toClient[i].id <= ids
      BY <1>2, <2>2 DEF OutInv, WireTypes
    <3> QED
      BY <1>1, <2>1, <2>2, <3>1 DEF Ids
  <2>5. \A x \in Ids : spinner'[x] # "unknown" => x <= ids'
    BY <1>1, <1>2, <2>1, <2>2 DEF Ids
  <2>6. arc' # None => arc'.id <= ids'
    BY <1>1, <2>1, <2>2, ArcMaySend DEF Ids
  <2>7. \A x \in Refusals : spinner'[x] = "refused"
    BY <1>1, <1>2, <1>3, <2>2
  <2> QED
    BY <1>4, <2>1, <2>3, <2>4, <2>5, <2>6, <2>7
<1>9. CASE ClientReads
  <2> DEFINE m == Head(toClient)
  <2>1. toClient \in Seq(MessageOf(ToClient)) /\ toClient # <<>> /\ toClient' = Tail(toClient)
    BY <1>1, <1>9 DEF ClientReads, Wire
  <2>2. UNCHANGED <<arc, ids, poisoned, creates>>
    BY <1>9 DEF ClientReads
  <2>3. \A i \in 1..Len(toClient') : toClient'[i].id <= ids'
    <3>1. \A i \in 1..Len(toClient') : toClient'[i] = toClient[i + 1]
              /\ i + 1 \in 1..Len(toClient)
      BY <2>1, TailIs
    <3> QED
      BY <1>2, <2>2, <3>1
  <2>4. /\ \A x \in Ids : spinner'[x] # "unknown" => x <= ids
        /\ \A x \in Ids : spinner[x] = "refused" => spinner'[x] = "refused"
    BY <1>9, ClientHears
  <2>5. \A x \in Refusals' : spinner'[x] = "refused"
    <3>1. CASE m.kind = "create"
      <4>1. PICK ok \in BOOLEAN :
              /\ spinner' = [spinner EXCEPT ![m.id] = IF spinner[m.id] # "unknown" THEN "broken"
                                                      ELSE IF ok THEN "offered" ELSE "refused"]
              /\ toServer' = Append(toServer,
                   Message(IF ok THEN "created" ELSE "error", m.id, None))
        BY <1>9, <3>1 DEF ClientReads
      <4>2. m.id \in Ids /\ spinner[m.id] = "unknown"
        BY <1>9, <3>1, ClientHears
      <4> DEFINE new == Message(IF ok THEN "created" ELSE "error", m.id, None)
      <4>3. new \in MessageOf(ToServer) /\ new.kind = (IF ok THEN "created" ELSE "error")
                /\ new.id = m.id
        <5>1. m.id \in 0..MaxIds /\ (IF ok THEN "created" ELSE "error") \in ToServer
          BY <4>2 DEF Ids, ToServer
        <5> QED
          BY <5>1, NoBody, MessageIs
      <4>4. toServer' = Append(toServer, new)
        BY <4>1
      <4> HIDE DEF m, new
      <4>5. CASE ok
        <5>1. Refusals' = Refusals
          BY <1>6, <2>2, <4>3, <4>4, <4>5
        <5> QED
          BY <1>1, <1>2, <2>4, <5>1
      <4>6. CASE ~ok
        <5>1. \A K : IdsOf(toServer', K) = IF new.kind \in K THEN IdsOf(toServer, K)
                  \cup {new.id}
                                                            ELSE IdsOf(toServer, K)
          BY <1>1, <4>3, <4>4, Grows
        <5>2. Refusals' \subseteq Refusals \cup {m.id}
          BY <2>2, <4>3, <5>1 DEF Refusals
        <5>3. spinner'[m.id] = "refused"
          BY <1>1, <4>1, <4>2, <4>6
        <5> QED
          BY <1>1, <1>2, <2>4, <5>2, <5>3
      <4> QED
        BY <4>5, <4>6
    <3>2. CASE m.kind # "create"
      <4>1. toServer' = toServer
        BY <1>9, <3>2 DEF ClientReads
      <4> QED
        BY <1>1, <1>2, <2>2, <2>4, <4>1 DEF Refusals
    <3> QED
      BY <3>1, <3>2
  <2> QED
    BY <1>2, <2>2, <2>3, <2>4, <2>5 DEF TokenInv, Refusals
<1>10. CASE ClientAnswers
  <2>1. /\ answering # <<>> /\ toServer' = Append(toServer, Head(answering))
        /\ UNCHANGED <<toClient, spinner, arc, ids, poisoned, creates>>
    BY <1>10 DEF ClientAnswers, progressVars
  <2>2. /\ Head(answering) \in MessageOf({"error", "section"})
             /\ Head(answering).kind \in {"error", "section"}
        /\ \A K : Head(answering).kind \in K => Head(answering).id \in IdsOf(answering, K)
    BY <1>1, <2>1, Shrinks
  <2>3. Head(answering) \in MessageOf(ToServer)
    BY <2>2 DEF MessageOf, ToServer
  <2>4. Head(answering).id \notin creates
    <3>1. Head(answering).id \in Owed(answering)
      BY <2>2 DEF Owed, Dues
    <3> QED
      BY <3>1 DEF OutInv, OwedInv
  <2>5. Refusals' = Refusals
    BY <1>6, <2>1, <2>3, <2>4
  <2> QED
    BY <1>2, <1>4, <2>1, <2>5
<1>11. CASE Route
  <2> DEFINE m == Head(toServer)
  <2>1. toServer # <<>> /\ toServer' = Tail(toServer)
            /\ UNCHANGED <<toClient, arc, ids, spinner>>
    BY <1>11 DEF Route
  <2>2. /\ \A K : IdsOf(toServer, K) = IF m.kind \in K THEN IdsOf(toServer', K) \cup {m.id}
                                                         ELSE IdsOf(toServer', K)
        /\ \A K : m.kind \in K => m.id \in IdsOf(toServer, K)
    BY <1>1, <2>1, Shrinks
  <2>3. IdsOf(toServer', {"error"}) \subseteq IdsOf(toServer, {"error"})
            /\ creates' \subseteq creates
    BY <1>11, <2>2 DEF Route
  <2>4. poisoned' = poisoned \/ (m.kind = "error" /\ m.id \in creates
            /\ poisoned' = poisoned \cup {m.id})
    BY <1>11 DEF Route
  <2>5. Refusals' \subseteq Refusals
    BY <2>2, <2>3, <2>4 DEF Refusals
  <2> QED
    BY <1>2, <1>4, <2>1, <2>5
<1>12. CASE DidChangeConfiguration \/ HandleOutboundResponse
  <2>1. arc' = None /\ spinner' = spinner
    BY <1>12, Taken
  <2>2. toServer' = toServer /\ UNCHANGED <<poisoned, creates>>
    BY <1>12 DEF DidChangeConfiguration, HandleOutboundResponse, progressVars
  <2>3. Refusals' = Refusals
    BY <2>2 DEF Refusals
  <2>4. CASE toClient' = toClient /\ ids' = ids
    BY <1>2, <1>4, <2>1, <2>3, <2>4
  <2>5. CASE ids < MaxIds /\ ids' = ids + 1
                 /\ toClient' = Append(toClient, Message("pull", ids + 1, None))
    <3>1. ids + 1 \in 0..MaxIds /\ "pull" \in ToClient /\ ids + 1 \in Nat
      BY <1>1, <2>5, NewId DEF ToClient
    <3>2. Message("pull", ids + 1, None) \in MessageOf(ToClient)
              /\ Message("pull", ids + 1, None).id = ids + 1
      BY <3>1, NoBody, MessageIs
    <3>3. \A i \in 1..Len(toClient) : toClient[i].id <= ids + 1
      <4> TAKE i \in 1..Len(toClient)
      <4>1. toClient[i].id \in Ids /\ toClient[i].id <= ids
        BY <1>2 DEF OutInv, WireTypes
      <4> QED
        BY <1>1, <4>1 DEF Ids
    <3>4. ids + 1 <= ids + 1
      BY <3>1
    <3>5. \A i \in 1..Len(toClient') : toClient'[i].id <= ids + 1
      BY <1>1, <1>5, <2>5, <3>1, <3>2, <3>3, <3>4
    <3>6. \A x \in Ids : spinner'[x] # "unknown" => x <= ids'
      BY <1>1, <1>2, <2>1, <2>5 DEF Ids
    <3> QED
      BY <1>2, <1>4, <2>1, <2>3, <2>5, <3>5, <3>6
  <2> QED
    BY <1>12, <2>4, <2>5 DEF DidChangeConfiguration, HandleOutboundResponse, Pull
<1>13. CASE Create
  <2>1. /\ ids < MaxIds /\ toClient' = Append(toClient, Message("create", ids + 1, None))
             /\ ids' = ids + 1
        /\ arc' = Reporter(ids + 1, FALSE) /\ UNCHANGED <<toServer, spinner, poisoned>>
        /\ creates' = creates \cup {ids + 1}
    BY <1>13 DEF Create
  <2>2. ids + 1 \in Ids /\ ids + 1 \notin Owed(toServer) /\ ids + 1 \in Nat
    BY <1>1, <2>1, NewId
  <2>3. Refusals' = Refusals
    <3>1. ids + 1 \notin IdsOf(toServer, {"error"})
      BY <2>2 DEF Owed, IdsOf, Of, Dues
    <3> QED
      BY <2>1, <3>1 DEF Refusals
  <2>4. Message("create", ids + 1, None) \in MessageOf(ToClient)
            /\ Message("create", ids + 1, None).id = ids + 1
    <3>1. ids + 1 \in 0..MaxIds /\ "create" \in ToClient
      BY <2>2 DEF Ids, ToClient
    <3> QED
      BY <3>1, NoBody, MessageIs
  <2>5. \A i \in 1..Len(toClient) : toClient[i].id <= ids + 1
    <3> TAKE i \in 1..Len(toClient)
    <3>1. toClient[i].id \in Ids /\ toClient[i].id <= ids
      BY <1>2 DEF OutInv, WireTypes
    <3> QED
      BY <1>1, <3>1 DEF Ids
  <2>6. \A i \in 1..Len(toClient') : toClient'[i].id <= ids'
    <3>1. ids + 1 <= ids + 1
      BY <2>2
    <3> QED
      BY <1>1, <1>5, <2>1, <2>2, <2>4, <2>5, <3>1
  <2>7. \A x \in Ids : spinner'[x] # "unknown" => x <= ids'
    BY <1>1, <1>2, <2>1 DEF Ids
  <2>8. arc'.id <= ids'
    BY <2>1, <2>2 DEF Reporter
  <2> QED
    BY <1>2, <1>4, <2>1, <2>3, <2>6, <2>7, <2>8
<1>14. CASE StartRequest
  <2>1. /\ forward # <<>> /\ Head(forward).kind \in {"request"}
             /\ arc' = Reporter(Head(forward).id, TRUE)
        /\ UNCHANGED <<toServer, toClient, spinner, ids, poisoned, creates>>
    BY <1>14 DEF StartRequest, Take, configVars
  <2>2. PICK kinds : forward \in Wire(kinds)
    BY DEF OutInv, WireTypes
  <2>3. \A K : Head(forward).kind \in K => Head(forward).id \in IdsOf(forward, K)
    BY <2>1, <2>2, Shrinks
  <2>4. Head(forward).id \in 1..ids
    BY <2>1, <2>3 DEF Asking, OutInv, ProgressInv, RequestInv
  <2>5. Refusals' = Refusals
    BY <2>1 DEF Refusals
  <2>6. arc'.id <= ids'
    BY <2>1, <2>4 DEF Reporter
  <2> QED
    BY <1>2, <1>4, <2>1, <2>5, <2>6
<1>15. CASE Begin \/ Report \/ End \/ Return
  <2>1. /\ arc # None /\ UNCHANGED <<toServer, spinner, ids, poisoned, creates>>
    BY <1>15 DEF Begin, Report, End, Return
  <2>2. arc.id \in Ids /\ arc.id <= ids /\ arc \in Reporters
    BY <2>1, ArcMaySend
  <2>3. arc' = None \/ arc'.id = arc.id
    BY <1>15, <2>2 DEF Begin, Report, End, Return, Reporters
  <2>4. Refusals' = Refusals
    BY <2>1 DEF Refusals
  <2>5. ASSUME NEW c \in Wire(ToClient), \A i \in 1..Len(c) : c[i].id <= ids,
               NEW kind \in ToClient, NEW d, d = Append(c, Message(kind, arc.id, None))
        PROVE  \A i \in 1..Len(d) : d[i].id <= ids
    <3>1. arc.id \in 0..MaxIds
      BY <2>2 DEF Ids
    <3>2. Message(kind, arc.id, None) \in MessageOf(ToClient)
              /\ Message(kind, arc.id, None).id = arc.id
      BY <3>1, NoBody, MessageIs
    <3> QED
      BY <1>1, <1>5, <2>2, <2>5, <3>2
  <2>6. {"begin", "report", "end", "reply"} \subseteq ToClient
    BY DEF ToClient
  <2>7. \A i \in 1..Len(toClient') : toClient'[i].id <= ids
    <3>1. CASE Begin \/ Report \/ End
      <4>1. toClient' = toClient \/ \E kind \in {"begin", "report", "end"} :
                                      toClient' = Append(toClient, Message(kind, arc.id, None))
        BY <3>1 DEF Begin, Report, End, Sends
      <4> QED
        BY <1>1, <1>2, <2>5, <2>6, <4>1
    <3>2. CASE Return
      <4>1. PICK mid \in Wire(ToClient) :
              /\ mid = toClient \/ mid = Append(toClient, Message("end", arc.id, None))
              /\ toClient' = mid \/ toClient' = Append(mid, Message("reply", arc.id, None))
        BY <1>1, <2>2, <3>2, ReturnSends
      <4>2. \A i \in 1..Len(mid) : mid[i].id <= ids
        BY <1>1, <1>2, <2>5, <2>6, <4>1
      <4> QED
        BY <2>5, <2>6, <4>1, <4>2
    <3> QED
      BY <1>15, <3>1, <3>2
  <2> QED
    BY <1>2, <1>4, <2>1, <2>2, <2>3, <2>4, <2>7
<1>16. CASE UNCHANGED outboundVars
  <2>1. UNCHANGED <<toServer, toClient, arc, spinner, ids, poisoned, creates>>
    BY <1>16 DEF outboundVars, progressVars
  <2> QED
    BY <1>2, <1>4, <2>1 DEF Refusals
<1> QED
  BY <1>7, <1>8, <1>9, <1>10, <1>11, <1>12, <1>13, <1>14, <1>15, <1>16 DEF OutboundNext

-----------------------------------------------------------------------------
LEMMA OutInit ==
  ASSUME OutboundInit
  PROVE  OutInv
<1> USE OutboundAssumption DEF OutboundInit
<1>1. <<>> \in Wire(ToServer) /\ <<>> \in Wire(ToClient)
      /\ <<>> \in Wire({"changed", "request", "error", "section"})
           /\ <<>> \in Wire({"error", "section"})
  BY DEF Wire
<1>2. \A kinds : Of(<<>>, kinds) = {} /\ IdsOf(<<>>, kinds) = {} /\ Distinct(<<>>, kinds)
  BY DEF Of, IdsOf, Distinct
<1>3. Tokens(<<>>) = {} /\ \A x : Silent(<<>>, x)
  BY DEF Tokens, Silent
<1>4. WireTypes
  <2>1. spinner \in [Ids -> States] /\ settings \in Body
    BY DEF States, Body
  <2>2. toClient = <<>> /\ 1..Len(toClient) = {}
    OBVIOUS
  <2>3. /\ toServer \in Wire(ToServer) /\ forward \in Wire({"changed", "request", "error",
             "section"})
        /\ toClient \in Wire(ToClient) /\ answering \in Wire({"error", "section"})
    BY <1>1
  <2>4. /\ outbound \subseteq Ids /\ creates \subseteq Ids /\ poisoned \subseteq Ids
        /\ ids \in 0..MaxIds /\ changes \in Nat
    OBVIOUS
  <2>5. caps \subseteq {"pull", "show"} /\ options \in [Groups -> Values]
            /\ refused \in BOOLEAN /\ arc = None
    OBVIOUS
  <2> HIDE DEF OutboundInit
  <2> QED
    BY <2>1, <2>2, <2>3, <2>4, <2>5 DEF WireTypes
<1>5. OwedInv
  BY <1>2 DEF OwedInv, Owed
<1>6. ConfigInv
  BY DEF ConfigInv
<1>7. Orderly(toClient, spinner)
  BY <1>3 DEF Orderly
<1>8. RestInv
  <2> SUFFICES ASSUME NEW x \in Ids
               PROVE  Stands(toClient, spinner, x, {"create", "end", "reply"},
                          States \ {"spinning"})
    BY DEF RestInv
  <2>1. Silent(toClient, x) /\ spinner[x] \in States \ {"spinning"}
    BY <1>3 DEF States
  <2> QED
    BY <2>1, StandsSilent
<1>9. ArcInv /\ RequestInv /\ TokenInv
  BY <1>2 DEF ArcInv, RequestInv, Asking, TokenInv
<1> QED
  BY <1>4, <1>5, <1>6, <1>7, <1>8, <1>9 DEF OutInv, ProgressInv

(* Wherever the messages to and from the client are, each answer is owed   *)
(* once, the settings are in force or on their way, and every token's      *)
(* messages fit what the client has heard of it.                           *)
THEOREM OutboundInvariance == OutboundSpec => []OutInv
<1>1. OutInv /\ [OutboundNext]_outboundVars => OutInv'
  <2> SUFFICES ASSUME OutInv, [OutboundNext]_outboundVars PROVE OutInv'
    OBVIOUS
  <2>1. WireTypes' /\ OwedInv' /\ ConfigInv'
    BY WireTypesStep, OwedStep, ConfigStep
  <2>2. ProgressInv'
    BY OrderlyStep, ArcStep, RestStep, RequestStep, TokenStep DEF ProgressInv
  <2> QED
    BY <2>1, <2>2 DEF OutInv
<1> QED
  BY OutInit, <1>1, PTL DEF OutboundSpec

(* However the changes of the settings fall between a pull and its answer, *)
(* the server runs with the client's settings once everything has been     *)
(* handled (workspace/didChangeConfiguration, handle_outbound_response).   *)
THEOREM SettingsSettle == OutboundSpec => []ConfigSettles
<1>1. OutInv => ConfigSettles
  <2> SUFFICES ASSUME OutInv, Quiet, changes > 0, settings \in Section, ~refused
               PROVE  /\ outbound = {}
                      /\ \A g \in Groups : settings[g] # None => options[g] = settings[g]
    BY DEF ConfigSettles
  <2>1. toClient = <<>> /\ answering = <<>> /\ toServer = <<>> /\ forward = <<>>
    BY DEF Quiet
  <2>2. \A M, G : At(<<>>, M) = {} /\ ~EndsIn(<<>>, M, G)
    BY DEF At, EndsIn
  <2>3. \A kinds : IdsOf(<<>>, kinds) = {}
    BY DEF IdsOf, Of
  <2>4. \A M, G : ~Pipe(toServer, forward, M, G) /\ Dry(toServer, forward, M)
    BY <2>1, <2>2 DEF Pipe, Dry
  <2>5. outbound = {}
    BY <2>1, <2>3 DEF OutInv, OwedInv, Owed
  <2>6. Matches
    BY <2>1, <2>3, <2>4 DEF OutInv, ConfigInv, Pulling, Pushing
  <2> QED
    BY <2>5, <2>6 DEF Matches
<1> QED
  BY OutboundInvariance, <1>1, PTL

(* No return, early or in a panic, and no refusal of the client's leaves a *)
(* spinner turning or breaks the order of a token's messages (Drop for     *)
(* ProgressReporter, server_initiated, for_client_token).                  *)
THEOREM NoTokenOrphaned == OutboundSpec => []ArcsEnd
<1>1. OutInv => ArcsEnd
  <2> SUFFICES ASSUME OutInv PROVE ArcsEnd
    OBVIOUS
  <2>1. \A id \in Ids : spinner[id] # "broken"
    BY DEF OutInv, WireTypes, States
  <2>2. ASSUME arc = None, toClient = <<>>, NEW id \in Ids PROVE spinner[id] # "spinning"
    <3>1. Silent(toClient, id)
      BY <2>2 DEF Silent, Tokens
    <3> QED
      BY <2>2, <3>1 DEF OutInv, ProgressInv, RestInv, Stands
  <2> QED
    BY <2>1, <2>2 DEF ArcsEnd
<1> QED
  BY OutboundInvariance, <1>1, PTL
=============================================================================
