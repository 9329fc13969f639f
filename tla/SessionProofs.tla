---------------------------- MODULE SessionProofs ----------------------------
(***************************************************************************)
(* Proofs about Session, for every set of requests, documents and failure  *)
(* classes and every bound on mutations and on the queue.                  *)
(***************************************************************************)
EXTENDS SessionInvariant, TLAPS

LEMMA TypeInit == Init => TypeOK
<1> SUFFICES ASSUME Init PROVE TypeOK
  OBVIOUS
<1>1. replies \in [Requests -> Seq(Reply)]
  BY DEF Init
<1>2. forward \in Seq(Message) /\ done \in Seq([id : Requests, result : Results])
  BY DEF Init
<1> QED
  BY <1>1, <1>2 DEF Init, TypeOK, Stages

LEMMA HeadTail ==
  ASSUME NEW S, NEW s \in Seq(S), s # <<>>
  PROVE  Head(s) \in S /\ Tail(s) \in Seq(S)
OBVIOUS

LEMMA AppendType ==
  ASSUME NEW S, NEW s \in Seq(S), NEW x \in S
  PROVE  Append(s, x) \in Seq(S)
OBVIOUS

(* What a well-typed queue yields.                                         *)
LEMMA Received ==
  ASSUME TypeOK, NEW kinds, Receive(kinds)
  PROVE  /\ Head(forward) \in Message
         /\ Head(forward).kind \in kinds
         /\ forward' \in Seq(Message)
BY SMT DEF TypeOK, Receive

(* Sending an answer keeps the request tables typed.                       *)
LEMMA SendType ==
  ASSUME TypeOK, NEW r \in Requests, NEW code \in Codes, NEW text \in Nat,
         NEW result, Send(r, code, text, result)
  PROVE  stage' \in [Requests -> Stages] /\ replies' \in [Requests -> Seq(Reply)]
<1> DEFINE answer == [code |-> code, text |-> text, swept |-> swept,
                      partial |-> r \in bailed,
                      edits |-> code = "ok" /\ result = "edits"]
<1>1. answer \in Reply
  BY DEF TypeOK, Reply
<1>2. /\ stage' = [stage EXCEPT ![r] = "answered"]
      /\ replies' = [replies EXCEPT ![r] = Append(replies[r], answer)]
  BY DEF Send
<1>3. Append(replies[r], answer) \in Seq(Reply)
  BY <1>1 DEF TypeOK
<1> QED
  BY <1>2, <1>3 DEF TypeOK, Stages

(* finish_request answers with the handler's code or with an interrupt's.  *)
LEMMA VerdictType ==
  ASSUME NEW r, NEW code \in Codes
  PROVE  Verdict(r, code) \in Codes
BY DEF Verdict, Codes

LEMMA FinishType ==
  ASSUME TypeOK, NEW r \in Requests, NEW code \in Codes, NEW text \in Nat,
         NEW result, Finish(r, code, text, result)
  PROVE  /\ stage' \in [Requests -> Stages] /\ replies' \in [Requests -> Seq(Reply)]
         /\ inFlight' \subseteq Requests
<1>1. Verdict(r, code) \in Codes
  BY VerdictType
<1>2. Send(r, Verdict(r, code), text, result) /\ inFlight' = inFlight \ {r}
  BY DEF Finish
<1> QED
  BY <1>1, <1>2, SendType DEF TypeOK

LEMMA ReportType ==
  ASSUME TypeOK, NEW r \in Requests, NEW result \in Results,
         Report(r, result)
  PROVE  TypeOK'
BY DEF TypeOK, Report, Stages, wireVars, lifeVars, workerVars

LEMMA RequestMsgType ==
  ASSUME NEW kind \in RequestKinds \cup {"cancel"}, NEW r \in Requests,
         NEW d \in Docs \cup {None}, (kind = "format") <=> (d # None),
         NEW n \in Nat
  PROVE  Msg(kind, r, d, n) \in Message
BY ConstantsAssumption DEF Msg, Message, RequestKinds

LEMMA OtherMsgType ==
  ASSUME NEW n \in Nat
  PROVE  /\ \A kind \in Mutations, d \in Docs : Msg(kind, None, d, n) \in Message
         /\ Msg("exit", None, None, n) \in Message
BY DEF Msg, Message

(***************************************************************************)
(* Type correctness is preserved by every action.                          *)
(***************************************************************************)
LEMMA RouteType == TypeOK /\ (Route \/ RouterForward) => TypeOK'
<1> SUFFICES ASSUME TypeOK, Route \/ RouterForward PROVE TypeOK'
  OBVIOUS
<1> USE DEF RouterReady, requestVars, workerVars, formatVars, lifeVars
<1>1. ASSUME NEW r \in Requests, RouteCancel(r) PROVE TypeOK'
  <2>1. routing' \in Message
    BY <1>1, RequestMsgType DEF TypeOK, RouteCancel
  <2> QED
    BY <1>1, <2>1 DEF TypeOK, RouteCancel, CancelInFlight
<1>2. ASSUME NEW r \in Requests, NEW kind \in RequestKinds,
             NEW d \in Docs \cup {None}, RouteRequest(r, kind, d)
      PROVE  TypeOK'
  <2>1. routing' \in Message
    BY <1>2, RequestMsgType DEF TypeOK, RouteRequest
  <2> QED
    BY <1>2, <2>1 DEF TypeOK, RouteRequest, Stages
<1>3. ASSUME NEW kind \in Mutations, NEW d \in Docs, RouteMutation(kind, d)
      PROVE  TypeOK'
  <2>1. swept + 1 \in Nat /\ swept' = swept + 1
    BY <1>3 DEF TypeOK, RouteMutation
  <2>2. Msg(kind, None, d, swept + 1) \in Message
    BY <2>1, OtherMsgType
  <2> QED
    BY <1>3, <2>1, <2>2 DEF TypeOK, RouteMutation, Sweep
<1>4. CASE RouteExit
  <2>1. routing' \in Message
    BY <1>4, OtherMsgType DEF TypeOK, RouteExit
  <2> QED
    BY <1>4, <2>1 DEF TypeOK, RouteExit
<1>5. CASE RouterDisconnect
  BY <1>5 DEF TypeOK, RouterDisconnect
<1>6. CASE RouterForward
  BY <1>6 DEF TypeOK, RouterForward
<1> QED
  BY <1>1, <1>2, <1>3, <1>4, <1>5, <1>6 DEF Route, RequestKinds

(* The head of the queue, by its kind.                                     *)
LEMMA HeadType ==
  ASSUME TypeOK, NEW kinds, Receive(kinds)
  PROVE  LET m == Head(forward) IN
         /\ m.n \in Nat
         /\ m.kind \in RequestKinds \cup {"cancel"} => m.id \in Requests
         /\ m.kind \in Mutations \cup {"format"} => m.doc \in Docs
BY Received DEF Message, Mutations, RequestKinds

LEMMA DispatchType == TypeOK /\ Dispatch => TypeOK'
<1> SUFFICES ASSUME TypeOK, Dispatch PROVE TypeOK'
  OBVIOUS
<1> DEFINE m == Head(forward)
<1> USE DEF wireVars, requestVars, workerVars, formatVars, lifeVars
<1>1. CASE FindInterrupted
  <2>1. m.id \in Requests /\ forward' \in Seq(Message)
    BY <1>1, Received, HeadType DEF FindInterrupted, RequestKinds
  <2> QED
    BY <1>1, <2>1 DEF FindInterrupted, TypeOK, Stages
<1>2. CASE BeginQuery
  <2>1. m.id \in Requests /\ forward' \in Seq(Message)
    BY <1>2, Received, HeadType DEF BeginQuery, RequestKinds
  <2>2. m.doc \in Docs \cup {None}
    BY <1>2, Received DEF BeginQuery, Message
  <2> QED
    BY <1>2, <2>1, <2>2 DEF BeginQuery, TypeOK, Stages
<1>3. ASSUME NEW spawned \in BOOLEAN, BeginFormat(spawned) PROVE TypeOK'
  <2>1. m.id \in Requests /\ m.doc \in Docs /\ forward' \in Seq(Message)
    BY <1>3, Received, HeadType DEF BeginFormat, RequestKinds
  <2>2. done' \in Seq([id : Requests, result : Results])
    <3>1. [id |-> m.id, result |-> "noEdits"] \in [id : Requests, result : Results]
      BY <2>1 DEF Results
    <3>2. done' = done \/ done' = Append(done, [id |-> m.id, result |-> "noEdits"])
      BY <1>3 DEF BeginFormat
    <3>3. done \in Seq([id : Requests, result : Results])
      BY DEF TypeOK
    <3> QED
      BY <3>1, <3>2, <3>3, AppendType
  <2>3. /\ formatMap' \in [Docs -> Requests \cup {None}]
        /\ tripped' \subseteq Requests
    BY <1>3, <2>1 DEF BeginFormat, Supersede, TypeOK
  <2> QED
    BY <1>3, <2>1, <2>2, <2>3 DEF BeginFormat, TypeOK, Stages
<1>4. CASE Shutdown
  <2>1. m.id \in Requests /\ forward' \in Seq(Message)
    BY <1>4, Received, HeadType DEF Shutdown, RequestKinds
  <2> QED
    BY <1>4, <2>1, SendType DEF Shutdown, Codes, TypeOK
<1>5. CASE Refuse
  <2>1. m.id \in Requests /\ forward' \in Seq(Message)
    BY <1>5, Received, HeadType DEF Refuse, RequestKinds
  <2> QED
    BY <1>5, <2>1, SendType DEF Refuse, Codes, TypeOK
<1>6. CASE DispatchCancel
  BY <1>6, Received DEF DispatchCancel, CancelInFlight, TypeOK
<1>7. CASE DispatchMutation
  <2>1. m.n \in Nat /\ m.doc \in Docs /\ forward' \in Seq(Message)
    BY <1>7, Received, HeadType DEF DispatchMutation, Mutations
  <2> QED
    BY <1>7, <2>1 DEF DispatchMutation, TypeOK
<1>8. CASE DispatchExit
  BY <1>8, Received DEF SessionEnds, DispatchExit, TypeOK
<1>9. CASE TransportClosed
  BY <1>9 DEF SessionEnds, TransportClosed, TypeOK
<1> QED
  BY <1>1, <1>2, <1>3, <1>4, <1>5, <1>6, <1>7, <1>8, <1>9 DEF Dispatch

LEMMA RunType ==
  TypeOK /\ (RunHandler \/ ApplyFormatDone) => TypeOK'
<1> SUFFICES ASSUME TypeOK, RunHandler \/ ApplyFormatDone PROVE TypeOK'
  OBVIOUS
<1> USE DEF wireVars, requestVars, workerVars, formatVars, lifeVars
<1>1. CASE Checkpoint
  BY <1>1 DEF Checkpoint, TypeOK
<1>2. ASSUME NEW code \in {"ok", "failed", "contentModified"}, EndQuery(code)
      PROVE  TypeOK'
  BY <1>2, FinishType DEF EndQuery, Codes, TypeOK
<1>3. CASE ShortCircuit
  <2>1. worker \in Requests /\ applied \in Nat
    BY <1>3 DEF ShortCircuit, TypeOK
  <2>2. stage' \in [Requests -> Stages] /\ replies' \in [Requests -> Seq(Reply)]
    BY <1>3, <2>1, SendType DEF ShortCircuit, Codes
  <2> QED
    BY <1>3, <2>2 DEF ShortCircuit, TypeOK
<1>4. CASE ApplyFormatDone
  <2>1. /\ Head(done) \in [id : Requests, result : Results]
        /\ done' \in Seq([id : Requests, result : Results])
    <3>1. done \in Seq([id : Requests, result : Results]) /\ done # <<>>
      BY <1>4 DEF ApplyFormatDone, TypeOK
    <3>2. done' = Tail(done)
      BY <1>4 DEF ApplyFormatDone
    <3> QED
      BY <3>1, <3>2, HeadTail
  <2>2. stage' \in [Requests -> Stages] /\ replies' \in [Requests -> Seq(Reply)]
    BY <1>4, <2>1, FinishType DEF ApplyFormatDone, Codes, TypeOK
  <2> QED
    BY <1>4, <2>1, <2>2 DEF ApplyFormatDone, Finish, TypeOK
<1> QED
  BY <1>1, <1>2, <1>3, <1>4 DEF RunHandler

LEMMA FormatType ==
  ASSUME TypeOK, NEW r \in Requests,
         AwaitOutput(r) \/ FormatPanics(r) \/ ChildExits(r)
  PROVE  TypeOK'
<1>1. CASE Output(r)
  BY <1>1 DEF Output, TypeOK, Stages, wireVars, workerVars, formatVars, lifeVars
<1> QED
  BY <1>1, ReportType
     DEF AwaitOutput, FormatPanics, ChildExits, PollCancel, FormatFails, Reap, Results

LEMMA TypeStep == TypeOK /\ [Next]_vars => TypeOK'
<1>1. TypeOK /\ UNCHANGED vars => TypeOK'
  BY DEF vars, wireVars, requestVars, workerVars, formatVars, lifeVars, TypeOK
<1> QED
  BY <1>1, RouteType, DispatchType, RunType, FormatType DEF Next

(* Every variable keeps its type.                                          *)
THEOREM TypeCorrect == Spec => []TypeOK
BY TypeInit, TypeStep, PTL DEF Spec

-----------------------------------------------------------------------------
(***************************************************************************)
(* The wire.                                                               *)
(***************************************************************************)
LEMMA TailFacts ==
  ASSUME NEW S, NEW s \in Seq(S), s # <<>>
  PROVE  /\ Len(s) \in Nat /\ Len(s) > 0 /\ Head(s) = s[1]
         /\ Len(Tail(s)) = Len(s) - 1
         /\ \A i \in 1 .. Len(Tail(s)) : i + 1 \in 1 .. Len(s) /\ Tail(s)[i] = s[i + 1]
OBVIOUS

LEMMA AppendFacts ==
  ASSUME NEW S, NEW s \in Seq(S), NEW x \in S
  PROVE  /\ Len(s) \in Nat /\ Len(Append(s, x)) = Len(s) + 1
         /\ \A i \in 1 .. Len(s) : Append(s, x)[i] = s[i]
         /\ Append(s, x)[Len(s) + 1] = x
OBVIOUS

(* A request that is not queued may change stage and leave the registry    *)
(* without disturbing those on the wire.                                   *)
LEMMA StageMove ==
  ASSUME TypeOK, WireInv, UniqueInv, NEW r \in Requests,
         stage[r] # "queued",
         \A q \in Requests \ {r} : stage'[q] = stage[q],
         \A q \in Requests \ {r} : q \in inFlight' <=> q \in inFlight,
         UNCHANGED <<wireVars, forward, applied>>,
         stale' = stale, cancelled' = cancelled
  PROVE  WireInv' /\ UniqueInv'
<1> USE DEF wireVars
<1>1. \A m \in Message : OnItsWay(m) => OnItsWay(m)'
  BY DEF OnItsWay, Message, Mutations, RequestKinds
<1>2. \A i \in 1 .. Len(forward) : forward[i] \in Message
  BY DEF TypeOK
<1>3. WireInv'
  BY <1>1, <1>2 DEF WireInv, VersionAt, TypeOK
<1>4. UniqueInv'
  BY DEF UniqueInv
<1> QED
  BY <1>3, <1>4

(* The worker takes the head of the queue and serves, answers or applies   *)
(* it; the rest of the wire is what it was.                                *)
LEMMA HeadMove ==
  ASSUME TypeOK, WireInv, UniqueInv, NEW kinds, Receive(kinds),
         applied' = Head(forward).n,
         \A q \in Requests : \/ stage'[q] = stage[q] /\ (q \in inFlight' <=> q \in inFlight)
                             \/ q = Head(forward).id /\ Head(forward).kind \in RequestKinds,
         UNCHANGED wireVars, stale' = stale,
         cancelled' \subseteq cancelled \cup inFlight
  PROVE  WireInv' /\ UniqueInv'
<1> DEFINE m == Head(forward)
<1> USE DEF wireVars
<1>1. /\ forward \in Seq(Message) /\ forward # <<>> /\ forward' = Tail(forward)
  BY DEF TypeOK, Receive
<1>2. /\ Len(forward) \in Nat /\ Len(forward) > 0 /\ m = forward[1]
      /\ Len(forward') = Len(forward) - 1
      /\ \A i \in 1 .. Len(forward') : i + 1 \in 1 .. Len(forward) /\ forward'[i] = forward[i + 1]
  BY <1>1, TailFacts
<1>3. \A i \in 1 .. Len(forward) : forward[i] \in Message
  BY <1>1
<1>4. ASSUME NEW x \in Message, OnItsWay(x),
             x.kind \in RequestKinds /\ m.kind \in RequestKinds => x.id # m.id
      PROVE  OnItsWay(x)'
  BY <1>4 DEF OnItsWay, Message, Mutations, RequestKinds, TypeOK
<1>5. ASSUME NEW i \in 1 .. Len(forward')
      PROVE  /\ OnItsWay(forward[i])'
             /\ forward'[i].n <= swept
             /\ forward'[i].kind \notin Mutations => forward'[i].n = VersionAt(i - 1)'
  <2>1. PICK x \in Message : x = forward[i + 1] /\ x = forward'[i]
    BY <1>2, <1>3
  <2>2. /\ OnItsWay(x) /\ x.n <= swept
        /\ x.kind \notin Mutations => x.n = VersionAt(i)
    BY <1>2, <2>1 DEF WireInv
  <2>3. x.kind \in RequestKinds /\ m.kind \in RequestKinds => x.id # m.id
    BY <1>2, <2>1 DEF UniqueInv
  <2>4. OnItsWay(x)'
    BY <1>4, <2>2, <2>3
  <2>5. OnItsWay(forward[i])'
    BY <2>1, <2>4 DEF OnItsWay
  <2>6. VersionAt(i) = VersionAt(i - 1)'
    BY <1>2 DEF VersionAt
  <2> QED
    BY <2>1, <2>2, <2>5, <2>6
<1>6. routing # None => OnItsWay(routing)'
  <2>1. SUFFICES ASSUME routing # None PROVE OnItsWay(routing)'
    OBVIOUS
  <2>2. PICK x \in Message : x = routing /\ x = routing'
    BY <2>1 DEF TypeOK
  <2>3. x.kind \in RequestKinds /\ m.kind \in RequestKinds => x.id # m.id
    BY <1>2, <2>1, <2>2 DEF UniqueInv
  <2>4. OnItsWay(x)'
    BY <1>4, <2>1, <2>2, <2>3 DEF WireInv
  <2> QED
    BY <2>2, <2>4 DEF OnItsWay
<1>7. VersionAt(Len(forward))' = VersionAt(Len(forward))
  BY <1>2 DEF VersionAt
<1>8. applied' <= swept
  BY <1>2 DEF WireInv
<1>9. WireInv'
  BY <1>5, <1>6, <1>7, <1>8 DEF WireInv
<1>10. UniqueInv'
  BY <1>2 DEF UniqueInv
<1> QED
  BY <1>9, <1>10

(* The router adds a message behind those on the wire, having flagged the  *)
(* requests it preempts.                                                   *)
LEMMA RouteWire ==
  ASSUME TypeOK, WireInv, UniqueInv, ServedInv, Route
  PROVE  WireInv' /\ UniqueInv'
<1> USE DEF RouterReady, requestVars, workerVars, formatVars, lifeVars
<1>1. \A i \in 1 .. Len(forward) : forward[i] \in Message
  BY DEF TypeOK
<1>2. Len(forward) \in Nat /\ swept \in Nat /\ applied \in Nat
  BY DEF TypeOK
<1>3. ASSUME NEW r \in Requests, RouteCancel(r) PROVE WireInv' /\ UniqueInv'
  <2>1. routing' \in Message /\ routing'.kind = "cancel" /\ routing'.n = swept
    BY <1>2, <1>3, RequestMsgType DEF RouteCancel, Msg
  <2>2. \A x \in Message : OnItsWay(x) => OnItsWay(x)'
    BY <1>3 DEF RouteCancel, CancelInFlight, OnItsWay
  <2>3. WireInv'
    BY <1>1, <1>2, <1>3, <2>1, <2>2
       DEF WireInv, RouteCancel, CancelInFlight, VersionAt, OnItsWay, RequestKinds
  <2> QED
    BY <1>3, <2>1, <2>3 DEF UniqueInv, RouteCancel, RequestKinds
<1>4. ASSUME NEW r \in Requests, NEW kind \in RequestKinds,
             NEW d \in Docs \cup {None}, RouteRequest(r, kind, d)
      PROVE  WireInv' /\ UniqueInv'
  <2>1. /\ routing' \in Message /\ routing'.kind = kind /\ routing'.id = r
        /\ routing'.n = swept
    BY <1>2, <1>4, RequestMsgType DEF RouteRequest, Msg
  <2>2. stage[r] = "unsent" /\ r \notin inFlight /\ r \notin cancelled
    BY <1>4 DEF RouteRequest, ServedInv
  <2>3. \A x \in Message : x.kind \in RequestKinds /\ OnItsWay(x) => x.id # r
    BY <2>2 DEF OnItsWay
  <2>4. \A x \in Message : OnItsWay(x) => OnItsWay(x)'
    BY <1>4, <2>3 DEF RouteRequest, OnItsWay, TypeOK
  <2>5. OnItsWay(routing)'
    BY <1>4, <2>1, <2>2 DEF RouteRequest, OnItsWay, TypeOK
  <2>6. WireInv'
    BY <1>1, <1>2, <1>4, <2>1, <2>4, <2>5
       DEF WireInv, RouteRequest, VersionAt
  <2> QED
    BY <1>1, <1>4, <2>1, <2>3, <2>6 DEF WireInv, UniqueInv, RouteRequest
<1>5. ASSUME NEW kind \in Mutations, NEW d \in Docs, RouteMutation(kind, d)
      PROVE  WireInv' /\ UniqueInv'
  <2> DEFINE sent == Msg(kind, None, d, swept + 1)
  <2>1. /\ routing' = sent /\ sent.kind = kind /\ sent.n = swept + 1
        /\ swept' = swept + 1
    BY <1>5 DEF RouteMutation, Msg
  <2>2. \A x \in Message : OnItsWay(x) => OnItsWay(x)'
    BY <1>5 DEF RouteMutation, Sweep, OnItsWay
  <2>3. kind \notin RequestKinds
    BY DEF Mutations, RequestKinds
  <2>4. OnItsWay(routing)'
    BY <2>1, <2>3 DEF OnItsWay
  <2>5. sent # None
    BY <1>2, OtherMsgType, ConstantsAssumption
  <2>6. \A i \in 1 .. Len(forward) : forward[i].n \in Nat
    BY <1>1 DEF Message
  <2>7. WireInv'
    BY <1>1, <1>2, <1>5, <2>1, <2>2, <2>4, <2>5, <2>6
       DEF WireInv, RouteMutation, VersionAt
  <2> QED
    BY <1>5, <2>1, <2>3, <2>7 DEF UniqueInv, RouteMutation
<1>6. CASE RouteExit
  <2>1. routing' \in Message /\ routing'.kind = "exit" /\ routing'.n = swept
    BY <1>2, <1>6, OtherMsgType DEF RouteExit, Msg
  <2>2. WireInv'
    BY <1>1, <1>6, <2>1 DEF WireInv, RouteExit, VersionAt, OnItsWay, RequestKinds
  <2> QED
    BY <1>6, <2>1, <2>2 DEF UniqueInv, RouteExit, RequestKinds
<1>7. CASE RouterDisconnect
  BY <1>7 DEF RouterDisconnect, WireInv, UniqueInv, VersionAt, OnItsWay
<1> QED
  BY <1>3, <1>4, <1>5, <1>6, <1>7 DEF Route, RequestKinds

LEMMA ForwardWire ==
  ASSUME TypeOK, WireInv, UniqueInv, RouterForward
  PROVE  WireInv' /\ UniqueInv'
<1> USE DEF requestVars, workerVars, formatVars, lifeVars
<1>1. /\ routing \in Message /\ routing' = None
      /\ forward \in Seq(Message) /\ forward' = Append(forward, routing)
  BY DEF TypeOK, RouterForward
<1>2. /\ Len(forward) \in Nat /\ Len(forward') = Len(forward) + 1
      /\ \A i \in 1 .. Len(forward) : forward'[i] = forward[i]
      /\ forward'[Len(forward) + 1] = routing
  BY <1>1, AppendFacts
<1>3. \A i \in 1 .. Len(forward) : forward[i] \in Message
  BY <1>1
<1>4. UNCHANGED <<applied, swept, stage, inFlight, stale, cancelled>>
  BY DEF RouterForward
<1>5. \A x \in Message : OnItsWay(x) => OnItsWay(x)'
  BY <1>4 DEF OnItsWay
<1>6. routing # None
  BY DEF RouterForward
<1>7. ASSUME NEW i \in 1 .. Len(forward')
      PROVE  /\ OnItsWay(forward[i])'
             /\ forward'[i].n <= swept
             /\ forward'[i].kind \notin Mutations => forward'[i].n = VersionAt(i - 1)'
  <2>1. PICK x \in Message : x = forward'[i]
    BY <1>1, <1>2, <1>3
  <2>2. OnItsWay(x) /\ x.n <= swept
    <3>1. CASE i = Len(forward) + 1
      BY <1>2, <1>6, <2>1, <3>1 DEF WireInv, TypeOK
    <3>2. CASE i \in 1 .. Len(forward)
      BY <1>2, <2>1, <3>2 DEF WireInv
    <3> QED
      BY <1>2, <3>1, <3>2
  <2>3. x.kind \notin Mutations => x.n = VersionAt(i - 1)
    BY <1>2, <1>6, <2>1 DEF WireInv
  <2>4. VersionAt(i - 1)' = VersionAt(i - 1)
    BY <1>2, <1>4 DEF VersionAt
  <2>5. OnItsWay(x)'
    BY <1>5, <2>2
  <2>6. OnItsWay(forward[i])'
    BY <2>1, <2>5 DEF OnItsWay
  <2> QED
    BY <1>4, <2>1, <2>2, <2>3, <2>4, <2>6
<1>8. VersionAt(Len(forward))' = swept
  BY <1>2, <1>6 DEF VersionAt, WireInv
<1>9. WireInv'
  BY <1>1, <1>4, <1>7, <1>8 DEF WireInv
<1>10. UniqueInv'
  BY <1>1, <1>2, <1>6 DEF UniqueInv
<1> QED
  BY <1>9, <1>10

-----------------------------------------------------------------------------
(***************************************************************************)
(* Answers.                                                                *)
(***************************************************************************)
(* A request at the head of the queue.                                     *)
LEMMA HeadRequest ==
  ASSUME TypeOK, WireInv, ServedInv, NEW kinds, Receive(kinds),
         Head(forward).kind \in RequestKinds
  PROVE  LET m == Head(forward) IN
         /\ m.id \in Requests /\ stage[m.id] = "queued" /\ replies[m.id] = <<>>
         /\ m.kind # "shutdown" =>
              m.id \in inFlight /\ (m.id \notin stale => applied = swept)
         /\ m.kind = "shutdown" => m.id \notin inFlight /\ m.id \notin cancelled
         /\ m.n = applied
<1> DEFINE m == Head(forward)
<1>1. /\ Len(forward) \in Nat /\ Len(forward) > 0 /\ m = forward[1] /\ m \in Message
  BY TailFacts DEF TypeOK, Receive
<1>2. m.kind \notin Mutations /\ m.id \in Requests
  BY HeadType DEF Mutations, RequestKinds
<1>3. OnItsWay(m) /\ m.n = VersionAt(0)
  BY <1>1, <1>2 DEF WireInv
<1>4. m.n = applied
  BY <1>3 DEF VersionAt
<1> QED
  BY <1>2, <1>3, <1>4 DEF OnItsWay, ServedInv

(* What every action that answers a request does.                          *)
Answers(r, code, text, result) ==
  /\ Send(r, code, text, result)
  /\ inFlight' = inFlight \ {r}
  /\ stage[r] \notin {"unsent", "answered"} /\ replies[r] = <<>>
  /\ text \in 0 .. swept
  /\ code = "ok" => text = swept /\ r \notin bailed
  /\ code = "cancelled" => r \in cancelled
  /\ r \in cancelled => code \in {"cancelled", "contentModified", "invalidRequest"}
  /\ sessionEnd = None
  /\ UNCHANGED <<routing, swept, basis, bailed, cancelled, stale, applied,
                 sessionEnd>>

Answering ==
  \/ ShortCircuit \/ Shutdown \/ Refuse
  \/ \E code \in {"ok", "failed", "contentModified"} : EndQuery(code)
  \/ ApplyFormatDone

LEMMA AnswerStep ==
  ASSUME TypeOK, WireInv, ServedInv, BailInv, FormatInv, Answering
  PROVE  \E r \in Requests, code \in Codes, text \in Nat, result \in Results :
           Answers(r, code, text, result)
<1> DEFINE m == Head(forward)
<1> USE DEF wireVars, lifeVars, workerVars, formatVars
<1>1. applied \in Nat /\ swept \in Nat /\ applied <= swept
  BY DEF TypeOK, WireInv
<1>2. \A r \in Requests : stage[r] = "queued" => r \notin bailed
  BY DEF BailInv
<1>r. "noEdits" \in Results
  BY DEF Results
<1>3. CASE ShortCircuit
  <2> DEFINE code == IF stage[worker] = "foundCancelled" THEN "cancelled"
                     ELSE "contentModified"
  <2>1. /\ worker \in Requests /\ sessionEnd = None
        /\ stage[worker] \in {"foundCancelled", "foundStale"}
        /\ replies[worker] = <<>>
        /\ stage[worker] = "foundCancelled" => worker \in cancelled
    BY <1>3 DEF ShortCircuit, TypeOK, BailInv, ServedInv
  <2>2. Answers(worker, code, applied, "noEdits")
    BY <1>1, <1>3, <2>1 DEF ShortCircuit, Answers
  <2> QED
    BY <1>1, <1>r, <2>1, <2>2 DEF Codes
<1>4. CASE Shutdown
  <2>1. /\ m.id \in Requests /\ stage[m.id] = "queued" /\ replies[m.id] = <<>>
        /\ m.id \notin inFlight /\ m.id \notin cancelled
    BY <1>4, HeadRequest DEF Shutdown, RequestKinds, Receive
  <2>2. Answers(m.id, "null", applied, "noEdits")
    BY <1>1, <1>4, <2>1 DEF Shutdown, Answers, Receive, Idle
  <2> QED
    BY <1>1, <1>r, <2>1, <2>2 DEF Codes
<1>5. CASE Refuse
  <2>1. m.id \in Requests /\ stage[m.id] = "queued" /\ replies[m.id] = <<>>
    BY <1>5, HeadRequest DEF Refuse, RequestKinds, Receive
  <2>2. Answers(m.id, "invalidRequest", applied, "noEdits")
    BY <1>1, <1>5, <2>1 DEF Refuse, Answers, Receive, Idle
  <2> QED
    BY <1>1, <1>r, <2>1, <2>2 DEF Codes
<1>6. ASSUME NEW code \in {"ok", "failed", "contentModified"}, EndQuery(code)
      PROVE  \E r \in Requests, c \in Codes, text \in Nat, result \in Results :
               Answers(r, c, text, result)
  <2>1. /\ worker \in Requests /\ stage[worker] = "running" /\ sessionEnd = None
        /\ worker \in inFlight /\ basis[worker] \in Nat /\ basis[worker] <= swept
        /\ worker \notin stale => basis[worker] = swept
        /\ replies[worker] = <<>>
    BY <1>6 DEF EndQuery, TypeOK, BailInv, ServedInv
  <2>2. worker \notin bailed \/ Interrupted(worker)
    BY <2>1 DEF BailInv
  <2>3. /\ Verdict(worker, code) = "ok" =>
             basis[worker] = swept /\ worker \notin bailed
        /\ worker \in cancelled <=> Verdict(worker, code) = "cancelled"
    BY <2>1, <2>2 DEF Verdict, Interrupted
  <2>4. Verdict(worker, code) \in Codes
    BY VerdictType DEF Codes
  <2>5. Answers(worker, Verdict(worker, code), basis[worker], "noEdits")
    BY <1>1, <1>6, <2>1, <2>3 DEF EndQuery, Finish, Answers
  <2> QED
    BY <1>r, <2>1, <2>4, <2>5
<1>7. CASE ApplyFormatDone
  <2> DEFINE r == Head(done).id
  <2>1. /\ Len(done) > 0 /\ Head(done) = done[1] /\ Len(done) \in Nat
        /\ r \in Requests /\ Head(done).result \in Results
    <3>1. done \in Seq([id : Requests, result : Results]) /\ done # <<>>
      BY <1>7 DEF ApplyFormatDone, TypeOK
    <3>2. Head(done) \in [id : Requests, result : Results]
      BY <3>1, HeadTail
    <3> QED
      BY <3>1, <3>2, TailFacts
  <2>2. stage[r] = "done"
    BY <2>1 DEF FormatInv
  <2>3. /\ r \in inFlight /\ basis[r] \in Nat /\ basis[r] <= swept
        /\ r \notin stale => basis[r] = swept
        /\ replies[r] = <<>> /\ r \notin bailed
    BY <2>1, <2>2 DEF TypeOK, ServedInv, BailInv
  <2>4. /\ Verdict(r, "ok") = "ok" => basis[r] = swept /\ r \notin bailed
        /\ r \in cancelled <=> Verdict(r, "ok") = "cancelled"
    BY <2>1, <2>3 DEF Verdict, Interrupted
  <2>5. Verdict(r, "ok") \in Codes
    BY VerdictType DEF Codes
  <2>6. Answers(r, Verdict(r, "ok"), basis[r], Head(done).result)
    BY <1>1, <1>7, <2>1, <2>2, <2>3, <2>4 DEF ApplyFormatDone, Finish, Answers, Idle
  <2> QED
    BY <2>1, <2>3, <2>5, <2>6
<1> QED
  BY <1>3, <1>4, <1>5, <1>6, <1>7 DEF Answering

-----------------------------------------------------------------------------
(***************************************************************************)
(* The wire, under every other action.                                     *)
(***************************************************************************)
LEMMA HeadVersion ==
  ASSUME TypeOK, WireInv, NEW kinds, Receive(kinds),
         Head(forward).kind \notin Mutations
  PROVE  Head(forward).n = applied
<1>1. Len(forward) \in Nat /\ Len(forward) > 0 /\ Head(forward) = forward[1]
  BY TailFacts DEF TypeOK, Receive
<1> QED
  BY <1>1 DEF WireInv, VersionAt

LEMMA DispatchWire ==
  ASSUME TypeOK, WireInv, UniqueInv, ServedInv, Dispatch
  PROVE  WireInv' /\ UniqueInv'
<1> DEFINE m == Head(forward)
<1> USE DEF wireVars, requestVars, workerVars, formatVars, lifeVars
<1>1. ASSUME Receive({"query", "format"}), m.id \in Requests,
             stage' = [stage EXCEPT ![m.id] = stage'[m.id]],
             inFlight' \in {inFlight, inFlight \ {m.id}},
             UNCHANGED <<wireVars, applied, stale, cancelled>>
      PROVE  WireInv' /\ UniqueInv'
  <2>1. m.kind \notin Mutations /\ m.kind \in RequestKinds
    BY <1>1 DEF Receive, Mutations, RequestKinds
  <2>2. applied' = m.n
    BY <1>1, <2>1, HeadVersion
  <2>3. \A q \in Requests \ {m.id} :
          stage'[q] = stage[q] /\ (q \in inFlight' <=> q \in inFlight)
    BY <1>1 DEF TypeOK
  <2> QED
    BY <1>1, <2>1, <2>2, <2>3, HeadMove
<1>2. FindInterrupted => WireInv' /\ UniqueInv'
  <2>1. SUFFICES ASSUME FindInterrupted PROVE WireInv' /\ UniqueInv'
    OBVIOUS
  <2>2. Receive({"query", "format"}) /\ m.id \in Requests
    BY <2>1, HeadType DEF FindInterrupted, Receive, RequestKinds
  <2> QED
    BY <1>1, <2>1, <2>2 DEF FindInterrupted, TypeOK
<1>3. BeginQuery => WireInv' /\ UniqueInv'
  <2>1. SUFFICES ASSUME BeginQuery PROVE WireInv' /\ UniqueInv'
    OBVIOUS
  <2>2. Receive({"query", "format"}) /\ m.id \in Requests
    BY <2>1, HeadType DEF BeginQuery, Receive, RequestKinds
  <2> QED
    BY <1>1, <2>1, <2>2 DEF BeginQuery, TypeOK
<1>4. ASSUME NEW spawned \in BOOLEAN, BeginFormat(spawned)
      PROVE  WireInv' /\ UniqueInv'
  <2>1. Receive({"query", "format"}) /\ m.id \in Requests
    BY <1>4, HeadType DEF BeginFormat, Receive, RequestKinds
  <2>2. stage' = [stage EXCEPT ![m.id] = stage'[m.id]]
    BY <1>4, <2>1 DEF BeginFormat, TypeOK
  <2> QED
    BY <1>1, <1>4, <2>1, <2>2 DEF BeginFormat
<1>5. Shutdown => WireInv' /\ UniqueInv'
  <2>1. SUFFICES ASSUME Shutdown PROVE WireInv' /\ UniqueInv'
    OBVIOUS
  <2>2. Receive({"shutdown"}) /\ m.kind = "shutdown" /\ m.id \in Requests
    BY <2>1, HeadType DEF Shutdown, Receive, RequestKinds
  <2>3. applied' = m.n
    BY <2>1, <2>2, HeadVersion DEF Shutdown, Mutations
  <2>4. \A q \in Requests \ {m.id} :
          stage'[q] = stage[q] /\ (q \in inFlight' <=> q \in inFlight)
    BY <2>1, <2>2 DEF Shutdown, Send, TypeOK
  <2> QED
    BY <2>1, <2>2, <2>3, <2>4, HeadMove DEF Shutdown, RequestKinds
<1>6. Refuse => WireInv' /\ UniqueInv'
  <2>1. SUFFICES ASSUME Refuse PROVE WireInv' /\ UniqueInv'
    OBVIOUS
  <2>2. Receive({"query", "format"}) /\ m.id \in Requests
    BY <2>1, HeadType DEF Refuse, Receive, RequestKinds
  <2> QED
    BY <1>1, <2>1, <2>2 DEF Refuse, Send, TypeOK
<1>7. DispatchCancel => WireInv' /\ UniqueInv'
  <2>1. SUFFICES ASSUME DispatchCancel PROVE WireInv' /\ UniqueInv'
    OBVIOUS
  <2>2. Receive({"cancel"}) /\ m.kind = "cancel"
    BY <2>1 DEF DispatchCancel, Receive
  <2>3. applied' = m.n
    BY <2>1, <2>2, HeadVersion DEF DispatchCancel, Mutations
  <2> QED
    BY <2>1, <2>2, <2>3, HeadMove DEF DispatchCancel, CancelInFlight
<1>8. DispatchMutation => WireInv' /\ UniqueInv'
  BY HeadMove DEF DispatchMutation
<1>9. DispatchExit => WireInv' /\ UniqueInv'
  <2>1. SUFFICES ASSUME DispatchExit PROVE WireInv' /\ UniqueInv'
    OBVIOUS
  <2>2. Receive({"exit"}) /\ m.kind = "exit"
    BY <2>1 DEF DispatchExit, Receive
  <2>3. applied' = m.n
    BY <2>1, <2>2, HeadVersion DEF DispatchExit, Mutations
  <2> QED
    BY <2>1, <2>2, <2>3, HeadMove DEF DispatchExit
<1>10. TransportClosed => WireInv' /\ UniqueInv'
  BY DEF TransportClosed, WireInv, UniqueInv, VersionAt, OnItsWay
<1> QED
  BY <1>2, <1>3, <1>4, <1>5, <1>6, <1>7, <1>8, <1>9, <1>10 DEF Dispatch

LEMMA HeadDone ==
  ASSUME TypeOK, FormatInv, ApplyFormatDone
  PROVE  /\ Head(done).id \in Requests /\ stage[Head(done).id] = "done"
         /\ Len(done) \in Nat /\ Len(done) > 0 /\ Head(done) = done[1]
         /\ Len(done') = Len(done) - 1
         /\ \A i \in 1 .. Len(done') : i + 1 \in 1 .. Len(done) /\ done'[i] = done[i + 1]
<1>1. done \in Seq([id : Requests, result : Results]) /\ done # <<>>
  BY DEF ApplyFormatDone, TypeOK
<1>2. Head(done) \in [id : Requests, result : Results]
  BY <1>1, HeadTail
<1>3. done' = Tail(done)
  BY DEF ApplyFormatDone
<1> QED
  BY <1>1, <1>2, <1>3, TailFacts DEF FormatInv

LEMMA ServeWire ==
  ASSUME TypeOK, WireInv, UniqueInv, BailInv, FormatInv,
         \/ RunHandler \/ ApplyFormatDone
         \/ \E r \in Requests : AwaitOutput(r) \/ FormatPanics(r) \/ ChildExits(r)
  PROVE  WireInv' /\ UniqueInv'
<1> USE DEF wireVars, requestVars, workerVars, formatVars, lifeVars
<1>1. CASE Checkpoint
  BY <1>1 DEF Checkpoint, WireInv, UniqueInv, VersionAt, OnItsWay
<1>2. ASSUME NEW code \in {"ok", "failed", "contentModified"}, EndQuery(code)
      PROVE  WireInv' /\ UniqueInv'
  <2>1. worker \in Requests /\ stage[worker] = "running"
    BY <1>2 DEF EndQuery, TypeOK, BailInv
  <2> QED
    BY <1>2, <2>1, StageMove DEF EndQuery, Finish, Send, TypeOK
<1>3. CASE ShortCircuit
  <2>1. worker \in Requests /\ stage[worker] # "queued"
    BY <1>3 DEF ShortCircuit, TypeOK
  <2> QED
    BY <1>3, <2>1, StageMove DEF ShortCircuit, Send, TypeOK
<1>4. CASE ApplyFormatDone
  <2>1. Head(done).id \in Requests /\ stage[Head(done).id] = "done"
    BY <1>4, HeadDone
  <2> QED
    BY <1>4, <2>1, StageMove DEF ApplyFormatDone, Finish, Send, TypeOK
<1>5. ASSUME NEW r \in Requests, Output(r) PROVE WireInv' /\ UniqueInv'
  BY <1>5, StageMove DEF Output, TypeOK
<1>6. ASSUME NEW r \in Requests, LiveFormat(r), NEW result, Report(r, result)
      PROVE  WireInv' /\ UniqueInv'
  BY <1>6, StageMove DEF Report, LiveFormat, TypeOK
<1> QED
  BY <1>1, <1>2, <1>3, <1>4, <1>5, <1>6
     DEF RunHandler, AwaitOutput, FormatPanics, ChildExits, PollCancel,
         FormatFails, Reap, LiveFormat

-----------------------------------------------------------------------------
(***************************************************************************)
(* The served requests and their answers.                                  *)
(***************************************************************************)
LEMMA OneReply ==
  ASSUME TypeOK, NEW r \in Requests, NEW code \in Codes, NEW text \in Nat,
         NEW result \in Results, Answers(r, code, text, result)
  PROVE  /\ Len(replies'[r]) = 1 /\ replies'[r] # <<>>
         /\ \E a : /\ AnswersTo(r)' = {a}
                   /\ a.code = code /\ a.text = text /\ a.swept = swept
                   /\ a.partial <=> r \in bailed
         /\ replies'[r][1].code = code /\ replies'[r][1].text = text
         /\ \A q \in Requests \ {r} : replies'[q] = replies[q]
<1> DEFINE answer == [code |-> code, text |-> text, swept |-> swept,
                      partial |-> r \in bailed,
                      edits |-> code = "ok" /\ result = "edits"]
<1>1. replies' = [replies EXCEPT ![r] = Append(replies[r], answer)]
  BY DEF Answers, Send
<1>2. replies'[r] = <<answer>>
  BY <1>1 DEF Answers, TypeOK
<1>3. \A q \in Requests \ {r} : replies'[q] = replies[q]
  BY <1>1 DEF TypeOK
<1>4. /\ answer.code = code /\ answer.text = text /\ answer.swept = swept
      /\ answer.partial <=> r \in bailed
  OBVIOUS
<1>5. AnswersTo(r)' = {answer}
  BY <1>2 DEF AnswersTo
<1> HIDE DEF answer
<1> QED
  BY <1>2, <1>3, <1>4, <1>5

LEMMA AnswerServed ==
  ASSUME TypeOK, WireInv, ServedInv, BailInv, FormatInv,
         CurrentResults, NoPartialAnswer, Answering
  PROVE  ServedInv' /\ CurrentResults' /\ NoPartialAnswer'
<1>1. PICK r \in Requests, code \in Codes, text \in Nat, result \in Results :
        Answers(r, code, text, result)
  BY AnswerStep
<1>2. /\ Len(replies'[r]) = 1 /\ replies'[r] # <<>>
      /\ \A q \in Requests \ {r} : replies'[q] = replies[q]
  BY <1>1, OneReply
<1>3. /\ stage'[r] = "answered" /\ r \notin inFlight'
      /\ \A q \in Requests \ {r} :
           stage'[q] = stage[q] /\ (q \in inFlight' <=> q \in inFlight)
  BY <1>1 DEF Answers, Send, TypeOK
<1>4. UNCHANGED <<basis, swept, stale, cancelled, bailed>>
  BY <1>1 DEF Answers
<1>5. ServedInv'
  BY <1>2, <1>3, <1>4 DEF ServedInv
<1>6. \A q \in Requests \ {r} : AnswersTo(q)' = AnswersTo(q)
  BY <1>2 DEF AnswersTo
<1>7. code = "ok" => text = swept /\ r \notin bailed
  BY <1>1 DEF Answers
<1>8. PICK answer : /\ AnswersTo(r)' = {answer}
                    /\ answer.code = code /\ answer.text = text
                    /\ answer.swept = swept
                    /\ answer.partial <=> r \in bailed
  BY <1>1, OneReply
<1>9. CurrentResults' /\ NoPartialAnswer'
  BY <1>6, <1>7, <1>8 DEF CurrentResults, NoPartialAnswer
<1> QED
  BY <1>5, <1>9

LEMMA OtherServed ==
  ASSUME TypeOK, WireInv, ServedInv, BailInv, FormatInv, Next, ~Answering
  PROVE  ServedInv' /\ replies' = replies
<1> USE DEF wireVars, requestVars, workerVars, formatVars, lifeVars, RouterReady
<1>1. ASSUME NEW r \in Requests, RouteCancel(r) PROVE ServedInv' /\ replies' = replies
  BY <1>1 DEF RouteCancel, CancelInFlight, ServedInv
<1>2. ASSUME NEW r \in Requests, NEW kind, NEW d, RouteRequest(r, kind, d)
      PROVE  ServedInv' /\ replies' = replies
  BY <1>2 DEF RouteRequest, ServedInv, TypeOK
<1>3. ASSUME NEW kind, NEW d, RouteMutation(kind, d)
      PROVE  ServedInv' /\ replies' = replies
  BY <1>3 DEF RouteMutation, Sweep, ServedInv, TypeOK
<1>4. ASSUME RouteExit \/ RouterDisconnect \/ RouterForward \/ DispatchMutation
             \/ DispatchExit \/ TransportClosed \/ Checkpoint
      PROVE  ServedInv' /\ replies' = replies
  BY <1>4 DEF RouteExit, RouterDisconnect, RouterForward, DispatchMutation,
              DispatchExit, TransportClosed, Checkpoint, ServedInv
<1>5. DispatchCancel => ServedInv' /\ replies' = replies
  BY DEF DispatchCancel, CancelInFlight, ServedInv
<1>6. BeginQuery => ServedInv' /\ replies' = replies
  <2>1. SUFFICES ASSUME BeginQuery PROVE ServedInv' /\ replies' = replies
    OBVIOUS
  <2> DEFINE r == Head(forward).id
  <2>2. /\ r \in Requests /\ r \in inFlight /\ replies[r] = <<>>
        /\ r \notin stale => applied = swept
    BY <2>1, HeadRequest DEF BeginQuery, Receive, RequestKinds
  <2> QED
    BY <2>1, <2>2 DEF BeginQuery, ServedInv, WireInv, TypeOK
<1>7. FindInterrupted => ServedInv' /\ replies' = replies
  <2>1. SUFFICES ASSUME FindInterrupted PROVE ServedInv' /\ replies' = replies
    OBVIOUS
  <2> DEFINE r == Head(forward).id
  <2>2. r \in Requests /\ r \in inFlight /\ replies[r] = <<>>
    BY <2>1, HeadRequest DEF FindInterrupted, Receive, RequestKinds
  <2> QED
    BY <2>1, <2>2 DEF FindInterrupted, ServedInv, TypeOK
<1>8. ASSUME NEW spawned \in BOOLEAN, BeginFormat(spawned)
      PROVE  ServedInv' /\ replies' = replies
  <2> DEFINE r == Head(forward).id
  <2>1. /\ r \in Requests /\ r \in inFlight /\ replies[r] = <<>>
        /\ r \notin stale => applied = swept
    BY <1>8, HeadRequest DEF BeginFormat, Receive, RequestKinds
  <2>2. /\ \E s \in {"formatting", "done"} : stage' = [stage EXCEPT ![r] = s]
        /\ basis' = [basis EXCEPT ![r] = applied]
        /\ UNCHANGED <<swept, inFlight, stale, cancelled, replies>>
    BY <1>8 DEF BeginFormat
  <2> QED
    BY <2>1, <2>2 DEF ServedInv, WireInv, TypeOK
<1>9. ASSUME NEW r \in Requests, Output(r) PROVE ServedInv' /\ replies' = replies
  BY <1>9 DEF Output, ServedInv, TypeOK
<1>10. ASSUME NEW r \in Requests, LiveFormat(r), NEW result, Report(r, result)
      PROVE  ServedInv' /\ replies' = replies
  BY <1>10 DEF Report, LiveFormat, ServedInv, TypeOK
<1> QED
  BY <1>1, <1>2, <1>3, <1>4, <1>5, <1>6, <1>7, <1>8, <1>9, <1>10
     DEF Next, Route, Dispatch, RunHandler, Answering, AwaitOutput, FormatPanics,
         ChildExits, PollCancel, FormatFails, Reap, LiveFormat

-----------------------------------------------------------------------------
(***************************************************************************)
(* The checkpoints and the formats.                                        *)
(***************************************************************************)
Formats == FormatInv /\ OneLiveFormat /\ ShutdownTripsFormats

LEMMA DoneType == TypeOK => \A i \in 1 .. Len(done) : done[i].id \in Requests
<1> SUFFICES ASSUME TypeOK, NEW i \in 1 .. Len(done) PROVE done[i].id \in Requests
  OBVIOUS
<1> DEFINE Done == [id : Requests, result : Results]
<1>1. done \in Seq(Done)
  BY DEF TypeOK
<1> HIDE DEF Done
<1>2. done[i] \in Done
  BY <1>1
<1> QED
  BY <1>2 DEF Done

LEMMA RouteFormats ==
  ASSUME TypeOK, BailInv, Formats, Route \/ RouterForward
  PROVE  BailInv' /\ Formats'
<1> USE DEF RouterReady, requestVars, workerVars, formatVars, lifeVars, Formats,
            FormatInv, OneLiveFormat, ShutdownTripsFormats, BailInv, Interrupted,
            LiveFormat
<1>1. ASSUME NEW r \in Requests, RouteCancel(r) PROVE BailInv' /\ Formats'
  BY <1>1 DEF RouteCancel, CancelInFlight, TypeOK
<1>2. ASSUME NEW r \in Requests, NEW kind, NEW d, RouteRequest(r, kind, d)
      PROVE  BailInv' /\ Formats'
  <2>1. stage[r] = "unsent" /\ stage' = [stage EXCEPT ![r] = "queued"]
    BY <1>2 DEF RouteRequest
  <2>2. BailInv'
    BY <1>2, <2>1 DEF RouteRequest, TypeOK
  <2>3. FormatInv'
    <3>1. \A i \in 1 .. Len(done) : done[i].id \in Requests
      BY DoneType
    <3>2. \A q \in Requests : stage[q] = "done" => stage'[q] = "done"
      BY <2>1 DEF TypeOK
    <3> QED
      BY <1>2, <2>1, <3>1, <3>2 DEF RouteRequest, TypeOK
  <2>4. OneLiveFormat' /\ ShutdownTripsFormats'
    BY <1>2, <2>1 DEF RouteRequest, TypeOK
  <2> QED
    BY <2>2, <2>3, <2>4
<1>3. ASSUME NEW kind, NEW d, RouteMutation(kind, d) PROVE BailInv' /\ Formats'
  BY <1>3 DEF RouteMutation, Sweep, TypeOK
<1>4. ASSUME RouteExit \/ RouterDisconnect \/ RouterForward
      PROVE  BailInv' /\ Formats'
  BY <1>4 DEF RouteExit, RouterDisconnect, RouterForward
<1> QED
  BY <1>1, <1>2, <1>3, <1>4 DEF Route

(* A request that leaves the queue without a format thread, or the worker. *)
LEMMA MoveFormats ==
  ASSUME TypeOK, BailInv, Formats, NEW r \in Requests,
         stage[r] \in {"queued", "foundCancelled", "foundStale", "running"},
         NEW s \in {"foundCancelled", "foundStale", "running", "answered"},
         stage' = [stage EXCEPT ![r] = s],
         UNCHANGED <<cancelled, stale, done, formatMap, bailed>>,
         \A q \in Requests \ {r} : jobDoc'[q] = jobDoc[q],
         sessionEnd' = sessionEnd, sessionEnd = None,
         s # "answered" => worker' = r /\ stage[r] = "queued",
         s = "answered" => worker' = None,
         \/ UNCHANGED <<tripped, shuttingDown>>
         \/ /\ shuttingDown' = TRUE /\ s = "answered"
            /\ tripped' = tripped \cup {q \in Requests : \E d \in Docs : formatMap[d] = q}
  PROVE  BailInv' /\ Formats'
<1> USE DEF Formats, FormatInv, OneLiveFormat, ShutdownTripsFormats, LiveFormat
<1>1. \A q \in Requests \ {r} : stage'[q] = stage[q]
  BY DEF TypeOK
<1>2. stage'[r] = s
  BY DEF TypeOK
<1>3. \A q \in Requests : stage[q] \in {"unsent", "queued", "running"} /\ q \in tripped'
                         => q \in tripped
  <2>1. \A q \in Requests, d \in Docs :
          formatMap[d] = q => stage[q] \notin {"unsent", "queued", "running"}
    BY ConstantsAssumption
  <2> QED
    BY <2>1
<1>4. BailInv'
  BY <1>1, <1>2, <1>3 DEF BailInv, Interrupted, TypeOK
<1>5. FormatInv'
  <2>1. \A i \in 1 .. Len(done) : done[i].id \in Requests /\ done[i].id # r
    BY DoneType
  <2>2. \A d \in Docs : formatMap[d] # None => formatMap[d] \in Requests \ {r}
    BY DEF TypeOK
  <2> QED
    BY <1>1, <1>2, <2>1, <2>2
<1>6. OneLiveFormat' /\ ShutdownTripsFormats'
  BY <1>1, <1>2 DEF TypeOK
<1> QED
  BY <1>4, <1>5, <1>6

LEMMA BeginFormats ==
  ASSUME TypeOK, WireInv, ServedInv, BailInv, Formats,
         NEW spawned \in BOOLEAN, BeginFormat(spawned)
  PROVE  BailInv' /\ Formats'
<1> DEFINE r == Head(forward).id
           d == Head(forward).doc
<1> USE DEF wireVars, workerVars, LiveFormat
<1>1. /\ r \in Requests /\ d \in Docs /\ stage[r] = "queued"
  BY HeadRequest, HeadType DEF BeginFormat, Receive, RequestKinds
<1>2. PICK s \in {"formatting", "done"} :
        /\ stage' = [stage EXCEPT ![r] = s]
        /\ \/ s = "formatting" /\ done' = done
           \/ s = "done" /\ done' = Append(done, [id |-> r, result |-> "noEdits"])
  <2>1. CASE spawned
    <3>1. stage' = [stage EXCEPT ![r] = "formatting"] /\ done' = done
      BY <2>1 DEF BeginFormat
    <3> QED
      BY <3>1
  <2>2. CASE ~spawned
    <3>1. /\ stage' = [stage EXCEPT ![r] = "done"]
          /\ done' = Append(done, [id |-> r, result |-> "noEdits"])
      BY <2>2 DEF BeginFormat
    <3> QED
      BY <3>1
  <2> QED
    BY <2>1, <2>2
<1>3. /\ stage'[r] = s /\ \A q \in Requests \ {r} : stage'[q] = stage[q]
      /\ jobDoc'[r] = d /\ \A q \in Requests \ {r} : jobDoc'[q] = jobDoc[q]
      /\ formatMap'[d] = r /\ \A e \in Docs \ {d} : formatMap'[e] = formatMap[e]
  BY <1>1, <1>2 DEF BeginFormat, Supersede, TypeOK
<1>4. /\ tripped' = tripped \cup ({formatMap[d]} \ {None})
      /\ UNCHANGED <<bailed, worker, cancelled, stale, sessionEnd, shuttingDown>>
      /\ ~shuttingDown
  BY DEF BeginFormat, Supersede
<1>5. BailInv'
  <2>1. \A q \in Requests :
          stage[q] \in {"unsent", "queued", "running"} /\ q \in tripped' => q \in tripped
    BY <1>1, <1>4, ConstantsAssumption DEF Formats, FormatInv
  <2> QED
    BY <1>1, <1>3, <1>4, <2>1 DEF BailInv, Interrupted, TypeOK
<1>6. FormatInv'
  <2>1. \A i \in 1 .. Len(done) : done[i].id \in Requests /\ done[i].id # r
    BY <1>1, DoneType DEF Formats, FormatInv
  <2>2. /\ \A i \in 1 .. Len(done') : stage'[done'[i].id] = "done"
        /\ \A i, j \in 1 .. Len(done') : done'[i].id = done'[j].id => i = j
    <3>1. CASE done' = done
      BY <1>1, <1>3, <2>1, <3>1 DEF Formats, FormatInv
    <3>2. CASE s = "done" /\ done' = Append(done, [id |-> r, result |-> "noEdits"])
      <4>1. /\ Len(done) \in Nat /\ Len(done') = Len(done) + 1
            /\ \A i \in 1 .. Len(done) : done'[i] = done[i]
            /\ done'[Len(done) + 1].id = r
        <5>1. done \in Seq([id : Requests, result : Results])
          BY DEF TypeOK
        <5>2. [id |-> r, result |-> "noEdits"] \in [id : Requests, result : Results]
          BY <1>1 DEF Results
        <5> QED
          BY <3>2, <5>1, <5>2, AppendFacts
      <4> QED
        BY <1>1, <1>3, <2>1, <3>2, <4>1 DEF Formats, FormatInv
    <3> QED
      BY <1>2, <3>1, <3>2
  <2>3. \A q \in Requests :
          stage'[q] \in {"formatting", "reaping", "done"} => jobDoc'[q] \in Docs
    BY <1>1, <1>3 DEF Formats, FormatInv
  <2>4. \A e \in Docs : formatMap'[e] # None =>
          /\ stage'[formatMap'[e]] \in {"formatting", "reaping", "done"}
          /\ jobDoc'[formatMap'[e]] = e
    <3>1. SUFFICES ASSUME NEW e \in Docs, formatMap'[e] # None
                   PROVE  /\ stage'[formatMap'[e]] \in {"formatting", "reaping", "done"}
                          /\ jobDoc'[formatMap'[e]] = e
      OBVIOUS
    <3>2. CASE e = d
      BY <1>1, <1>2, <1>3, <3>2
    <3>3. CASE e # d
      <4>1. formatMap'[e] = formatMap[e] /\ formatMap[e] \in Requests
        BY <1>3, <3>1, <3>3 DEF TypeOK
      <4>2. /\ stage[formatMap[e]] \in {"formatting", "reaping", "done"}
            /\ jobDoc[formatMap[e]] = e
        BY <3>1, <4>1 DEF Formats, FormatInv
      <4>3. formatMap[e] \in Requests \ {r}
        BY <1>1, <4>1, <4>2
      <4> QED
        BY <1>3, <4>1, <4>2, <4>3
    <3> QED
      BY <3>2, <3>3
  <2> QED
    BY <2>2, <2>3, <2>4 DEF FormatInv
<1>7. OneLiveFormat'
  <2>1. \A q \in Requests \ {r} : LiveFormat(q)' <=> LiveFormat(q)
    BY <1>3
  <2> QED
    BY <1>1, <1>3, <1>4, ConstantsAssumption, <2>1
       DEF Formats, FormatInv, OneLiveFormat
<1>8. ShutdownTripsFormats'
  BY <1>4 DEF ShutdownTripsFormats
<1> QED
  BY <1>5, <1>6, <1>7, <1>8 DEF Formats

LEMMA DispatchFormats ==
  ASSUME TypeOK, WireInv, ServedInv, BailInv, Formats, Dispatch
  PROVE  BailInv' /\ Formats'
<1> DEFINE r == Head(forward).id
<1> USE DEF wireVars, requestVars, workerVars, formatVars, lifeVars
<1>1. CASE Refuse
  <2>1. r \in Requests /\ stage[r] = "queued"
    BY <1>1, HeadRequest DEF Refuse, Receive, RequestKinds
  <2>2. /\ stage' = [stage EXCEPT ![r] = "answered"]
        /\ worker' = None /\ sessionEnd = None
        /\ UNCHANGED <<cancelled, stale, tripped, done, jobDoc, formatMap, bailed,
                       sessionEnd, shuttingDown>>
    BY <1>1 DEF Refuse, Send, Receive, Idle
  <2> QED
    BY <2>1, <2>2, MoveFormats
<1>2. CASE Shutdown
  <2>1. r \in Requests /\ stage[r] = "queued"
    BY <1>2, HeadRequest DEF Shutdown, Receive, RequestKinds
  <2>2. /\ stage' = [stage EXCEPT ![r] = "answered"]
        /\ worker' = None /\ sessionEnd = None /\ shuttingDown' = TRUE
        /\ tripped' = tripped \cup {q \in Requests : \E d \in Docs : formatMap[d] = q}
        /\ UNCHANGED <<cancelled, stale, done, jobDoc, formatMap, bailed, sessionEnd>>
    BY <1>2 DEF Shutdown, Send, Receive, Idle
  <2> QED
    BY <2>1, <2>2, MoveFormats
<1>3. CASE BeginQuery
  <2>1. r \in Requests /\ stage[r] = "queued"
    BY <1>3, HeadRequest DEF BeginQuery, Receive, RequestKinds
  <2>2. /\ stage' = [stage EXCEPT ![r] = "running"]
        /\ worker' = r /\ sessionEnd = None
        /\ \A q \in Requests \ {r} : jobDoc'[q] = jobDoc[q]
        /\ UNCHANGED <<cancelled, stale, tripped, done, formatMap, bailed,
                       sessionEnd, shuttingDown>>
    BY <1>3 DEF BeginQuery, Receive, Idle, TypeOK
  <2> QED
    BY <2>1, <2>2, MoveFormats
<1>4. CASE FindInterrupted
  <2>1. r \in Requests /\ stage[r] = "queued"
    BY <1>4, HeadRequest DEF FindInterrupted, Receive, RequestKinds
  <2>2. PICK s \in {"foundCancelled", "foundStale"} :
          stage' = [stage EXCEPT ![r] = s]
    BY <1>4 DEF FindInterrupted
  <2>3. /\ worker' = r /\ sessionEnd = None
        /\ UNCHANGED <<cancelled, stale, tripped, done, jobDoc, formatMap, bailed,
                       sessionEnd, shuttingDown>>
    BY <1>4 DEF FindInterrupted, Receive, Idle
  <2> QED
    BY <2>1, <2>2, <2>3, MoveFormats
<1>5. CASE DispatchCancel
  BY <1>5 DEF DispatchCancel, CancelInFlight, Formats, FormatInv, OneLiveFormat,
              ShutdownTripsFormats, LiveFormat, BailInv, Interrupted
<1>6. CASE DispatchMutation \/ DispatchExit \/ TransportClosed
  BY <1>6 DEF DispatchMutation, DispatchExit, TransportClosed, Receive, Idle, Formats,
              FormatInv, OneLiveFormat, ShutdownTripsFormats, LiveFormat, BailInv,
              Interrupted
<1> QED
  BY <1>1, <1>2, <1>3, <1>4, <1>5, <1>6, BeginFormats DEF Dispatch

LEMMA ServeFormats ==
  ASSUME TypeOK, ServedInv, BailInv, Formats,
         \/ RunHandler \/ ApplyFormatDone
         \/ \E r \in Requests : AwaitOutput(r) \/ FormatPanics(r) \/ ChildExits(r)
  PROVE  BailInv' /\ Formats'
<1> USE DEF wireVars, requestVars, workerVars, formatVars, lifeVars
<1>1. CASE Checkpoint
  <2>1. worker \in Requests /\ stage[worker] = "running" /\ worker \in tripped
    BY <1>1 DEF Checkpoint, BailInv, TypeOK
  <2> QED
    BY <1>1, <2>1 DEF Checkpoint, Formats, FormatInv, OneLiveFormat,
                      ShutdownTripsFormats, LiveFormat, BailInv, Interrupted
<1>2. ASSUME NEW code \in {"ok", "failed", "contentModified"}, EndQuery(code)
      PROVE  BailInv' /\ Formats'
  <2>1. worker \in Requests /\ stage[worker] = "running" /\ sessionEnd = None
    BY <1>2 DEF EndQuery, BailInv, TypeOK
  <2> QED
    BY <1>2, <2>1, MoveFormats DEF EndQuery, Finish, Send
<1>3. CASE ShortCircuit
  <2>1. /\ worker \in Requests /\ sessionEnd = None
        /\ stage[worker] \in {"foundCancelled", "foundStale"}
    BY <1>3 DEF ShortCircuit, BailInv, TypeOK
  <2> QED
    BY <1>3, <2>1, MoveFormats DEF ShortCircuit, Send
<1>4. CASE ApplyFormatDone
  <2> DEFINE r == Head(done).id
  <2>1. /\ r \in Requests /\ stage[r] = "done" /\ r = done[1].id
        /\ Len(done) \in Nat /\ Len(done) > 0 /\ Len(done') = Len(done) - 1
        /\ \A i \in 1 .. Len(done') : i + 1 \in 1 .. Len(done) /\ done'[i] = done[i + 1]
    BY <1>4, HeadDone DEF Formats
  <2>2. /\ stage'[r] = "answered" /\ \A q \in Requests \ {r} : stage'[q] = stage[q]
    BY <1>4, <2>1 DEF ApplyFormatDone, Finish, Send, TypeOK
  <2>3. /\ formatMap' \in [Docs -> Requests \cup {None}]
        /\ \A d \in Docs : \/ formatMap'[d] = formatMap[d] /\ formatMap[d] # r
                           \/ formatMap'[d] = None /\ formatMap[d] = r
    <3>1. \A d \in Docs : formatMap[d] = r => d = jobDoc[r]
      BY <2>1, ConstantsAssumption DEF Formats, FormatInv
    <3>2. formatMap' = IF formatMap[jobDoc[r]] = r
                       THEN [formatMap EXCEPT ![jobDoc[r]] = None] ELSE formatMap
      BY <1>4 DEF ApplyFormatDone
    <3> QED
      BY <3>1, <3>2 DEF TypeOK
  <2>4. UNCHANGED <<bailed, tripped, cancelled, stale, jobDoc, worker, sessionEnd,
                    shuttingDown>>
    BY <1>4 DEF ApplyFormatDone
  <2>5. BailInv'
    BY <2>1, <2>2, <2>4 DEF BailInv, Interrupted, TypeOK
  <2>6. FormatInv'
    <3>1. \A i \in 1 .. Len(done') : done'[i].id \in Requests \ {r}
                                    /\ stage[done'[i].id] = "done"
      BY <2>1, DoneType DEF Formats, FormatInv
    <3>2. \A i, j \in 1 .. Len(done') : done'[i].id = done'[j].id => i = j
      BY <2>1 DEF Formats, FormatInv
    <3> QED
      BY <2>2, <2>3, <2>4, <3>1, <3>2 DEF Formats, FormatInv
  <2>7. OneLiveFormat'
    <3>1. \A q \in Requests : LiveFormat(q)' => LiveFormat(q) /\ q # r
      BY <2>2 DEF LiveFormat
    <3>2. \A q \in Requests : LiveFormat(q) => jobDoc[q] \in Docs
      BY DEF LiveFormat, Formats, FormatInv
    <3> QED
      BY <2>3, <2>4, <3>1, <3>2 DEF Formats, OneLiveFormat
  <2>8. ShutdownTripsFormats'
    BY <2>1, <2>2, <2>4 DEF Formats, ShutdownTripsFormats, LiveFormat
  <2> QED
    BY <2>5, <2>6, <2>7, <2>8 DEF Formats
<1>5. ASSUME NEW r \in Requests, Output(r) PROVE BailInv' /\ Formats'
  <2>1. stage[r] = "formatting" /\ stage' = [stage EXCEPT ![r] = "reaping"]
    BY <1>5 DEF Output
  <2>2. \A i \in 1 .. Len(done) : done[i].id \in Requests /\ done[i].id # r
    BY <2>1, DoneType DEF Formats, FormatInv
  <2>3. \A d \in Docs : formatMap[d] # None => formatMap[d] \in Requests
    BY DEF TypeOK
  <2> QED
    BY <1>5, <2>1, <2>2, <2>3
       DEF Output, Formats, FormatInv, OneLiveFormat, ShutdownTripsFormats, LiveFormat,
           BailInv, Interrupted, TypeOK
<1>6. ASSUME NEW r \in Requests, LiveFormat(r), NEW result \in Results, Report(r, result)
      PROVE  BailInv' /\ Formats'
  <2>1. /\ stage'[r] = "done" /\ \A q \in Requests \ {r} : stage'[q] = stage[q]
        /\ stage[r] \in {"formatting", "reaping"}
    BY <1>6 DEF Report, TypeOK, LiveFormat
  <2>2. \A i \in 1 .. Len(done) : done[i].id \in Requests /\ done[i].id # r
    BY <2>1, DoneType DEF Formats, FormatInv
  <2>3. /\ Len(done) \in Nat /\ Len(done') = Len(done) + 1
        /\ \A i \in 1 .. Len(done) : done'[i] = done[i]
        /\ done'[Len(done) + 1].id = r
    <3>1. done \in Seq([id : Requests, result : Results])
      BY DEF TypeOK
    <3>2. [id |-> r, result |-> result] \in [id : Requests, result : Results]
      OBVIOUS
    <3>3. done' = Append(done, [id |-> r, result |-> result])
      BY <1>6 DEF Report
    <3> QED
      BY <3>1, <3>2, <3>3, AppendFacts
  <2>4. UNCHANGED <<bailed, tripped, cancelled, stale, jobDoc, formatMap, worker,
                    sessionEnd, shuttingDown>>
    BY <1>6 DEF Report
  <2>5. BailInv'
    BY <2>1, <2>4 DEF BailInv, Interrupted, TypeOK
  <2>6. FormatInv'
    <3>1. /\ \A i \in 1 .. Len(done') : stage'[done'[i].id] = "done"
          /\ \A i, j \in 1 .. Len(done') : done'[i].id = done'[j].id => i = j
      BY <2>1, <2>2, <2>3 DEF Formats, FormatInv
    <3>2. \A d \in Docs : formatMap[d] # None => formatMap[d] \in Requests
      BY DEF TypeOK
    <3> QED
      BY <2>1, <2>4, <3>1, <3>2 DEF Formats, FormatInv
  <2>7. OneLiveFormat' /\ ShutdownTripsFormats'
    BY <2>1, <2>4 DEF Formats, OneLiveFormat, ShutdownTripsFormats, LiveFormat
  <2> QED
    BY <2>5, <2>6, <2>7 DEF Formats
<1> QED
  BY <1>1, <1>2, <1>3, <1>4, <1>5, <1>6
     DEF RunHandler, AwaitOutput, FormatPanics, ChildExits, PollCancel, FormatFails,
         Reap, LiveFormat, Results

-----------------------------------------------------------------------------
(***************************************************************************)
(* The invariant.                                                          *)
(***************************************************************************)
LEMMA InvInit == Init => Inv
<1> SUFFICES ASSUME Init PROVE Inv
  OBVIOUS
<1>1. TypeOK
  BY TypeInit
<1>2. WireInv /\ UniqueInv
  BY DEF Init, WireInv, UniqueInv, VersionAt
<1>3. ServedInv /\ BailInv
  BY DEF Init, ServedInv, BailInv
<1>4. FormatInv /\ OneLiveFormat /\ ShutdownTripsFormats
  BY DEF Init, FormatInv, OneLiveFormat, ShutdownTripsFormats, LiveFormat
<1>5. ASSUME NEW r \in Requests PROVE AnswersTo(r) = {}
  <2>1. replies[r] = <<>>
    BY DEF Init
  <2>2. DOMAIN replies[r] = 1 .. 0
    BY <2>1
  <2> QED
    BY <2>2 DEF AnswersTo
<1>6. CurrentResults /\ NoPartialAnswer
  BY <1>5 DEF CurrentResults, NoPartialAnswer
<1> QED
  BY <1>1, <1>2, <1>3, <1>4, <1>6 DEF Inv

LEMMA InvStep == Inv /\ [Next]_vars => Inv'
<1> SUFFICES ASSUME Inv, [Next]_vars PROVE Inv'
  OBVIOUS
<1> USE DEF Inv
<1>1. TypeOK'
  BY TypeStep
<1>2. CASE Next
  <2>1. Formats
    BY DEF Formats
  <2>2. WireInv' /\ UniqueInv'
    BY <1>2, RouteWire, ForwardWire, DispatchWire, ServeWire DEF Next
  <2>3. BailInv' /\ Formats'
    BY <1>2, <2>1, RouteFormats, DispatchFormats, ServeFormats DEF Next
  <2>4. CASE Answering
    BY <1>1, <2>2, <2>3, <2>4, AnswerServed DEF Formats
  <2>5. CASE ~Answering
    <3>1. ServedInv' /\ replies' = replies
      BY <1>2, <2>5, OtherServed
    <3>2. CurrentResults' /\ NoPartialAnswer'
      BY <3>1 DEF CurrentResults, NoPartialAnswer, AnswersTo
    <3> QED
      BY <1>1, <2>2, <2>3, <3>1, <3>2 DEF Formats
  <2> QED
    BY <2>4, <2>5
<1>3. CASE UNCHANGED vars
  <2> USE <1>3 DEF vars, wireVars, lifeVars, requestVars, workerVars, formatVars
  <2>1. WireInv' /\ UniqueInv'
    BY DEF WireInv, UniqueInv, VersionAt, OnItsWay
  <2>2. ServedInv' /\ BailInv'
    BY DEF ServedInv, BailInv, Interrupted
  <2>3. FormatInv' /\ OneLiveFormat' /\ ShutdownTripsFormats'
    BY DEF FormatInv, OneLiveFormat, ShutdownTripsFormats, LiveFormat
  <2>4. CurrentResults' /\ NoPartialAnswer'
    BY DEF CurrentResults, NoPartialAnswer, AnswersTo
  <2> QED
    BY <1>1, <2>1, <2>2, <2>3, <2>4
<1> QED
  BY <1>2, <1>3

(* The inductive invariant holds of every session, for every number of     *)
(* requests, documents, mutations and queued messages.                     *)
THEOREM Invariance == Spec => []Inv
<1>1. Init => Inv
  BY InvInit
<1>2. Inv /\ [Next]_vars => Inv'
  BY InvStep
<1> QED
  BY <1>1, <1>2, PTL DEF Spec

(* No answer that is not an error was computed from text the client had    *)
(* changed by the time finish_request or the FormatDone arm chose it.      *)
THEOREM ResultsAreCurrent == Spec => []CurrentResults
<1>1. Inv => CurrentResults
  BY DEF Inv
<1> QED
  BY <1>1, Invariance, PTL

(* A handler that bailed at an analyzer checkpoint never answers with the  *)
(* partial result.                                                         *)
THEOREM PartialResultsDropped == Spec => []NoPartialAnswer
<1>1. Inv => NoPartialAnswer
  BY DEF Inv
<1> QED
  BY <1>1, Invariance, PTL

(* A lifecycle is in the registry exactly while its request is owed an     *)
(* answer, and every request gets at most one.                             *)
THEOREM RegistryIsExact == Spec => []RegistryExact
<1>1. Inv => RegistryExact
  <2> SUFFICES ASSUME Inv, NEW r \in Requests
               PROVE  /\ r \in inFlight => stage[r] \notin {"unsent", "answered"}
                      /\ stage[r] \notin {"unsent", "queued", "answered"}
                           => r \in inFlight
                      /\ Len(replies[r]) = IF stage[r] = "answered" THEN 1 ELSE 0
    BY DEF RegistryExact
  <2>1. Len(replies[r]) = IF stage[r] = "answered" THEN 1 ELSE 0
    <3>1. CASE replies[r] = <<>>
      <4>1. Len(replies[r]) = 0
        BY <3>1
      <4>2. stage[r] # "answered"
        BY <3>1 DEF Inv, ServedInv
      <4> QED
        BY <4>1, <4>2
    <3>2. CASE replies[r] # <<>>
      BY <3>2 DEF Inv, ServedInv
    <3> QED
      BY <3>1, <3>2
  <2>2. stage[r] \in Stages
    BY DEF Inv, TypeOK
  <2> QED
    BY <2>1, <2>2 DEF Inv, ServedInv, Stages
<1> QED
  BY <1>1, Invariance, PTL

(* The supersession map and the tokens agree: a document has at most one   *)
(* format that nobody has cancelled, however its requests overtake.        *)
THEOREM OneFormatPerDocument == Spec => []OneLiveFormat
<1>1. Inv => OneLiveFormat
  BY DEF Inv
<1> QED
  BY <1>1, Invariance, PTL

(* Once shutdown was dispatched no format is left that could still write:  *)
(* each one has been told to stop.                                         *)
THEOREM ShutdownStopsFormats == Spec => []ShutdownTripsFormats
<1>1. Inv => ShutdownTripsFormats
  BY DEF Inv
<1> QED
  BY <1>1, Invariance, PTL

-----------------------------------------------------------------------------
(***************************************************************************)
(* The refinement of RequestContract.                                      *)
(***************************************************************************)
LEMMA ContractInit == Init => Contract!Init
<1> SUFFICES ASSUME Init PROVE Contract!Init
  OBVIOUS
<1>1. /\ swept = 0 /\ cancelled = {} /\ sessionEnd = None
      /\ \A r \in Requests : stage[r] = "unsent" /\ replies[r] = <<>>
  BY DEF Init
<1> QED
  BY <1>1 DEF Contract!Init

(* A step that answers r is one Answer or one Refuse of the contract.      *)
LEMMA ContractAnswers ==
  ASSUME Inv, Inv', Answering
  PROVE  Contract!Next
<1>1. PICK r \in Requests, code \in Codes, text \in Nat, result \in Results :
        Answers(r, code, text, result)
  BY AnswerStep DEF Inv
<1>2. /\ replies'[r] # <<>> /\ Len(replies'[r]) = 1
      /\ replies'[r][1].code = code /\ replies'[r][1].text = text
      /\ \A q \in Requests \ {r} : replies'[q] = replies[q]
  BY <1>1, OneReply DEF Inv
<1>3. /\ stage'[r] = "answered" /\ stage[r] # "unsent" /\ replies[r] = <<>>
      /\ \A q \in Requests \ {r} : stage'[q] = stage[q]
  BY <1>1 DEF Answers, Send, Inv, TypeOK
<1>4. /\ UNCHANGED <<swept, cancelled, sessionEnd>> /\ sessionEnd = None
      /\ text \in 0 .. swept
      /\ code = "ok" => text = swept
      /\ code = "cancelled" => r \in cancelled
      /\ r \in cancelled => code \in {"cancelled", "contentModified", "invalidRequest"}
  BY <1>1 DEF Answers
<1>5. {q \in Requests : stage'[q] # "unsent"} = {q \in Requests : stage[q] # "unsent"}
  BY <1>3
<1>6. [q \in Requests |-> IF replies'[q] = <<>> THEN None
                         ELSE [code |-> replies'[q][Len(replies'[q])].code,
                               text |-> replies'[q][Len(replies'[q])].text]]
      = [[q \in Requests |-> IF replies[q] = <<>> THEN None
                            ELSE [code |-> replies[q][Len(replies[q])].code,
                                  text |-> replies[q][Len(replies[q])].text]]
         EXCEPT ![r] = [code |-> code, text |-> text]]
  BY <1>2, <1>3
<1>7. CASE code = "invalidRequest"
  <2>1. Contract!Refuse(r, text)
    BY <1>3, <1>4, <1>5, <1>6, <1>7 DEF Contract!Refuse
  <2> QED
    BY <1>4, <2>1 DEF Contract!Next
<1>8. CASE code # "invalidRequest"
  <2>1. Contract!Answer(r, code, text)
    BY <1>3, <1>4, <1>5, <1>6, <1>8 DEF Contract!Answer
  <2>2. code \in {"ok", "cancelled", "contentModified", "failed", "null"}
    BY <1>8 DEF Codes
  <2> QED
    BY <1>4, <2>1, <2>2 DEF Contract!Next
<1> QED
  BY <1>7, <1>8

(* A step the client cannot see.                                           *)
LEMMA ContractStutters ==
  ASSUME UNCHANGED <<swept, cancelled, replies, sessionEnd>>,
         \A r \in Requests : stage'[r] = "unsent" <=> stage[r] = "unsent"
  PROVE  UNCHANGED Contract!vars
BY DEF Contract!vars

(* CancelInFlight is one Retract, or changes nothing the client can see.   *)
LEMMA ContractRetracts ==
  ASSUME Inv, NEW r \in Requests, CancelInFlight(r),
         UNCHANGED <<stage, swept, replies, sessionEnd>>
  PROVE  [Contract!Next]_(Contract!vars)
<1>1. CASE r \in inFlight
  <2>1. stage[r] \notin {"unsent", "answered"} /\ replies[r] = <<>>
    BY <1>1 DEF Inv, ServedInv
  <2>2. cancelled' = cancelled \cup {r}
    BY <1>1 DEF CancelInFlight
  <2>3. Contract!Retract(r)
    BY <2>1, <2>2 DEF Contract!Retract
  <2> QED
    BY <2>3 DEF Contract!Next
<1>2. CASE r \notin inFlight
  BY <1>2, ContractStutters DEF CancelInFlight
<1> QED
  BY <1>1, <1>2

LEMMA ContractOther ==
  ASSUME Inv, Next, ~Answering
  PROVE  [Contract!Next]_(Contract!vars)
<1> USE DEF wireVars, lifeVars, requestVars, workerVars, formatVars, RouterReady
<1>0. replies' = replies
  BY OtherServed DEF Inv
<1>1. ASSUME NEW r \in Requests, RouteCancel(r)
      PROVE  [Contract!Next]_(Contract!vars)
  BY <1>1, ContractRetracts DEF RouteCancel
<1>2. ASSUME NEW r \in Requests, NEW kind, NEW d, RouteRequest(r, kind, d)
      PROVE  [Contract!Next]_(Contract!vars)
  <2>1. /\ r \notin {q \in Requests : stage[q] # "unsent"}
        /\ {q \in Requests : stage'[q] # "unsent"}
             = {q \in Requests : stage[q] # "unsent"} \cup {r}
        /\ UNCHANGED <<swept, cancelled, replies, sessionEnd>>
    BY <1>2 DEF RouteRequest, Inv, TypeOK
  <2>2. Contract!Ask(r)
    BY <2>1 DEF Contract!Ask
  <2> QED
    BY <2>2 DEF Contract!Next
<1>3. ASSUME NEW kind, NEW d, RouteMutation(kind, d)
      PROVE  [Contract!Next]_(Contract!vars)
  <2>1. Contract!Mutate
    BY <1>3 DEF RouteMutation, Sweep, Contract!Mutate
  <2> QED
    BY <2>1 DEF Contract!Next
<1>4. ASSUME RouteExit \/ RouterDisconnect \/ RouterForward \/ DispatchMutation
             \/ Checkpoint
      PROVE  [Contract!Next]_(Contract!vars)
  BY <1>4, ContractStutters
     DEF RouteExit, RouterDisconnect, RouterForward, DispatchMutation, Checkpoint
<1>5. CASE DispatchCancel
  <2>1. Head(forward).id \in Requests
    BY <1>5, HeadType DEF DispatchCancel, Receive, Inv
  <2> QED
    BY <1>5, <2>1, ContractRetracts DEF DispatchCancel
<1>6. CASE DispatchExit \/ TransportClosed
  <2>1. /\ sessionEnd' # None
        /\ UNCHANGED <<swept, stage, cancelled, replies>>
    BY <1>6, ConstantsAssumption DEF DispatchExit, TransportClosed, SessionEnds
  <2>2. Contract!Close
    BY <2>1 DEF Contract!Close
  <2> QED
    BY <2>2 DEF Contract!Next
<1>7. ASSUME NEW r \in Requests, stage[r] # "unsent",
             NEW s, s # "unsent", stage' = [stage EXCEPT ![r] = s],
             UNCHANGED <<swept, cancelled, sessionEnd>>
      PROVE  [Contract!Next]_(Contract!vars)
  BY <1>0, <1>7, ContractStutters DEF Inv, TypeOK
<1>8. CASE BeginQuery
  <2>1. Head(forward).id \in Requests /\ stage[Head(forward).id] = "queued"
    BY <1>8, HeadRequest DEF BeginQuery, Receive, RequestKinds, Inv
  <2> QED
    BY <1>7, <1>8, <2>1 DEF BeginQuery
<1>9. ASSUME NEW spawned \in BOOLEAN, BeginFormat(spawned)
      PROVE  [Contract!Next]_(Contract!vars)
  <2>1. Head(forward).id \in Requests /\ stage[Head(forward).id] = "queued"
    BY <1>9, HeadRequest DEF BeginFormat, Receive, RequestKinds, Inv
  <2>2. PICK s \in {"formatting", "done"} :
          stage' = [stage EXCEPT ![Head(forward).id] = s]
    BY <1>9 DEF BeginFormat
  <2>3. UNCHANGED <<swept, cancelled, sessionEnd>>
    BY <1>9 DEF BeginFormat
  <2> QED
    BY <1>7, <2>1, <2>2, <2>3
<1>10. ASSUME NEW r \in Requests, AwaitOutput(r) \/ FormatPanics(r) \/ ChildExits(r)
       PROVE  [Contract!Next]_(Contract!vars)
  <2>1. CASE Output(r)
    BY <1>7, <2>1 DEF Output
  <2>2. ASSUME LiveFormat(r), NEW result, Report(r, result)
        PROVE  [Contract!Next]_(Contract!vars)
    BY <1>7, <2>2 DEF Report, LiveFormat
  <2> QED
    BY <1>10, <2>1, <2>2
       DEF AwaitOutput, FormatPanics, ChildExits, PollCancel, FormatFails, Reap,
           LiveFormat
<1>11. CASE FindInterrupted
  <2>1. Head(forward).id \in Requests /\ stage[Head(forward).id] = "queued"
    BY <1>11, HeadRequest DEF FindInterrupted, Receive, RequestKinds, Inv
  <2>2. PICK s \in {"foundCancelled", "foundStale"} :
          stage' = [stage EXCEPT ![Head(forward).id] = s]
    BY <1>11 DEF FindInterrupted
  <2>3. UNCHANGED <<swept, cancelled, sessionEnd>>
    BY <1>11 DEF FindInterrupted
  <2> QED
    BY <1>7, <2>1, <2>2, <2>3
<1> QED
  BY <1>1, <1>2, <1>3, <1>4, <1>5, <1>6, <1>8, <1>9, <1>10, <1>11
     DEF Next, Route, Dispatch, RunHandler, Answering

(* The router, the worker, the registry and the format threads together    *)
(* implement the contract a client relies on.                              *)
THEOREM Refinement == Spec => ImplementsContract
<1>1. Init => Contract!Init
  BY ContractInit
<1>2. Inv /\ Inv' /\ [Next]_vars => [Contract!Next]_(Contract!vars)
  <2> SUFFICES ASSUME Inv, Inv', [Next]_vars
               PROVE  [Contract!Next]_(Contract!vars)
    OBVIOUS
  <2>1. CASE UNCHANGED vars
    BY <2>1, ContractStutters
       DEF vars, wireVars, lifeVars, requestVars, workerVars
  <2>2. CASE Next
    BY <2>2, ContractAnswers, ContractOther
  <2> QED
    BY <2>1, <2>2
<1> QED
  BY <1>1, <1>2, Invariance, PTL DEF Spec, ImplementsContract, Contract!Spec
=============================================================================
