------------------------------ MODULE Session ------------------------------
(***************************************************************************)
(* The request lifecycle of one gdls session: the router thread, the       *)
(* event-loop worker, and the off-worker formatter threads, over the       *)
(* registry they share (crates/gd_server/src/{router,server,formatter}.rs).*)
(*                                                                         *)
(* The router reads the wire and acts at once on the messages that must    *)
(* preempt work in flight ($/cancelRequest, content mutations); it then    *)
(* forwards every message, in order, to the worker.  The worker runs one   *)
(* handler at a time, except textDocument/formatting, which it hands to a  *)
(* thread of its own and answers when the thread's FormatDone comes back.  *)
(*                                                                         *)
(* Text is abstracted to a count: content mutation number n produces text  *)
(* version n.  Every message carries n, the number of mutations read off   *)
(* the wire up to and including it; the code carries no such number, and   *)
(* no guard reads it.                                                      *)
(***************************************************************************)
EXTENDS Naturals, Sequences

CONSTANTS
  Requests,      \* request ids; a client uses each at most once
  Docs,          \* document uris
  Failures,      \* the FormatterFailure classes
  MaxMutations,  \* bound on didOpen/didChange/didClose notifications
  MaxQueue,      \* bound on the forward channel at which the router reads
  None           \* no request, no document, no message

VARIABLES
  routerUp,      \* the router's receive loop is running
  routing,       \* the message the router has acted on but not forwarded
  swept,         \* mutations the router has read (history)
  forward,       \* the unbounded channel router -> worker
  inFlight,      \* SessionShared::in_flight, the registered ids
  cancelled,     \* RequestLifecycle::cancelled of each id
  stale,         \* RequestLifecycle::stale
  tripped,       \* RequestLifecycle::token, what the analyzer polls
  stage,         \* where each request is
  basis,         \* text version each request's handler read (history)
  bailed,        \* requests whose analysis stopped at a checkpoint
  replies,       \* the responses sent for each id (history)
  worker,        \* the request whose handler is running, or None
  open,          \* the VFS: documents with an open buffer
  applied,       \* mutations the worker has dispatched
  shuttingDown,
  sessionEnd,    \* SessionEnd, or None while the loop runs
  jobDoc,        \* the document each format is for
  formatMap,     \* FormatBridge::in_flight, document -> request
  done,          \* FormatBridge's channel of FormatDone
  warned         \* ServerState::formatter_warned

wireVars    == <<routerUp, routing, swept>>
lifeVars    == <<cancelled, stale, tripped>>
requestVars == <<stage, basis, bailed, replies>>
workerVars  == <<worker, open, applied, shuttingDown, sessionEnd>>
formatVars  == <<jobDoc, formatMap, done, warned>>
vars == <<wireVars, forward, inFlight, lifeVars, requestVars, workerVars,
          formatVars>>

Mutations == {"didOpen", "didChange", "didClose"}
RequestKinds == {"query", "format", "shutdown"}

Message ==
  [kind : {"query", "shutdown", "cancel"}, id : Requests, doc : {None}, n : Nat]
  \cup [kind : {"format"}, id : Requests, doc : Docs, n : Nat]
  \cup [kind : Mutations, id : {None}, doc : Docs, n : Nat]
  \cup [kind : {"exit"}, id : {None}, doc : {None}, n : Nat]

SessionEnds == {"cleanExit", "exitWithoutShutdown", "transportClosed"}

ASSUME ConstantsAssumption ==
  /\ None \notin Requests /\ None \notin Docs /\ None \notin Message
  /\ None \notin SessionEnds
  /\ MaxMutations \in Nat /\ MaxQueue \in Nat

Msg(kind, id, doc, n) == [kind |-> kind, id |-> id, doc |-> doc, n |-> n]

(* "null" is the answer to shutdown; "failed" stands for InvalidParams,    *)
(* MethodNotFound and the refusals of the fallible handlers.               *)
Codes == {"ok", "cancelled", "contentModified", "invalidRequest", "failed",
          "null"}

(* text and swept: the version the handler read, and the version the       *)
(* client had sent when the answer was chosen.  partial: the analysis      *)
(* behind it had bailed.  edits: it carries formatting edits.              *)
Reply == [code : Codes, text : Nat, swept : Nat, partial : BOOLEAN,
          edits : BOOLEAN]

(* What a format thread can report: edits, no edits, or a failure.         *)
Results == {"edits", "noEdits"} \cup Failures

Stages == {"unsent", "queued", "foundCancelled", "foundStale", "running",
           "formatting", "reaping", "done", "answered"}

(* A live format owns a thread and a child process.                        *)
LiveFormat(r) == stage[r] \in {"formatting", "reaping"}

Init ==
  /\ routerUp = TRUE /\ routing = None /\ swept = 0
  /\ forward = <<>>
  /\ inFlight = {} /\ cancelled = {} /\ stale = {} /\ tripped = {}
  /\ stage = [r \in Requests |-> "unsent"]
  /\ basis = [r \in Requests |-> 0]
  /\ bailed = {} /\ replies = [r \in Requests |-> <<>>]
  /\ worker = None /\ open = {} /\ applied = 0
  /\ shuttingDown = FALSE /\ sessionEnd = None
  /\ jobDoc = [r \in Requests |-> None]
  /\ formatMap = [d \in Docs |-> None]
  /\ done = <<>> /\ warned = {}

-----------------------------------------------------------------------------
(* The router thread.  Reading a message and flagging what it preempts is  *)
(* one step; forwarding it is the next, and the worker runs in between.    *)

RouterReady == routerUp /\ routing = None /\ Len(forward) < MaxQueue

(* A request is registered before it is forwarded; shutdown never is.      *)
RouteRequest(r, kind, d) ==
  /\ RouterReady
  /\ stage[r] = "unsent"
  /\ (kind = "format") <=> (d # None)
  /\ stage' = [stage EXCEPT ![r] = "queued"]
  /\ routing' = Msg(kind, r, d, swept)
  /\ inFlight' = IF kind = "shutdown" THEN inFlight ELSE inFlight \cup {r}
  /\ UNCHANGED <<routerUp, swept, forward, lifeVars, basis, bailed, replies,
                 workerVars, formatVars>>

(* SessionShared::cancel, called by the router and again by the worker.    *)
CancelInFlight(r) ==
  /\ cancelled' = cancelled \cup ({r} \cap inFlight)
  /\ tripped' = tripped \cup ({r} \cap inFlight)
  /\ stale' = stale

RouteCancel(r) ==
  /\ RouterReady
  /\ stage[r] # "unsent"
  /\ CancelInFlight(r)
  /\ routing' = Msg("cancel", r, None, swept)
  /\ UNCHANGED <<routerUp, swept, forward, inFlight, requestVars,
                 workerVars, formatVars>>

(* Mutant: the sweep misses the requests that have left the queue.         *)
SweepQueuedOnly ==
  /\ stale' = stale \cup {r \in inFlight : stage[r] = "queued"}
  /\ tripped' = tripped \cup {r \in inFlight : stage[r] = "queued"}
  /\ cancelled' = cancelled

(* Mutant: the sweep trips the token and forgets the flag.                 *)
SweepTokenOnly ==
  /\ tripped' = tripped \cup inFlight
  /\ UNCHANGED <<cancelled, stale>>

(* SessionShared::mark_all_stale.                                          *)
Sweep ==
  /\ stale' = stale \cup inFlight
  /\ tripped' = tripped \cup inFlight
  /\ cancelled' = cancelled

RouteMutation(kind, d) ==
  /\ RouterReady
  /\ swept < MaxMutations
  /\ Sweep
  /\ swept' = swept + 1
  /\ routing' = Msg(kind, None, d, swept + 1)
  /\ UNCHANGED <<routerUp, forward, inFlight, requestVars, workerVars,
                 formatVars>>

RouteExit ==
  /\ RouterReady
  /\ routing' = Msg("exit", None, None, swept)
  /\ UNCHANGED <<routerUp, swept, forward, inFlight, lifeVars, requestVars,
                 workerVars, formatVars>>

(* The send into the channel; the router stops after forwarding exit.      *)
RouterForward ==
  /\ routing # None
  /\ forward' = Append(forward, routing)
  /\ routing' = None
  /\ routerUp' = (routing.kind # "exit")
  /\ UNCHANGED <<swept, inFlight, lifeVars, requestVars, workerVars, formatVars>>

(* The transport closes: the receive loop ends and drops its sender.       *)
RouterDisconnect ==
  /\ RouterReady
  /\ routerUp' = FALSE
  /\ UNCHANGED <<routing, swept, forward, inFlight, lifeVars, requestVars,
                 workerVars, formatVars>>

-----------------------------------------------------------------------------
(* The worker.  It takes the next forwarded message when no handler runs.  *)

Idle == worker = None /\ sessionEnd = None

Receive(kinds) ==
  /\ Idle
  /\ forward # <<>>
  /\ Head(forward).kind \in kinds
  /\ forward' = Tail(forward)

Interrupted(r) == r \in cancelled \cup stale

(* Mutant: only staleness replaces the answer.                             *)
VerdictStaleOnly(r, code) ==
  IF r \in inFlight /\ r \in stale THEN "contentModified" ELSE code

(* finish_request: the removal under the registry lock decides whether an  *)
(* interrupt replaces the answer; cancelled wins over stale.               *)
Verdict(r, code) ==
  IF r \notin inFlight THEN code
  ELSE IF r \in cancelled THEN "cancelled"
  ELSE IF r \in stale THEN "contentModified"
  ELSE code

Send(r, code, text, result) ==
  /\ stage' = [stage EXCEPT ![r] = "answered"]
  /\ replies' = [replies EXCEPT ![r] =
                   Append(@, [code |-> code, text |-> text, swept |-> swept,
                              partial |-> r \in bailed,
                              edits |-> code = "ok" /\ result = "edits"])]

Finish(r, code, text, result) ==
  /\ inFlight' = inFlight \ {r}
  /\ Send(r, Verdict(r, code), text, result)

(* dispatch_request, first part: a request interrupted while it sat in the *)
(* queue does not run.  The verdict is read here, and the registry entry   *)
(* is removed by ShortCircuit: the router may act in between.              *)
FindInterrupted ==
  /\ Receive({"query", "format"}) /\ ~shuttingDown
  /\ LET r == Head(forward).id IN
       /\ Interrupted(r)
       /\ stage' = [stage EXCEPT ![r] = IF r \in cancelled THEN "foundCancelled"
                                        ELSE "foundStale"]
       /\ worker' = r
  /\ UNCHANGED <<wireVars, inFlight, lifeVars, basis, bailed, replies, open,
                 applied, shuttingDown, sessionEnd, formatVars>>

ShortCircuit ==
  /\ worker # None
  /\ stage[worker] \in {"foundCancelled", "foundStale"}
  /\ inFlight' = inFlight \ {worker}
  /\ Send(worker, IF stage[worker] = "foundCancelled" THEN "cancelled"
                  ELSE "contentModified", applied, "noEdits")
  /\ worker' = None
  /\ UNCHANGED <<wireVars, forward, lifeVars, basis, bailed, open, applied,
                 shuttingDown, sessionEnd, formatVars>>

(* A handler that answers before it returns: any query's, and a format's   *)
(* when it has no buffer, no command or malformed parameters.              *)
BeginQuery ==
  /\ Receive({"query", "format"}) /\ ~shuttingDown
  /\ LET r == Head(forward).id IN
       /\ ~Interrupted(r)
       /\ stage' = [stage EXCEPT ![r] = "running"]
       /\ basis' = [basis EXCEPT ![r] = applied]
       /\ jobDoc' = [jobDoc EXCEPT ![r] = Head(forward).doc]
       /\ worker' = r
  /\ UNCHANGED <<wireVars, inFlight, lifeVars, bailed, replies, open, applied,
                 shuttingDown, sessionEnd, formatMap, done, warned>>

(* Mutant: the displaced format keeps running.                             *)
SupersedeNoTrip(d, r) ==
  /\ formatMap' = [formatMap EXCEPT ![d] = r]
  /\ tripped' = tripped

(* Inserting into formatMap trips the token of the format it displaces.    *)
Supersede(d, r) ==
  /\ formatMap' = [formatMap EXCEPT ![d] = r]
  /\ tripped' = tripped \cup ({formatMap[d]} \ {None})

(* A format of an open document goes to a thread; when the OS refuses the  *)
(* thread, the worker itself posts the no-edits FormatDone.                *)
BeginFormat(spawned) ==
  /\ Receive({"format"}) /\ ~shuttingDown
  /\ LET r == Head(forward).id
         d == Head(forward).doc IN
       /\ ~Interrupted(r)
       /\ d \in open
       /\ Supersede(d, r)
       /\ jobDoc' = [jobDoc EXCEPT ![r] = d]
       /\ basis' = [basis EXCEPT ![r] = applied]
       /\ stage' = [stage EXCEPT ![r] = IF spawned THEN "formatting"
                                        ELSE "done"]
       /\ done' = IF spawned THEN done
                  ELSE Append(done, [id |-> r, result |-> "noEdits"])
  /\ UNCHANGED <<wireVars, inFlight, cancelled, stale, bailed, replies,
                 workerVars, warned>>

(* The analyzer polls the request's token every 256 nodes and bails.       *)
Checkpoint ==
  /\ worker # None
  /\ stage[worker] = "running" /\ jobDoc[worker] = None
  /\ worker \in tripped
  /\ worker \notin bailed
  /\ bailed' = bailed \cup {worker}
  /\ UNCHANGED <<wireVars, forward, inFlight, lifeVars, stage, basis, replies,
                 workerVars, formatVars>>

(* The handler returns and its response goes through finish_request.  A    *)
(* query may be shed with contentModified at Hard memory pressure.         *)
EndQuery(code) ==
  /\ worker # None
  /\ stage[worker] = "running"
  /\ code = "contentModified" => jobDoc[worker] = None
  /\ Finish(worker, code, basis[worker], "noEdits")
  /\ worker' = None
  /\ UNCHANGED <<wireVars, forward, lifeVars, basis, bailed, open, applied,
                 shuttingDown, sessionEnd, formatVars>>

(* shutdown trips every format in the map and is answered null.            *)
Shutdown ==
  /\ Receive({"shutdown"})
  /\ shuttingDown' = TRUE
  /\ tripped' = tripped \cup {r \in Requests :
                               \E d \in Docs : formatMap[d] = r}
  /\ Send(Head(forward).id, "null", applied, "noEdits")
  /\ UNCHANGED <<wireVars, inFlight, cancelled, stale, basis, bailed, worker,
                 open, applied, sessionEnd, formatVars>>

(* Mutant: the refusal forgets to deregister.                              *)
RefuseRegistered ==
  /\ Receive({"query", "format"}) /\ shuttingDown
  /\ LET r == Head(forward).id IN
       /\ inFlight' = inFlight
       /\ Send(r, "invalidRequest", applied, "noEdits")
  /\ UNCHANGED <<wireVars, lifeVars, basis, bailed, workerVars, formatVars>>

(* A request read after shutdown is deregistered and refused.              *)
Refuse ==
  /\ Receive({"query", "format"}) /\ shuttingDown
  /\ LET r == Head(forward).id IN
       /\ inFlight' = inFlight \ {r}
       /\ Send(r, "invalidRequest", applied, "noEdits")
  /\ UNCHANGED <<wireVars, lifeVars, basis, bailed, workerVars, formatVars>>

(* dispatch_notification's $/cancelRequest arm: idempotent.                *)
DispatchCancel ==
  /\ Receive({"cancel"})
  /\ CancelInFlight(Head(forward).id)
  /\ UNCHANGED <<wireVars, inFlight, requestVars, workerVars, formatVars>>

(* Mutant: the VFS is keyed by the wrong field of the message.             *)
DispatchMutationById ==
  /\ Receive(Mutations)
  /\ LET m == Head(forward) IN
       /\ open' = open \cup {m.id}
       /\ applied' = m.n
  /\ UNCHANGED <<wireVars, inFlight, lifeVars, requestVars, worker, shuttingDown,
                 sessionEnd, formatVars>>

(* dispatch_notification's didOpen, didChange and didClose arms.           *)
DispatchMutation ==
  /\ Receive(Mutations)
  /\ LET m == Head(forward) IN
       /\ open' = IF m.kind = "didOpen" THEN open \cup {m.doc}
                  ELSE IF m.kind = "didClose" THEN open \ {m.doc}
                  ELSE open
       /\ applied' = m.n
  /\ UNCHANGED <<wireVars, inFlight, lifeVars, requestVars, worker, shuttingDown,
                 sessionEnd, formatVars>>

DispatchExit ==
  /\ Receive({"exit"})
  /\ sessionEnd' = IF shuttingDown THEN "cleanExit"
                   ELSE "exitWithoutShutdown"
  /\ UNCHANGED <<wireVars, inFlight, lifeVars, requestVars, worker, open,
                 applied, shuttingDown, formatVars>>

(* The channel is empty and its sender is gone.                            *)
TransportClosed ==
  /\ Idle
  /\ ~routerUp /\ forward = <<>>
  /\ sessionEnd' = "transportClosed"
  /\ UNCHANGED <<wireVars, forward, inFlight, lifeVars, requestVars, worker,
                 open, applied, shuttingDown, formatVars>>

(* Mutant: the map entry is removed whoever owns it.                       *)
ApplyFormatDoneUnowned ==
  /\ Idle
  /\ done # <<>>
  /\ done' = Tail(done)
  /\ LET r == Head(done).id IN
       /\ formatMap' = [formatMap EXCEPT ![jobDoc[r]] = None]
       /\ warned' = warned \cup ({Head(done).result} \cap Failures)
       /\ Finish(r, "ok", basis[r], Head(done).result)
  /\ UNCHANGED <<wireVars, forward, lifeVars, basis, bailed, workerVars, jobDoc>>

(* The select! arm that applies a FormatDone: the map entry goes only when *)
(* it is still this request's, a failure class is warned about once, and   *)
(* the response goes through finish_request.                               *)
ApplyFormatDone ==
  /\ Idle
  /\ done # <<>>
  /\ done' = Tail(done)
  /\ LET r == Head(done).id
         d == jobDoc[r] IN
       /\ formatMap' = IF formatMap[d] = r
                       THEN [formatMap EXCEPT ![d] = None] ELSE formatMap
       /\ warned' = warned \cup ({Head(done).result} \cap Failures)
       /\ Finish(r, "ok", basis[r], Head(done).result)
  /\ UNCHANGED <<wireVars, forward, lifeVars, basis, bailed, workerVars, jobDoc>>

-----------------------------------------------------------------------------
(* A format thread.  "formatting": the child runs and the thread waits for *)
(* its output in slices, polling the token before each.  "reaping": the    *)
(* output is in hand and the thread waits, with no deadline and no poll,   *)
(* for the child to exit.                                                  *)

Report(r, result) ==
  /\ stage' = [stage EXCEPT ![r] = "done"]
  /\ done' = Append(done, [id |-> r, result |-> result])
  /\ UNCHANGED <<wireVars, forward, inFlight, lifeVars, basis, bailed, replies,
                 workerVars, jobDoc, formatMap, warned>>

(* The token is tripped: kill the child, report no edits.                  *)
PollCancel(r) ==
  /\ stage[r] = "formatting"
  /\ r \in tripped
  /\ Report(r, "noEdits")

(* The child cannot be spawned, its pipe fails, or the deadline passes.    *)
FormatFails(r, failure) ==
  /\ stage[r] = "formatting"
  /\ Report(r, failure)

(* Mutant: a panicking thread just ends.                                   *)
FormatPanicsSilently(r) ==
  /\ LiveFormat(r)
  /\ stage' = [stage EXCEPT ![r] = "answered"]
  /\ UNCHANGED <<wireVars, forward, inFlight, lifeVars, basis, bailed, replies,
                 workerVars, formatVars>>

(* A panicking thread reports through FormatResponder's Drop.              *)
FormatPanics(r) == LiveFormat(r) /\ Report(r, "noEdits")

Output(r) ==
  /\ stage[r] = "formatting"
  /\ stage' = [stage EXCEPT ![r] = "reaping"]
  /\ UNCHANGED <<wireVars, forward, inFlight, lifeVars, basis, bailed, replies,
                 workerVars, formatVars>>

(* The child exits: the status and the bytes decide the result.            *)
Reap(r, result) ==
  /\ stage[r] = "reaping"
  /\ Report(r, result)

-----------------------------------------------------------------------------
Route ==
  \/ \E r \in Requests : RouteCancel(r)
  \/ \E r \in Requests : RouteRequest(r, "query", None)
  \/ \E r \in Requests : RouteRequest(r, "shutdown", None)
  \/ \E r \in Requests, d \in Docs : RouteRequest(r, "format", d)
  \/ \E kind \in Mutations, d \in Docs : RouteMutation(kind, d)
  \/ RouteExit
  \/ RouterDisconnect

Dispatch ==
  \/ FindInterrupted
  \/ BeginQuery
  \/ \E spawned \in BOOLEAN : BeginFormat(spawned)
  \/ Shutdown
  \/ Refuse
  \/ DispatchCancel
  \/ DispatchMutation
  \/ DispatchExit
  \/ TransportClosed

RunHandler ==
  \/ ShortCircuit
  \/ Checkpoint
  \/ \E code \in {"ok", "failed", "contentModified"} : EndQuery(code)

AwaitOutput(r) ==
  \/ PollCancel(r)
  \/ \E failure \in Failures : FormatFails(r, failure)
  \/ Output(r)

ChildExits(r) == \E result \in Results : Reap(r, result)

Next ==
  \/ Route
  \/ RouterForward
  \/ Dispatch
  \/ RunHandler
  \/ ApplyFormatDone
  \/ \E r \in Requests : AwaitOutput(r) \/ FormatPanics(r) \/ ChildExits(r)

Spec == Init /\ [][Next]_vars

(* The threads gdls runs: the router's send never blocks, a handler        *)
(* returns, the wait for output has a deadline, and select! picks at       *)
(* random among its ready arms, so that no arm is starved.  A child        *)
(* process that has closed its stdout is under no obligation to exit.      *)
ThreadFairness ==
  /\ WF_vars(RouterForward)
  /\ WF_vars(Dispatch)
  /\ WF_vars(RunHandler)
  /\ SF_vars(ApplyFormatDone)
  /\ \A r \in Requests : WF_vars(AwaitOutput(r))

ChildFairness == \A r \in Requests : WF_vars(ChildExits(r))

ThreadFairSpec == Spec /\ ThreadFairness
FairSpec == ThreadFairSpec /\ ChildFairness

-----------------------------------------------------------------------------
TypeOK ==
  /\ routerUp \in BOOLEAN /\ routing \in Message \cup {None} /\ swept \in Nat
  /\ forward \in Seq(Message)
  /\ inFlight \subseteq Requests
  /\ cancelled \subseteq Requests /\ stale \subseteq Requests
  /\ tripped \subseteq Requests
  /\ stage \in [Requests -> Stages]
  /\ basis \in [Requests -> Nat]
  /\ bailed \subseteq Requests
  /\ replies \in [Requests -> Seq(Reply)]
  /\ worker \in Requests \cup {None}
  /\ open \subseteq Docs
  /\ applied \in Nat
  /\ shuttingDown \in BOOLEAN
  /\ sessionEnd \in SessionEnds \cup {None}
  /\ jobDoc \in [Requests -> Docs \cup {None}]
  /\ formatMap \in [Docs -> Requests \cup {None}]
  /\ done \in Seq([id : Requests, result : Results])
  /\ warned \subseteq Failures

AnswersTo(r) == {replies[r][i] : i \in DOMAIN replies[r]}

(* No result computed from text the client has since changed: an answer    *)
(* that is not an error was computed from the last mutation the router had *)
(* read when the answer was chosen, on the worker or on a format thread.   *)
CurrentResults ==
  \A r \in Requests : \A a \in AnswersTo(r) : a.code = "ok" => a.text = a.swept

(* A handler whose analysis bailed at a checkpoint never answers with the  *)
(* partial result: the interrupt that tripped the token is always found by *)
(* finish_request.                                                         *)
NoPartialAnswer ==
  \A r \in Requests : \A a \in AnswersTo(r) : a.code = "ok" => ~a.partial

(* The registry holds exactly the requests that are still owed an answer:  *)
(* no lifecycle leaks, and none is gone before its answer is chosen.       *)
RegistryExact ==
  \A r \in Requests :
    /\ r \in inFlight => stage[r] \notin {"unsent", "answered"}
    /\ stage[r] \notin {"unsent", "queued", "answered"} => r \in inFlight
    /\ Len(replies[r]) = IF stage[r] = "answered" THEN 1 ELSE 0

(* At most one format per document runs with its token untripped, and the  *)
(* supersession map can still reach it.                                    *)
OneLiveFormat ==
  \A r \in Requests :
    LiveFormat(r) /\ r \notin tripped => formatMap[jobDoc[r]] = r

(* After shutdown every format still running has been told to stop.        *)
ShutdownTripsFormats ==
  shuttingDown => \A r \in Requests : LiveFormat(r) => r \in tripped

(* The client sees the contract of RequestContract: whatever the threads,  *)
(* the queue and the supersession map do, each answer is chosen atomically *)
(* against the text and the retractions the client had sent.               *)
Contract == INSTANCE RequestContract WITH
  version   <- swept,
  asked     <- {r \in Requests : stage[r] # "unsent"},
  retracted <- cancelled,
  answer    <- [r \in Requests |->
                  IF replies[r] = <<>> THEN None
                  ELSE [code |-> replies[r][Len(replies[r])].code,
                        text |-> replies[r][Len(replies[r])].text]],
  closed    <- sessionEnd # None
ImplementsContract == Contract!Spec

(* Every request read off the wire is answered, or the session ends.       *)
EveryRequestAnswered ==
  \A r \in Requests :
    stage[r] # "unsent" ~> replies[r] # <<>> \/ sessionEnd # None

(* formatter.rs: "The child is killed on timeout OR cancel."               *)
TrippedFormatEnds ==
  \A r \in Requests :
    LiveFormat(r) /\ r \in tripped ~> ~LiveFormat(r) \/ sessionEnd # None

(* router.rs: "When both flags are set, **cancelled wins**": no retracted   *)
(* request is answered as merely stale.                                    *)
CancelledWins ==
  \A r \in cancelled : \A a \in AnswersTo(r) : a.code # "contentModified"
=============================================================================
