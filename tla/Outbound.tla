------------------------------ MODULE Outbound ------------------------------
(***************************************************************************)
(* What the server asks of the client: the configuration it pulls after a  *)
(* workspace/didChangeConfiguration (crates/gd_server/src/server.rs) and   *)
(* the progress tokens it creates and reports on (progress.rs), with the   *)
(* router thread between the client's wire and the event loop (router.rs). *)
(*                                                                         *)
(* The client looks its settings up when it reads a pull and answers when  *)
(* it can, in the order it was asked.  A token and a pull share their ids. *)
(***************************************************************************)
EXTENDS Nothing, Naturals, Sequences

CONSTANTS
  Groups,     \* the reloadable groups: strict, analyzer, memory, inlayHint
  Values,     \* what a group may be set to
  Bad,        \* a section that does not parse
  MaxChanges, \* bound on the changes of the client's settings
  MaxIds,     \* bound on the outgoing ids and the client's own tokens
  MaxWire     \* bound on a wire the client, or a report, may still add to

Section == [Groups -> Values \cup {None}]
Ids == 1..MaxIds

Reporters == [id : Ids, asked : BOOLEAN, begun : BOOLEAN, ended : BOOLEAN]

ASSUME OutboundAssumption ==
  /\ MaxChanges \in Nat /\ MaxIds \in Nat /\ MaxWire \in Nat
  /\ None \notin Values /\ Bad \notin Section /\ None \notin Section
  /\ None \notin Reporters

VARIABLES
  caps,      \* what the client can do: "pull" settings, "show" progress
  settings,  \* the client's gdls section: a Section, Bad, or None without one
  changes,   \* how often it changed
  options,   \* ServerState::options, the reloadable groups
  toClient, toServer,  \* the wires
  answering, \* the client's answers to pulls, looked up and not sent yet
  forward,   \* the router's channel to the event loop
  outbound,  \* the pulls not answered: ServerState::outbound
  refused,   \* the client answered its last pull with an error
  creates,   \* SessionShared::outgoing_creates
  poisoned,  \* the tokens whose creation the client refused
  arc,       \* the reporter of the function the worker is in, or None
  ids,       \* the ids used
  spinner    \* what the client has heard of each token

configVars   == <<settings, changes, options, answering, outbound, refused>>
progressVars == <<creates, poisoned, arc, spinner>>
outboundVars == <<caps, configVars, toClient, toServer, forward, progressVars, ids>>

Message(kind, id, body) == [kind |-> kind, id |-> id, body |-> body]

OutboundInit ==
  /\ caps \in SUBSET {"pull", "show"}
  /\ settings = None /\ changes = 0 /\ options \in [Groups -> Values]
  /\ toClient = <<>> /\ toServer = <<>> /\ forward = <<>> /\ answering = <<>>
  /\ outbound = {} /\ refused = FALSE
  /\ creates = {} /\ poisoned = {} /\ arc = None /\ ids = 0
  /\ spinner = [id \in Ids |-> "unknown"]

(***************************************************************************)
(* The client.                                                             *)
(***************************************************************************)
ChangeSettings ==
  /\ changes < MaxChanges /\ Len(toServer) < MaxWire
  /\ changes' = changes + 1
  /\ settings' \in (Section \cup {Bad, None}) \ {settings}
  /\ toServer' = Append(toServer, Message("changed", 0, settings'))
  /\ UNCHANGED <<caps, options, answering, outbound, refused, toClient, forward, progressVars, ids>>

\* references and workspace/symbol, with a token of the client's.
RequestWithToken ==
  /\ ids < MaxIds /\ Len(toServer) < MaxWire
  /\ ids' = ids + 1
  /\ spinner' = [spinner EXCEPT ![ids'] = "offered"]
  /\ toServer' = Append(toServer, Message("request", ids', None))
  /\ UNCHANGED <<caps, configVars, toClient, forward, creates, poisoned, arc>>

\* What a progress message makes of the client's spinner; a client ignores
\* what it refused, and anything else out of its order breaks the protocol.
Turned(state, kind) ==
  CASE state = "refused" /\ kind # "reply"                -> "refused"
    [] state = "offered" /\ kind = "begin"                -> "spinning"
    [] state = "spinning" /\ kind = "report"              -> "spinning"
    [] state = "spinning" /\ kind = "end"                 -> "stopped"
    [] state \in {"offered", "stopped"} /\ kind = "reply" -> "over"
    [] OTHER                                              -> "broken"

ClientReads ==
  /\ toClient # <<>>
  /\ toClient' = Tail(toClient)
  /\ LET m == Head(toClient)
     IN  \/ /\ m.kind = "pull"
            /\ \/ answering' = Append(answering, Message("section", m.id, settings))
               \/ answering' = Append(answering, Message("error", m.id, None))
            /\ UNCHANGED <<spinner, toServer>>
         \/ /\ m.kind = "create"
            /\ \E ok \in BOOLEAN :
                 /\ spinner' = [spinner EXCEPT ![m.id] =
                                  IF @ # "unknown" THEN "broken"
                                  ELSE IF ok THEN "offered" ELSE "refused"]
                 /\ toServer' = Append(toServer, Message(IF ok THEN "created" ELSE "error", m.id, None))
            /\ UNCHANGED answering
         \/ /\ m.kind \notin {"pull", "create"}
            /\ spinner' = [spinner EXCEPT ![m.id] = Turned(@, m.kind)]
            /\ UNCHANGED <<answering, toServer>>
  /\ UNCHANGED <<caps, settings, changes, options, outbound, refused, forward, creates,
                 poisoned, arc, ids>>

ClientAnswers ==
  /\ answering # <<>>
  /\ answering' = Tail(answering) /\ toServer' = Append(toServer, Head(answering))
  /\ UNCHANGED <<caps, settings, changes, options, outbound, refused, toClient, forward,
                 progressVars, ids>>

(***************************************************************************)
(* The router: the answer to a creation ends here, while the worker runs.  *)
(***************************************************************************)
Route ==
  /\ toServer # <<>>
  /\ toServer' = Tail(toServer)
  /\ LET m == Head(toServer)
     IN  IF m.id \in creates /\ m.kind \in {"created", "error"}
           THEN /\ creates' = creates \ {m.id}
                /\ poisoned' = IF m.kind = "error" THEN poisoned \cup {m.id} ELSE poisoned
                /\ UNCHANGED forward
           ELSE forward' = Append(forward, m) /\ UNCHANGED <<creates, poisoned>>
  /\ UNCHANGED <<caps, configVars, toClient, arc, ids, spinner>>

(***************************************************************************)
(* Configuration.                                                          *)
(***************************************************************************)
\* apply_runtime_config: a section that does not parse, or is none, keeps the
\* options, and a group it leaves out keeps its own.
Apply(section) ==
  options' = IF section \in Section
               THEN [g \in Groups |-> IF section[g] = None THEN options[g] ELSE section[g]]
               ELSE options

Take(kind) ==
  /\ arc = None /\ forward # <<>> /\ Head(forward).kind = kind
  /\ forward' = Tail(forward)

\* Mutant: no second pull while one is not answered.
PullUnlessAsked ==
  /\ IF outbound = {}
       THEN /\ outbound' = {ids + 1} /\ ids' = ids + 1
            /\ toClient' = Append(toClient, Message("pull", ids + 1, None))
       ELSE UNCHANGED <<outbound, ids, toClient>>
  /\ UNCHANGED options

\* didChangeConfiguration: a client that can be asked is asked, each time.
Pull ==
  /\ outbound' = outbound \cup {ids + 1} /\ ids' = ids + 1
  /\ toClient' = Append(toClient, Message("pull", ids + 1, None))
  /\ UNCHANGED options
DidChangeConfiguration ==
  /\ Take("changed")
  /\ IF "pull" \in caps
       THEN ids < MaxIds /\ Pull
       ELSE Apply(Head(forward).body) /\ UNCHANGED <<outbound, ids, toClient>>
  /\ UNCHANGED <<caps, settings, changes, answering, refused, toServer, progressVars>>

\* handle_outbound_response; an answer nobody waits for is ignored.
Answer(section) ==
  LET m == Head(forward)
  IN  /\ outbound' = outbound \ {m.id}
      /\ IF m.id \in outbound /\ m.kind = "section" THEN Apply(section) ELSE UNCHANGED options
HandleOutboundResponse ==
  /\ Take("section") \/ Take("error")
  /\ Answer(Head(forward).body)
  /\ refused' = (Head(forward).kind = "error")
  /\ UNCHANGED <<caps, settings, changes, answering, toClient, toServer, progressVars, ids>>

(***************************************************************************)
(* Progress: one reporter, from the start of a function to its return.     *)
(***************************************************************************)
Reporter(id, asked) == [id |-> id, asked |-> asked, begun |-> FALSE, ended |-> FALSE]
Sends(kind) == toClient' = Append(toClient, Message(kind, arc.id, None))

\* server_initiated: a token of the server's own, if the client shows any.
Create ==
  /\ arc = None /\ "show" \in caps /\ ids < MaxIds
  /\ ids' = ids + 1 /\ creates' = creates \cup {ids'} /\ arc' = Reporter(ids', FALSE)
  /\ toClient' = Append(toClient, Message("create", ids', None))
  /\ UNCHANGED <<caps, configVars, toServer, forward, poisoned, spinner>>

\* for_client_token: no creation, the request is the client's consent.
StartRequest ==
  /\ Take("request")
  /\ arc' = Reporter(Head(forward).id, TRUE)
  /\ UNCHANGED <<caps, configVars, toClient, toServer, creates, poisoned, ids, spinner>>

Poisoned == arc.id \in poisoned

\* begin, which a request with nothing to scan does not come to.
Begin ==
  /\ arc # None /\ ~arc.begun /\ ~arc.ended /\ ~Poisoned
  /\ arc' = [arc EXCEPT !.begun = TRUE] /\ Sends("begin")
  /\ UNCHANGED <<caps, configVars, toServer, forward, creates, poisoned, ids, spinner>>

\* A report that is not throttled away; the time decides that.
Report ==
  /\ arc # None /\ arc.begun /\ ~arc.ended /\ ~Poisoned
  /\ Len(toClient) < MaxWire
  /\ Sends("report")
  /\ UNCHANGED <<caps, configVars, arc, toServer, forward, creates, poisoned, ids, spinner>>

\* Mutant: an arc may end twice.
ClosesAgain == arc.begun /\ ~Poisoned

\* end with a summary; the return that follows ends nothing twice.
Closes == arc.begun /\ ~arc.ended /\ ~Poisoned
End ==
  /\ arc # None /\ arc.begun /\ ~arc.ended
  /\ arc' = [arc EXCEPT !.ended = TRUE]
  /\ IF Closes THEN Sends("end") ELSE UNCHANGED toClient
  /\ UNCHANGED <<caps, configVars, toServer, forward, creates, poisoned, ids, spinner>>

\* The function returns, early or in a panic: the reporter is dropped, then the
\* request answered.
Return ==
  /\ arc # None
  /\ arc' = None
  /\ LET last  == IF Closes THEN <<Message("end", arc.id, None)>> ELSE <<>>
         reply == IF arc.asked THEN <<Message("reply", arc.id, None)>> ELSE <<>>
     IN  toClient' = toClient \o last \o reply
  /\ UNCHANGED <<caps, configVars, toServer, forward, creates, poisoned, ids, spinner>>

OutboundNext ==
  \/ ChangeSettings \/ RequestWithToken \/ ClientReads \/ ClientAnswers \/ Route
  \/ DidChangeConfiguration \/ HandleOutboundResponse
  \/ Create \/ StartRequest \/ Begin \/ Report \/ End \/ Return

OutboundSpec == OutboundInit /\ [][OutboundNext]_outboundVars

(***************************************************************************)
(* Properties.                                                             *)
(***************************************************************************)
Quiet == toClient = <<>> /\ answering = <<>> /\ toServer = <<>> /\ forward = <<>>

\* When every notification, pull and answer has been handled, the server runs
\* with the client's settings, however the changes fell between a pull and its
\* answer; a client that refuses the last pull keeps what it had.
ConfigSettles ==
  Quiet /\ changes > 0 /\ settings \in Section /\ ~refused =>
    /\ outbound = {}
    /\ \A g \in Groups : settings[g] # None => options[g] = settings[g]

\* "Early returns and panics must not orphan a begun token" (progress.rs): a
\* token's messages come as create, begin, reports, end, whenever the function
\* returns and whenever the client refuses; nothing follows the answer to the
\* request that brought the token, and no spinner turns once the function has
\* returned.
ArcsEnd ==
  /\ \A id \in Ids : spinner[id] # "broken"
  /\ arc = None /\ toClient = <<>> => \A id \in Ids : spinner[id] # "spinning"
=============================================================================
