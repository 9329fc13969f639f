-------------------------- MODULE RequestContract --------------------------
(***************************************************************************)
(* What a client of gdls may rely on for each request it sends, with no    *)
(* threads, queues or locks: an answer is chosen in one step, and a result *)
(* is the result for the text the client had sent by then.                 *)
(***************************************************************************)
EXTENDS Naturals

CONSTANTS Requests, None

VARIABLES
  version,    \* content mutations the client has sent
  asked,      \* requests the client has sent
  retracted,  \* requests it has retracted before they were answered
  answer,     \* the answer to each request, or None
  closed      \* the session has ended

vars == <<version, asked, retracted, answer, closed>>

Init ==
  /\ version = 0 /\ asked = {} /\ retracted = {}
  /\ answer = [r \in Requests |-> None]
  /\ closed = FALSE

Ask(r) ==
  /\ r \notin asked
  /\ asked' = asked \cup {r}
  /\ UNCHANGED <<version, retracted, answer, closed>>

Mutate == version' = version + 1 /\ UNCHANGED <<asked, retracted, answer, closed>>

Retract(r) ==
  /\ r \in asked /\ answer[r] = None
  /\ retracted' = retracted \cup {r}
  /\ UNCHANGED <<version, asked, answer, closed>>

(* A result only for the current text; a retracted request is answered     *)
(* with an interrupt, and "cancelled" answers no other.                    *)
Answer(r, code, text) ==
  /\ ~closed
  /\ r \in asked /\ answer[r] = None
  /\ code = "ok" => text = version
  /\ r \in retracted => code \in {"cancelled", "contentModified"}
  /\ code = "cancelled" => r \in retracted
  /\ answer' = [answer EXCEPT ![r] = [code |-> code, text |-> text]]
  /\ UNCHANGED <<version, asked, retracted, closed>>

(* After shutdown a request is refused, retracted or not.                  *)
Refuse(r, text) ==
  /\ ~closed
  /\ r \in asked /\ answer[r] = None
  /\ answer' = [answer EXCEPT ![r] = [code |-> "invalidRequest",
                                      text |-> text]]
  /\ UNCHANGED <<version, asked, retracted, closed>>

Close == closed' = TRUE /\ UNCHANGED <<version, asked, retracted, answer>>

Next ==
  \/ \E r \in Requests : Ask(r) \/ Retract(r)
  \/ \E r \in Requests, text \in 0 .. version : Refuse(r, text)
  \/ \E r \in Requests, text \in 0 .. version,
        code \in {"ok", "cancelled", "contentModified", "failed", "null"} :
       Answer(r, code, text)
  \/ Mutate
  \/ Close

Spec == Init /\ [][Next]_vars
=============================================================================
