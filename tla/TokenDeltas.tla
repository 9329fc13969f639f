---------------------------- MODULE TokenDeltas ----------------------------
(***************************************************************************)
(* Semantic tokens of one document (crates/gd_server/src/handlers.rs and   *)
(* semantic_tokens.rs): a full answer carries an array and an id, a delta  *)
(* answer the edits that turn the array of an earlier id into the new one. *)
(* The server keeps one array, the last it made, whether or not the answer *)
(* reached the client: a cancellation replaces an answer after the handler *)
(* has run, and a client may have several requests out.                    *)
(*                                                                         *)
(* Tokens are relative to each other, so one array may hold a token many   *)
(* times.  Offsets count tokens here and five integers a token in the code.*)
(***************************************************************************)
EXTENDS Nothing, Naturals, FiniteSets, FiniteSetsExt, SequencesExt

CONSTANTS
  Raws,       \* what the classifier may say: sequences of [line, start, length, type, tall]
  Advertised, \* the token types the client can render
  MaxAnswers, \* bound on the ids
  MaxPending  \* bound on each wire

\* A RawToken, its span mapped to a line and offsets in it.
RawToken == [line : Nat, start : Nat, length : Nat, type : STRING, tall : BOOLEAN]
ASSUME TokensAssumption == Raws \subseteq Seq(RawToken)

VARIABLES
  showing,   \* the client has the document open
  record,    \* the client's [id, data], or None
  asked,     \* to the server: opens, closes and requests
  answers,   \* to the client
  known,     \* the server has the document open
  cache,     \* semantic_tokens_cache: [id, data], or None
  made       \* id -> the classification it stands for

tokenVars == <<showing, record, asked, answers, known, cache, made>>

(***************************************************************************)
(* encode.                                                                 *)
(***************************************************************************)
Shown(t) == t.type \in Advertised /\ ~t.tall /\ t.length > 0
Before(p, q) == p[1] < q[1] \/ (p[1] = q[1] /\ p[2] < q[2])
Start(t) == <<t.line, t.start>>

\* The tokens to send: in the order of their starts, the first of those that
\* start together.
Ordered(raw) ==
  LET kept   == {i \in DOMAIN raw : Shown(raw[i])}
      starts == {Start(raw[i]) : i \in kept}
      at(k)  == CHOOSE s \in starts : Cardinality({r \in starts : Before(r, s)}) = k - 1
  IN  [k \in 1..Cardinality(starts) |-> raw[Min({i \in kept : Start(raw[i]) = at(k)})]]

\* Mutant: the starts stay relative across lines.
EncodeAlong(raw) ==
  LET sorted == Ordered(raw)
      line(k)  == IF k = 0 THEN 0 ELSE sorted[k].line
      start(k) == IF k = 0 THEN 0 ELSE sorted[k].start
  IN  [k \in DOMAIN sorted |->
         [down |-> line(k) - line(k - 1), along |-> start(k) - start(k - 1),
          length |-> sorted[k].length, type |-> sorted[k].type]]

Encode(raw) ==
  LET sorted == Ordered(raw)
      line(k)  == IF k = 0 THEN 0 ELSE sorted[k].line
      start(k) == IF k = 0 THEN 0 ELSE sorted[k].start
      down(k)  == line(k) - line(k - 1)
  IN  [k \in DOMAIN sorted |->
         [down |-> down(k), along |-> IF down(k) = 0 THEN start(k) - start(k - 1) ELSE start(k),
          length |-> sorted[k].length, type |-> sorted[k].type]]

\* The sum of f over the places of S, counted.
Total(f, S) == Cardinality(UNION {{k} \X (1..f[k]) : k \in S})

\* How a client reads the array: line by line, and along a line from the last
\* token that began one.
Decode(data) ==
  LET down   == [k \in DOMAIN data |-> data[k].down]
      along  == [k \in DOMAIN data |-> data[k].along]
      row(n) == Max({k \in 1..n : down[k] > 0} \cup {1})
  IN  {[line |-> Total(down, 1..n), start |-> Total(along, row(n)..n),
        length |-> data[n].length, type |-> data[n].type] : n \in DOMAIN data}

(***************************************************************************)
(* diff, and what a client does with the edit.                             *)
(***************************************************************************)
Shorter(old, new) == Min({Len(old), Len(new)})
Prefix(old, new) == Max({k \in 0..Shorter(old, new) : SubSeq(old, 1, k) = SubSeq(new, 1, k)})
\* The common tail, in what the head leaves of the shorter array.
Suffix(old, new) ==
  Max({k \in 0..(Shorter(old, new) - Prefix(old, new)) :
         SubSeq(old, Len(old) - k + 1, Len(old)) = SubSeq(new, Len(new) - k + 1, Len(new))})
Diff(old, new) ==
  LET head == Prefix(old, new)
      tail == Suffix(old, new)
  IN  [start |-> head, deleted |-> Len(old) - head - tail,
       data  |-> SubSeq(new, head + 1, Len(new) - tail)]

\* A client's splice stops at the end of its array.
Patched(base, edit) ==
  SubSeq(base, 1, Min({edit.start, Len(base)})) \o edit.data
    \o SubSeq(base, edit.start + edit.deleted + 1, Len(base))

(***************************************************************************)
(* The client.                                                             *)
(***************************************************************************)
TokensInit ==
  /\ showing = FALSE /\ record = None /\ asked = <<>> /\ answers = <<>>
  /\ known = FALSE /\ cache = None /\ made = <<>>

Message(kind, previous) == [kind |-> kind, previous |-> previous, wanted |-> TRUE]
Asks(message) == Len(asked) < MaxPending /\ asked' = Append(asked, message)

\* The answers still to come are of no use to a client that closes the file.
Unwanted(wire) == [k \in DOMAIN wire |-> [wire[k] EXCEPT !.wanted = FALSE]]

Open ==
  /\ ~showing /\ showing' = TRUE
  /\ Asks(Message("open", None))
  /\ UNCHANGED <<record, answers, known, cache, made>>

Close ==
  /\ showing /\ showing' = FALSE /\ record' = None
  /\ Len(asked) < MaxPending /\ asked' = Append(Unwanted(asked), Message("close", None))
  /\ answers' = Unwanted(answers)
  /\ UNCHANGED <<known, cache, made>>

\* full, or full/delta against the array the client has.
Request ==
  /\ showing
  /\ \/ Asks(Message("full", None))
     \/ record # None /\ Asks(Message("delta", record))
  /\ UNCHANGED <<showing, record, answers, known, cache, made>>

\* An answer the client no longer wants is dropped; an error changes nothing.
Receive ==
  /\ answers # <<>> /\ answers' = Tail(answers)
  /\ LET a == Head(answers)
     IN  record' =
           CASE ~a.wanted \/ a.kind = "none" -> record
             [] a.wanted /\ a.kind = "full"  -> [id |-> a.id, data |-> a.data]
             [] a.wanted /\ a.kind = "delta" -> [id |-> a.id, data |-> Patched(a.base, a.edit)]
  /\ UNCHANGED <<showing, asked, known, cache, made>>

(***************************************************************************)
(* The server.                                                             *)
(***************************************************************************)
OpenOrClose ==
  /\ asked # <<>> /\ Head(asked).kind \in {"open", "close"}
  /\ asked' = Tail(asked) /\ known' = (Head(asked).kind = "open")
  /\ UNCHANGED <<showing, record, answers, cache, made>>

Handling ==
  /\ asked # <<>> /\ Head(asked).kind \in {"full", "delta"}
  /\ Len(answers) < MaxPending /\ asked' = Tail(asked)

Nothing == [kind |-> "none", wanted |-> Head(asked).wanted]

\* A document that is not open, memory pressure, a request cancelled before
\* its turn: no tokens are made.
Refuse ==
  /\ Handling
  /\ answers' = Append(answers, Nothing)
  /\ UNCHANGED <<showing, record, known, cache, made>>

\* Mutant: a delta against whatever was made last.
MatchesAny(previous) == cache # None /\ previous # None

\* The previous id is that of the array the server kept.
Matches(previous) == cache # None /\ previous # None /\ cache.id = previous.id

\* semantic_tokens_full and semantic_tokens_full_delta.  What the document
\* classifies to may have changed in any way; the answer may yet be replaced
\* by an error.
Answer ==
  /\ Handling /\ known /\ Len(made) < MaxAnswers
  /\ \E raw \in Raws, arrives \in BOOLEAN :
       LET data == Encode(raw)
           id   == Len(made) + 1
           base == Head(asked).previous
       IN  /\ made' = Append(made, raw) /\ cache' = [id |-> id, data |-> data]
           /\ answers' = Append(answers,
                CASE ~arrives -> Nothing
                  [] arrives /\ Matches(base) ->
                       [kind |-> "delta", wanted |-> Head(asked).wanted, id |-> id,
                        base |-> base.data, edit |-> Diff(cache.data, data)]
                  [] arrives /\ ~Matches(base) ->
                       [kind |-> "full", wanted |-> Head(asked).wanted, id |-> id, data |-> data])
  /\ UNCHANGED <<showing, record, known>>

TokensNext == Open \/ Close \/ Request \/ Receive \/ OpenOrClose \/ Refuse \/ Answer

TokensSpec == TokensInit /\ [][TokensNext]_tokenVars

(***************************************************************************)
(* Properties.                                                             *)
(***************************************************************************)
\* No delta meets an array it was not made for: the client holds the server's
\* array for the id it has, however full answers, deltas, lost answers, several
\* requests at once and reopened files follow each other.
ArraysAgree == record # None => record.data = Encode(made[record.id])

\* What the client paints is what the server classified for the id the client
\* holds: the array of relative tokens means the tokens it was made from.
TokensAgree ==
  record # None =>
    Decode(record.data) =
      {[line |-> t.line, start |-> t.start, length |-> t.length, type |-> t.type] :
         t \in ToSet(Ordered(made[record.id]))}
=============================================================================
