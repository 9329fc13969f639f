----------------------------- MODULE Documents -----------------------------
(***************************************************************************)
(* The text of an open buffer, as the client has it and as the server      *)
(* rebuilds it from didOpen, didChange and didClose                        *)
(* (crates/gd_server/src/vfs.rs), the positions both speak of it in        *)
(* (position.rs), and the one edit a formatter run answers with            *)
(* (formatter.rs).                                                         *)
(*                                                                         *)
(* A text is a sequence of characters, an offset a number of characters:   *)
(* the code's byte offsets fall on character boundaries wherever a client  *)
(* keeps to the protocol.  The protocol's lines end with LF, CR LF or CR;  *)
(* the server's lines are those of the rope crate, which also breaks after *)
(* the characters of Odd (VT, FF, NEL and the Unicode separators).         *)
(***************************************************************************)
EXTENDS Nothing, Naturals, FiniteSets, FiniteSetsExt, SequencesExt

CONSTANTS
  Chars, LF, CR, \* the alphabet, and its line ends
  Odd,           \* characters the rope ends a line after and the protocol does not
  Width,         \* encoding -> character -> its length in units of the encoding
  MaxLen,        \* bound on the length of a text
  MaxWire        \* bound on the notifications the server has not handled

ASSUME DocumentsAssumption ==
  /\ {LF, CR} \cup Odd \subseteq Chars /\ {LF, CR} \cap Odd = {} /\ LF # CR
  /\ DOMAIN Width = {"utf-8", "utf-16", "utf-32"}
  /\ \A enc \in DOMAIN Width, c \in Chars : Width[enc][c] \in 1..4
  /\ MaxLen \in Nat /\ MaxWire \in Nat

VARIABLES
  enc,     \* the negotiated position encoding
  client,  \* the buffer's text, or None while it is closed
  server,  \* Vfs: the document's text, or None
  wire     \* the notifications sent and not handled yet

vars == <<enc, client, server, wire>>

Texts == BoundedSeq(Chars, MaxLen)

(***************************************************************************)
(* Lines and positions.  breaks is the set of further line ends: {} for    *)
(* the client, Odd for the rope.                                           *)
(***************************************************************************)
EndsLine(t, i, breaks) ==
  \/ t[i] = LF \/ t[i] \in breaks
  \/ t[i] = CR /\ ~(i < Len(t) /\ t[i + 1] = LF)

LineStarts(t, breaks) == {0} \cup {i \in 1..Len(t) : EndsLine(t, i, breaks)}
LineOf(t, i, breaks) == Cardinality({s \in LineStarts(t, breaks) : s <= i}) - 1
StartOf(t, n, breaks) == CHOOSE s \in LineStarts(t, breaks) : LineOf(t, s, breaks) = n
\* Where the line that starts at s ends, its terminator included.
EndOf(t, s, breaks) == Min({e \in LineStarts(t, breaks) : e > s} \cup {Len(t)})

\* A unit is a character and a place in it.
UnitsOf(t, i, j) == {u \in ((i + 1)..j) \X (1..4) : u[2] <= Width[enc][t[u[1]]]}
Units(t, i, j) == Cardinality(UnitsOf(t, i, j))

\* byte_to_position
ToPosition(t, i, breaks) ==
  LET n == LineOf(t, i, breaks)
  IN  [line |-> n, character |-> Units(t, StartOf(t, n, breaks), i)]

\* Mutant: the character counts code points, whatever was negotiated.
ToOffsetByCharacter(t, pos) ==
  LET last == Cardinality(LineStarts(t, Odd)) - 1
      s    == StartOf(t, Min({pos.line, last}), Odd)
  IN  Max({i \in s..EndOf(t, s, Odd) : i - s <= pos.character})

\* position_to_byte: the line is clamped to the last one, the character to the
\* line with its terminator, and a position inside a character to its start.
ToOffset(t, pos) ==
  LET last == Cardinality(LineStarts(t, Odd)) - 1
      s    == StartOf(t, Min({pos.line, last}), Odd)
  IN  Max({i \in s..EndOf(t, s, Odd) : Units(t, s, i) <= pos.character})

\* A client resolves a position by the protocol: a character past the line's
\* end is the end of the line's text, before its terminator.
ClientOffset(t, pos) ==
  IF pos.line >= Cardinality(LineStarts(t, {})) THEN Len(t)
  ELSE LET s    == StartOf(t, pos.line, {})
           text == {i \in s..EndOf(t, s, {}) : \A k \in (s + 1)..i : t[k] \notin {LF, CR}}
       IN  Max({i \in text : Units(t, s, i) <= pos.character})

Splice(t, i, j, new) == SubSeq(t, 1, i) \o new \o SubSeq(t, j + 1, Len(t))

(***************************************************************************)
(* Synchronisation.                                                        *)
(***************************************************************************)
\* negotiate: UTF-8 before UTF-16 before UTF-32, and UTF-16 for no offer.
Negotiate(offered) ==
  CASE "utf-8" \in offered -> "utf-8"
    [] "utf-8" \notin offered /\ offered = {"utf-32"} -> "utf-32"
    [] OTHER -> "utf-16"

Init ==
  /\ \E offered \in SUBSET DOMAIN Width : enc = Negotiate(offered)
  /\ client = None /\ server = None /\ wire = <<>>

Send(notification) == Len(wire) < MaxWire /\ wire' = Append(wire, notification)

DidOpen ==
  /\ client = None
  /\ client' \in Texts /\ Send([kind |-> "open", text |-> client'])
  /\ UNCHANGED <<enc, server>>

DidClose ==
  /\ client # None
  /\ client' = None /\ Send([kind |-> "close"])
  /\ UNCHANGED <<enc, server>>

\* A client names the characters it replaces in its own lines, and never
\* points between the CR and the LF of one line end.
Boundaries(t) == {i \in 0..Len(t) : ~(i \in 1..(Len(t) - 1) /\ t[i] = CR /\ t[i + 1] = LF)}

\* One change of a didChange; the changes of one notification refer to each
\* other's result, so the way they are grouped makes no difference.
DidChange ==
  /\ client # None
  /\ \E i, j \in Boundaries(client), new \in BoundedSeq(Chars, 1) :
       /\ i <= j /\ Len(client) - (j - i) + Len(new) <= MaxLen
       /\ client' = Splice(client, i, j, new)
       /\ Send([kind |-> "edit", text |-> new,
                start |-> ToPosition(client, i, {}), end |-> ToPosition(client, j, {})])
  /\ UNCHANGED <<enc, server>>

\* A change without a range is the whole text anew.
DidReplace ==
  /\ client # None
  /\ client' \in Texts /\ Send([kind |-> "full", text |-> client'])
  /\ UNCHANGED <<enc, server>>

\* apply_changes on an edit: an end before the start is moved up to it.
Applied(t, change) ==
  LET i == ToOffset(t, change.start)
  IN  Splice(t, i, Max({i, ToOffset(t, change.end)}), change.text)

\* What a notification makes of the document, or of its absence.
Handled(text, n) ==
  CASE n.kind = "open"  -> n.text
    [] n.kind = "close" -> None
    [] n.kind = "full"  -> IF text = None THEN None ELSE n.text
    [] n.kind = "edit"  -> IF text = None THEN None ELSE Applied(text, n)

Handle ==
  /\ wire # <<>>
  /\ wire' = Tail(wire)
  /\ server' = Handled(server, Head(wire))
  /\ UNCHANGED <<enc, client>>

Next == DidOpen \/ DidClose \/ DidChange \/ DidReplace \/ Handle

Spec == Init /\ [][Next]_vars

(***************************************************************************)
(* The formatter's edit.                                                   *)
(***************************************************************************)
\* split_inclusive_lines: the offsets between the pieces, which end at LF only.
Cuts(t) == {0, Len(t)} \cup {i \in 1..Len(t) : t[i] = LF}

\* The pieces two texts begin with are the same up to a cut of both before which
\* the texts are.
CommonPrefix(t, f) ==
  Max({c \in Cuts(t) \cap Cuts(f) : SubSeq(t, 1, c) = SubSeq(f, 1, c)})

\* The last d characters of both are the same pieces.
SameTail(t, f, d) ==
  /\ Len(t) - d \in Cuts(t) /\ Len(f) - d \in Cuts(f)
  /\ SubSeq(t, Len(t) - d + 1, Len(t)) = SubSeq(f, Len(f) - d + 1, Len(f))

\* Mutant: the suffix may run into the prefix.
CommonSuffixWhole(t, f) ==
  Max({d \in 0..Min({Len(t), Len(f)}) : SameTail(t, f, d)})

\* The common suffix, in what the prefix leaves of the shorter one.
CommonSuffix(t, f) ==
  Max({d \in 0..(Min({Len(t), Len(f)}) - CommonPrefix(t, f)) : SameTail(t, f, d)})

\* minimal_edits of a text into a different one.
MinimalEdit(t, formatted) ==
  LET prefix == CommonPrefix(t, formatted)
      suffix == CommonSuffix(t, formatted)
  IN  [start |-> ToPosition(t, prefix, Odd),
       end   |-> ToPosition(t, Len(t) - suffix, Odd),
       text  |-> SubSeq(formatted, prefix + 1, Len(formatted) - suffix)]

(***************************************************************************)
(* Properties.                                                             *)
(***************************************************************************)
\* "Incremental sync applied exactly" (docs/09-lsp-conventions.md, W13): when
\* every notification has been handled the server has the client's text, in
\* every encoding, whatever the edits were.
BuffersInStep == wire = <<>> => server = client

\* "Byte offsets internally, exact negotiated UTF-8/16/32 at the boundary"
\* (docs/09-lsp-conventions.md, W6): a position the server sends is the same
\* place for the client, and comes back as the offset it was made from.
PositionsAgree ==
  \A i \in Boundaries(server) :
    /\ ToOffset(server, ToPosition(server, i, Odd)) = i
    /\ ClientOffset(server, ToPosition(server, i, Odd)) = i

\* What a client that still has the text makes of a formatter's edit is what
\* the formatter printed.
FormatLands ==
  \A formatted \in Texts \ {server} :
    LET e == MinimalEdit(server, formatted)
    IN  Splice(server, ClientOffset(server, e.start), ClientOffset(server, e.end), e.text)
          = formatted

\* The server's edits land where it meant them, in every encoding: positions
\* agree with the client's, and the common head and tail that are cut off a
\* formatter's output, at line feeds, are lines for the client as well, whose
\* lines end elsewhere too.
EditsLand == wire = <<>> /\ server # None => PositionsAgree /\ FormatLands
=============================================================================
