---------------------------- MODULE StaticFiles ----------------------------
(***************************************************************************)
(* src/src/common/static_files.hpp: the byte ranges a request may ask for, *)
(* and send_file, which announces a length and then reads a file that      *)
(* others may meanwhile cut short, rewrite or extend.                      *)
(***************************************************************************)
EXTENDS Integers

CONSTANTS
  InlineBodyMax,  \* kInlineBodyMax
  BufSize,        \* the size of buf
  Absent,         \* no digits on that side of the dash
  Bad             \* stoull throws: no number, or none of 64 bits

-----------------------------------------------------------------------------
(* parse_byte_range.  A header is what is on both sides of its dash; one     *)
(* without a dash, with a comma or of another unit is Bad on both.  A number *)
(* is what stoull reads: it also takes a sign, a negative number being a     *)
(* large one, and stops at what is no digit, "5x" being 5, which PROTOCOL.md *)
(* calls malformed.                                                          *)

Numbers == {n \in Nat : n < 2^64}
Ranges == [first : Numbers \cup {Absent, Bad}, last : Numbers \cup {Absent, Bad}]

\* What is answered with 416 without a look at the numbers.
Refused(r, n) ==
  \/ n = 0
  \/ r.first = Bad \/ r.last = Bad
  \/ r.first = Absent /\ r.last \in {Absent, 0}

Start(r, n) ==
  IF r.first # Absent THEN r.first
  ELSE IF r.last >= n THEN 0 ELSE n - r.last

End(r, n) ==
  IF r.first = Absent \/ r.last = Absent THEN n - 1
  ELSE IF r.last >= n THEN n - 1 ELSE r.last

Satisfiable(r, n) ==
  /\ ~Refused(r, n)
  /\ Start(r, n) <= End(r, n) /\ Start(r, n) < n

\* The positions that a well-formed range asks for, by definition.
Asked(r, n) ==
  {i \in 0..(n - 1) :
     IF r.first = Absent THEN i >= n - r.last
     ELSE i >= r.first /\ (r.last = Absent \/ i <= r.last)}

\* The two marks are no numbers.
Marks == Absent \notin Int /\ Bad \notin Int /\ Absent # Bad

-----------------------------------------------------------------------------
(* send_file.  The file may change at any time: a read gets what is there.  *)

VARIABLES
  pc,         \* "open", "plan", "inline", "stream" or "done"
  keepAlive,  \* the caller's keep_alive
  size,       \* file_size, as it was when the file was opened
  status,     \* out.status, 0 before it is known
  offset,     \* where reading begins
  length,     \* the Content-Length announced, 0 for texts of the program's own
  remaining,
  sent,       \* out.body_bytes
  kept        \* out.keep_alive

vars == <<pc, keepAlive, size, status, offset, length, remaining, sent, kept>>

Init ==
  /\ pc = "open" /\ keepAlive \in BOOLEAN /\ size = 0 /\ status = 0
  /\ offset = 0 /\ length = 0 /\ remaining = 0 /\ sent = 0 /\ kept = FALSE

\* send_text: 403 for a path with dots, 404 for no regular file, 416.
Text(code, from, written) ==
  /\ pc = from /\ pc' = "done"
  /\ status' = code
  /\ kept' = (written /\ keepAlive)
  /\ UNCHANGED <<keepAlive, size, offset, length, remaining, sent>>

Open(n) ==
  /\ pc = "open" /\ pc' = "plan"
  /\ size' = n
  /\ UNCHANGED <<keepAlive, status, offset, length, remaining, sent, kept>>

\* What is sent is decided; up to kInlineBodyMax it goes out with the head.
Planned(code, from, n) ==
  /\ pc = "plan"
  /\ pc' = IF n <= InlineBodyMax THEN "inline" ELSE "stream"
  /\ status' = code /\ offset' = from /\ length' = n /\ remaining' = n
  /\ UNCHANGED <<keepAlive, size, sent, kept>>

Whole == Planned(200, 0, size)

Part(r) ==
  /\ Satisfiable(r, size)
  /\ Planned(206, Start(r, size), End(r, size) - Start(r, size) + 1)

NotSatisfiable(r, written) == ~Satisfiable(r, size) /\ Text(416, "plan", written)

\* Read in one piece: what has become shorter is not sent at all.
Inline(got, written) ==
  /\ pc = "inline" /\ pc' = "done"
  /\ sent' = IF got = length THEN length ELSE 0
  /\ kept' = (got = length /\ written /\ keepAlive)
  /\ UNCHANGED <<keepAlive, size, status, offset, length, remaining>>

\* The head, or a piece of the body, cannot be written.
StreamFails ==
  /\ pc = "stream" /\ pc' = "done"
  /\ UNCHANGED <<keepAlive, size, status, offset, length, remaining, sent, kept>>

\* A piece of the body; `got` bytes were there.
Piece(got) ==
  /\ pc = "stream" /\ remaining > 0
  /\ got \in 1..(IF remaining < BufSize THEN remaining ELSE BufSize)
  /\ remaining' = remaining - got
  /\ sent' = sent + got
  /\ UNCHANGED <<pc, keepAlive, size, status, offset, length, kept>>

\* All is sent, or the file ends here now.
StreamEnds ==
  /\ pc = "stream" /\ pc' = "done"
  /\ kept' = (keepAlive /\ remaining = 0)
  /\ UNCHANGED <<keepAlive, size, status, offset, length, remaining, sent>>

Next ==
  \/ \E b \in BOOLEAN :
       \/ \E code \in {403, 404} : Text(code, "open", b)
       \/ \E r \in Ranges : NotSatisfiable(r, b)
       \/ \E got \in 0..length : Inline(got, b)
  \/ \E n \in Nat : Open(n)
  \/ Whole \/ (\E r \in Ranges : Part(r))
  \/ StreamFails \/ (\E got \in 1..BufSize : Piece(got)) \/ StreamEnds

Spec == Init /\ [][Next]_vars

\* A connection is kept only after the whole body that was announced, so that the
\* next response is not read as the rest of this one; and neither what was
\* announced nor what was sent goes past the file as it was opened, although it
\* may change while it is read.
FramingKept ==
  /\ kept => pc = "done" /\ sent = length
  /\ sent <= length /\ offset + length <= size

TypeOK ==
  /\ pc \in {"open", "plan", "inline", "stream", "done"}
  /\ keepAlive \in BOOLEAN /\ kept \in BOOLEAN /\ status \in {0, 200, 206, 403, 404, 416}
  /\ size \in Nat /\ offset \in Nat /\ length \in Nat
  /\ remaining \in Nat /\ sent \in Nat
=============================================================================
