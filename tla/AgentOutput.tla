----------------------------- MODULE AgentOutput ------------------------------
(* How the spawner keeps what an agent prints, and how an adapter finds the    *)
(* agent's own summary in it (spawner/index.ts, spawner/adapters,              *)
(* spawner/agent-result-payload.ts).                                           *)
(*                                                                             *)
(* An output is a sequence of lines [kind, len]; its bytes are <<k, p>>, the   *)
(* p-th byte of the k-th line, and <<k, 0>>, the newline that ends the k-th    *)
(* line.  A piece of a line is neither a result nor an event: cutting a JSON   *)
(* object anywhere leaves no JSON object.                                      *)
EXTENDS Integers, Sequences, SequencesExt, FiniteSetsExt

CONSTANTS HeadLimit,      \* STDOUT_BUFFER_LIMIT, 32 MB in the source
          TailLimit       \* TAIL_BUFFER_LIMIT, 1 MB in the source

ASSUME LimitAssumption == HeadLimit \in Nat /\ TailLimit \in Nat

Newline(b) == b[2] = 0

(* What the agent writes: every line and, if `ended`, the last newline.        *)
BytesOf(output, ended) ==
  FlattenSeq([k \in DOMAIN output |->
    [p \in 1 .. output[k].len |-> <<k, p>>]
      \o IF k = Len(output) /\ ~ ended THEN <<>> ELSE <<<<k, 0>>>>])

(* --------------------------- reading the pipe ----------------------------- *)

NothingRead ==
  [head |-> <<>>, tail |-> <<>>, truncated |-> FALSE, buf |-> <<>>,
   streamed |-> <<>>]

(* As Trim, with chunks only ever dropped whole.                               *)
TrimWhole(chunks) ==
  LET trim[k \in 0 .. Len(chunks)] ==
        LET rest == SubSeq(chunks, k + 1, Len(chunks))
        IN  IF Len(FlattenSeq(rest)) <= TailLimit THEN rest ELSE trim[k + 1]
  IN  trim[0]

(* The tail: a list of chunks, the oldest dropped, or sliced, while they are   *)
(* more than the tail may hold.                                                *)
Trim(chunks) ==
  LET trim[k \in 0 .. Len(chunks)] ==
        LET rest == SubSeq(chunks, k + 1, Len(chunks))
            over == Len(FlattenSeq(rest)) - TailLimit
        IN  IF over <= 0 THEN rest
            ELSE IF over >= Len(rest[1]) THEN trim[k + 1]
            ELSE <<SubSeq(rest[1], over + 1, Len(rest[1]))>> \o Tail(rest)
  IN  trim[0]

(* A chunk fills the head; what no longer fits goes to the tail, as does every *)
(* chunk after it.                                                             *)
Keep(b, value) ==
  LET remaining == HeadLimit - Len(b.head)
      fits == ~ b.truncated /\ Len(value) <= remaining
      cut == IF b.truncated THEN 0 ELSE Min({remaining, Len(value)})
      tailPart == SubSeq(value, cut + 1, Len(value))
  IN  [b EXCEPT !.head = @ \o SubSeq(value, 1, cut),
                !.truncated = @ \/ ~ fits,
                !.tail = IF fits THEN @ ELSE Trim(Append(@, tailPart))]

(* lines[0..-1] of the text when it is split at its newlines: the pieces       *)
(* between them, the last of which may be empty.                               *)
Split(text) ==
  LET ends == SelectSeq([i \in DOMAIN text |-> i], LAMBDA i : Newline(text[i]))
      first(n) == IF n = 1 THEN 1 ELSE ends[n - 1] + 1
      last(n) == IF n > Len(ends) THEN Len(text) ELSE ends[n] - 1
  IN  [n \in 1 .. Len(ends) + 1 |-> SubSeq(text, first(n), last(n))]

(* The lines that are complete are read as events as they come; the rest waits *)
(* for the next chunk.                                                         *)
Stream(b, value) ==
  LET parts == Split(b.buf \o value)
  IN  [b EXCEPT !.streamed = @ \o Front(parts), !.buf = Last(parts)]

(* The end of the pipe: a last line without a newline is read too.             *)
StreamEnd(b) ==
  [b EXCEPT !.streamed = IF b.buf = <<>> THEN @ ELSE Append(@, b.buf),
            !.buf = <<>>]

(* head, separator, tail.                                                      *)
StdoutText(b) ==
  b.head \o IF b.truncated THEN <<<<0, 0>>>> \o FlattenSeq(b.tail) ELSE <<>>

(* -------------------------- finding the result ----------------------------- *)

(* The whole lines of the output that a text holds, in order: the numbers of   *)
(* the pieces that are one line from its first byte to its last.               *)
WholeLines(output, text) ==
  LET whole == SelectSeq(Split(text),
                 LAMBDA piece : piece # <<>>
                   /\ piece = [p \in 1 .. output[piece[1][1]].len |->
                                 <<piece[1][1], p>>])
  IN  [n \in DOMAIN whole |-> whole[n][1][1]]

LastOf(output, lines, kind) ==
  LET found == {k \in ToSet(lines) : output[k].kind = kind}
  IN  IF found = {} THEN 0 ELSE Max(found)

(* parseResult of the nano adapter: the last summary line, wherever it is, or  *)
(* else the last "done" event.  0: null.                                       *)
ParseNano(output, text) ==
  LET lines == WholeLines(output, text)
      summary == LastOf(output, lines, "summary")
  IN  IF summary # 0 THEN summary ELSE LastOf(output, lines, "done")

(* parseResult of the Claude Code adapter: the last envelope, a result or an   *)
(* error ("summary" stands for it here).                                       *)
ParseClaude(output, text) == LastOf(output, WholeLines(output, text), "summary")

Parse(adapter, output, text) ==
  IF adapter = "nano" THEN ParseNano(output, text)
  ELSE ParseClaude(output, text)
=============================================================================
