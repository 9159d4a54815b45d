---------------------------- MODULE ChunkedBody -----------------------------
(***************************************************************************)
(* How src/http/http_server.cpp reads a chunked request body.  Every read  *)
(* goes first through ChunkScanner, which sees an overflowing chunk size,  *)
(* and then to the Beast parser, from which an unfinished size line is     *)
(* held back.                                                              *)
(*                                                                         *)
(* A byte is "0" or "1", the digits of a chunk size in base 2 for 16, "e", *)
(* a whole chunk extension, "x", any other character, "CR" or "LF".        *)
(***************************************************************************)
EXTENDS Integers, Sequences, SequencesExt

CONSTANTS SizeMax,     \* UINT64_MAX of a chunk size, scaled down
          body_limit   \* body_limit_bytes

Digits == <<"0", "1">>
Base == Len(Digits)
IsDigit(b) == b \in ToSet(Digits)
DigitValue(b) == IF b = "1" THEN 1 ELSE 0

-----------------------------------------------------------------------------
(* ChunkScanner.                                                           *)

NewScanner == [state |-> "size", line |-> <<>>, remaining |-> 0, overflow |-> FALSE,
               stopped |-> FALSE, size_cr_seen |-> FALSE, data_cr_seen |-> FALSE]

AddDigit(r, b) ==
    IF r.overflow \/ r.value > (SizeMax - DigitValue(b)) \div Base
    THEN [r EXCEPT !.overflow = TRUE]
    ELSE [r EXCEPT !.value = Base * @ + DigitValue(b)]

\* The size and overflow of a line without its CR LF; valid is FALSE for std::nullopt.
ParseSizeLine(line) ==
    LET digits == SelectSeq(line, IsDigit)
        rest == SubSeq(line, Len(digits) + 1, Len(line))
        size == FoldLeft(AddDigit, [value |-> 0, overflow |-> FALSE], digits)
    IN  [valid |-> /\ digits # <<>> /\ IsPrefix(digits, line)
                   /\ \A n \in DOMAIN rest : rest[n] = "e",
         value |-> size.value, overflow |-> size.overflow]

ScanSize(s, b) ==
    LET line == Append(s.line, b)
        parsed == ParseSizeLine(SubSeq(line, 1, Len(line) - 2))
    IN  IF s.size_cr_seen
        THEN IF b # "LF" THEN [s EXCEPT !.stopped = TRUE]
             ELSE IF ~parsed.valid
             THEN [s EXCEPT !.line = line, !.size_cr_seen = FALSE, !.stopped = TRUE]
             ELSE IF parsed.overflow
             THEN [s EXCEPT !.line = <<>>, !.size_cr_seen = FALSE, !.overflow = TRUE]
             ELSE [s EXCEPT !.line = <<>>, !.size_cr_seen = FALSE, !.remaining = parsed.value,
                            !.state = IF parsed.value = 0 THEN "trailer" ELSE "data"]
        ELSE IF b = "LF" THEN [s EXCEPT !.stopped = TRUE]
        ELSE [s EXCEPT !.line = line, !.size_cr_seen = (b = "CR")]

ScanDataEnd(s, b) ==
    IF s.data_cr_seen
    THEN IF b = "LF" THEN [s EXCEPT !.data_cr_seen = FALSE, !.state = "size"]
         ELSE [s EXCEPT !.stopped = TRUE]
    ELSE IF b = "CR" THEN [s EXCEPT !.data_cr_seen = TRUE] ELSE [s EXCEPT !.stopped = TRUE]

ScanByte(s, b) ==
    IF s.overflow \/ s.stopped THEN s
    ELSE CASE s.state = "size" -> ScanSize(s, b)
           [] s.state = "data" ->
                [s EXCEPT !.remaining = @ - 1,
                          !.state = IF s.remaining = 1 THEN "data_crlf" ELSE "data"]
           [] s.state = "data_crlf" -> ScanDataEnd(s, b)
           [] s.state = "trailer" -> s

\* Mutant: a CR at the end of a read is forgotten.
FeedForgets(s, bytes) == FoldLeft(ScanByte, [s EXCEPT !.size_cr_seen = FALSE], bytes)

Feed(s, bytes) == FoldLeft(ScanByte, s, bytes)

-----------------------------------------------------------------------------
(* The Beast parser, as far as the adapter relies on it: it takes whole    *)
(* size lines, refuses a size it cannot represent as malformed, and a body *)
(* beyond its limit.  rest counts the bytes behind the end of the message. *)

NewParser == [state |-> "size", line |-> <<>>, left |-> 0, body |-> 0, rest |-> 0]

ParserSizeLine(p, line) ==
    LET parsed == ParseSizeLine(SubSeq(line, 1, Len(line) - 2))
    IN  IF ~parsed.valid \/ parsed.overflow THEN [p EXCEPT !.state = "malformed"]
        ELSE IF p.body + parsed.value > body_limit THEN [p EXCEPT !.state = "body_limit"]
        ELSE [p EXCEPT !.line = <<>>, !.left = parsed.value,
                       !.state = IF parsed.value = 0 THEN "trailer" ELSE "data"]

\* A line of which all bytes are there, expected to be exactly CR LF.
ParserBlankLine(p, line, next) ==
    [p EXCEPT !.line = <<>>, !.state = IF line = <<"CR", "LF">> THEN next ELSE "malformed"]

ParserByte(p, b) ==
    LET line == Append(p.line, b)
        ended == Len(line) > 1 /\ line[Len(line) - 1] = "CR" /\ b = "LF"
        waiting == [p EXCEPT !.line = line,
                             !.state = IF p.line # <<>> /\ Last(p.line) = "CR" THEN "malformed" ELSE @]
    IN  CASE p.state = "size" -> IF ended THEN ParserSizeLine(p, line) ELSE waiting
          [] p.state = "data" -> [p EXCEPT !.left = @ - 1, !.body = @ + 1,
                                           !.state = IF p.left = 1 THEN "data_crlf" ELSE "data"]
          [] p.state = "data_crlf" ->
                IF Len(line) = 2 THEN ParserBlankLine(p, line, "size") ELSE waiting
          [] p.state = "trailer" -> IF ended THEN ParserBlankLine(p, line, "done") ELSE waiting
          [] p.state = "done" -> [p EXCEPT !.rest = @ + 1]
          [] OTHER -> p

-----------------------------------------------------------------------------
(* The feed lambda of HandleConnection.                                    *)

\* bytes that the parser has not been given yet, and the verdict so far.
NewBody == [scanner |-> NewScanner, parser |-> NewParser, held |-> <<>>, bytes_fed |-> 0,
            verdict |-> "reading"]

\* The unfinished size line, which is the tail of what was read.
HeldBack(scanner) ==
    IF scanner.state = "size" /\ ~scanner.stopped THEN Len(scanner.line) ELSE 0

\* What a read of all bytes so far, charged of them for the request, is answered with.
Verdict(scanner, parser, charged, room) ==
    CASE charged > room \/ scanner.overflow \/ parser.state = "body_limit" -> "too_large"
      [] OTHER -> CASE parser.state = "malformed" -> "malformed"
                    [] parser.state = "done" -> "complete"
                    [] OTHER -> "reading"

\* Bytes behind the end of the message are not charged.
Charged(parser, fed) == IF parser.state = "done" THEN fed - parser.rest ELSE fed

\* The scanned bytes are forwarded up to what is held back, then charged against the combined
\* limit.
Forward(body, scanner, pending, fed, room) ==
    LET kept == Len(pending) - HeldBack(scanner)
        parser == IF scanner.overflow THEN body.parser
                  ELSE FoldLeft(ParserByte, body.parser, SubSeq(pending, 1, kept))
    IN  [scanner |-> scanner, parser |-> parser, bytes_fed |-> fed,
         held |-> SubSeq(pending, kept + 1, Len(pending)),
         verdict |-> Verdict(scanner, parser, Charged(parser, fed), room)]

\* One read: scanned, then forwarded.
FeedBody(body, bytes, room) ==
    Forward(body, Feed(body.scanner, bytes), body.held \o bytes, body.bytes_fed + Len(bytes), room)

=============================================================================
