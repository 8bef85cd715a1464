----------------------------- MODULE ActionRules -----------------------------
(***************************************************************************)
(* What decides whether an action may be sent and what of its answer an    *)
(* agent may see, as functions: src/actions/{policy,scrub,combined-scrub}  *)
(* .ts, connectors/{command,capture}.ts, connectors/http/{operation,       *)
(* request}.ts and connectors/sql/{tokens,classify}.ts.  A text is a       *)
(* sequence of symbols, each standing for the characters the code does not *)
(* tell apart; an input is checked against a definition written for the    *)
(* reader, not for one sweep.                                              *)
(***************************************************************************)
EXTENDS Integers, FiniteSets, Sequences, SequencesExt

CONSTANTS PatternMax, SubjectMax, StatementMax, SegmentMax, TextMax  \* lengths of the inputs

SeqsTo(S, n) == UNION {[1..m -> S] : m \in 0..n}
From(s, i) == SubSeq(s, i + 1, Len(s))
StartsAt(text, s, i) == i + Len(text) <= Len(s) /\ SubSeq(s, i + 1, i + Len(text)) = text

-----------------------------------------------------------------------------
(* Patterns: isPatternMatch.  A path's separator is the slash, a command's *)
(* the line break.                                                         *)

Separators(kind) == IF kind = "path" THEN {"/"} ELSE {"nl"}

\* tokenise(): literals, "*" and, in a path, "**".
RECURSIVE PatternTokens(_, _, _)
PatternTokens(p, kind, literal) ==
  LET ended == IF literal = <<>> THEN <<>> ELSE <<[is |-> "literal", text |-> literal]>>
      double == kind = "path" /\ Len(p) >= 2 /\ p[2] = "*"
  IN  IF p = <<>> THEN ended
      ELSE IF Head(p) # "*" THEN PatternTokens(Tail(p), kind, Append(literal, Head(p)))
      ELSE ended \o <<[is |-> IF double THEN "double" ELSE "star", text |-> <<>>]>>
                 \o PatternTokens(From(p, IF double THEN 2 ELSE 1), kind, <<>>)

\* Reach: the positions of the subject a prefix of the pattern can end at.
Literal(at, text, s) == {i + Len(text) : i \in {j \in at : StartsAt(text, s, j)}}
\* Mutant: the run a "*" matches takes the separator in.
WildPastOne(at, stop, s) ==
  {j \in 0..Len(s) : \E i \in at : i <= j /\ \A k \in (i + 1)..(j - 1) : s[k] \notin stop}
Wild(at, stop, s) ==
  {j \in 0..Len(s) : \E i \in at : i <= j /\ \A k \in (i + 1)..j : s[k] \notin stop}

Advance(at, token, kind, s) ==
  CASE token.is = "literal" -> Literal(at, token.text, s)
    [] token.is = "star"    -> Wild(at, Separators(kind), s)
    [] OTHER                -> Wild(at, {}, s)
IsPatternMatch(p, s, kind) ==
  Len(s) \in FoldLeft(LAMBDA at, token : Advance(at, token, kind, s), {0}, PatternTokens(p, kind, <<>>))

\* What a pattern means (ACT-34), one symbol at a time.
RECURSIVE Means(_, _, _)
Means(p, s, kind) ==
  IF p = <<>> THEN s = <<>>
  ELSE IF Head(p) # "*" THEN s # <<>> /\ Head(s) = Head(p) /\ Means(Tail(p), Tail(s), kind)
  ELSE IF kind = "path" /\ Len(p) >= 2 /\ p[2] = "*"
    THEN \E i \in 0..Len(s) : Means(From(p, 2), From(s, i), kind)
  ELSE \E i \in 0..Len(s) : /\ \A j \in 1..i : s[j] \notin Separators(kind)
                            /\ Means(Tail(p), From(s, i), kind)

-----------------------------------------------------------------------------
(* Commands: createCommandAuthorize and what a save refuses.               *)

\* "meta" is any of ; & | ` $ < > ( ).
\* commandPatternProblem(): a pattern that matches the empty command is open.
\* Mutant: only the pattern that is one star.
OpenIfStar(p) == p = <<"*">>
IsOpen(p) == p # <<>> /\ IsPatternMatch(p, <<>>, "command")
\* commandPolicyProblems() of a target that is not an any-command one.
SavedPattern(p) == p # <<>> /\ "meta" \notin ToSet(p) /\ ~IsOpen(p)
\* refusal(), for a command within 16 KiB.
RuleRefusal(p, command) ==
  IF "nl" \in ToSet(command) THEN "command"
  ELSE IF "meta" \in ToSet(command) THEN "command_metacharacter"
  ELSE IF IsPatternMatch(p, command, "command") THEN "none" ELSE "command"

-----------------------------------------------------------------------------
(* Paths: httpSubject and requestSubject.  A path is its segments; ".." is *)
(* two dots, "%.." the same with an escape in it, "%/" a segment with an   *)
(* escaped slash and "" an empty one.                                      *)

\* decodeUnreserved(): a dot is unreserved, a slash is not.
Decoded(segment) == IF segment = "%.." THEN ".." ELSE segment

\* removeDotSegments().
RECURSIVE RemoveDots(_, _, _)
RemoveDots(segments, out, escaped) ==
  IF segments = <<>> THEN [path |-> out, escaped |-> escaped]
  ELSE LET s == Head(segments)
           last == Len(segments) = 1
           kept == CASE s = ".." -> IF out = <<>> THEN <<>> ELSE Front(out)
                     [] s = "."  -> out
                     [] OTHER    -> Append(out, s)
       IN  RemoveDots(Tail(segments), IF last /\ s \in {".", ".."} THEN Append(kept, "") ELSE kept,
                      escaped \/ (s = ".." /\ out = <<>>))
\* Mutant: the dot segments go before the escapes are decoded.
NormaliseLate(segments) ==
  LET free == RemoveDots(segments, <<>>, FALSE)
  IN  [free EXCEPT !.path = [i \in DOMAIN @ |-> Decoded(@[i])]]
Normalise(segments) == RemoveDots([i \in DOMAIN segments |-> Decoded(segments[i])], <<>>, FALSE)

\* "//" in the subject: an empty segment before the last.
NoSubject == <<"none">>
RequestSubject(segments) ==
  LET free == Normalise(segments)
  IN  IF free.escaped \/ \E i \in 1..(Len(free.path) - 1) : free.path[i] = "" THEN NoSubject ELSE free.path

\* pathProblem(), of the tool's own schema.
PathAccepted(segments) ==
  /\ ToSet(segments) \cap {"..", "%/"} = {}
  /\ \A i \in 1..(Len(segments) - 1) : segments[i] # ""

\* Where a URL parser ends up when it is given base and path: it reads an
\* escaped dot as a dot, and ".." above the root stays at the root.
RECURSIVE ResolveDots(_, _)
ResolveDots(segments, out) ==
  IF segments = <<>> THEN out
  ELSE ResolveDots(Tail(segments),
         CASE Head(segments) \in {"..", "%.."} -> IF out = <<>> THEN out ELSE Front(out)
           [] Head(segments) = "." -> out
           [] OTHER -> Append(out, Head(segments)))
Base == <<"base">>
\* isUnderBase(): on a segment boundary.
UnderBase(path) == Len(path) >= 1 /\ path[1] = "base"

-----------------------------------------------------------------------------
(* Scrubbing: createScrubber.  A variant is a text, the marker one symbol. *)

Longest(variants) == IF variants = {} THEN <<>> ELSE
  CHOOSE v \in variants : \A w \in variants : Len(w) <= Len(v)
\* scrubText(): one pass, the longest variant that starts at each position.
\* Mutant: only the first occurrence of anything is replaced.
ScrubFirst(variants, s, i) ==
  LET hits == {j \in 0..(Len(s) - 1) : \E v \in variants : v # <<>> /\ StartsAt(v, s, j)}
      first == CHOOSE j \in hits : \A k \in hits : j <= k
      hit == Longest({v \in variants : v # <<>> /\ StartsAt(v, s, first)})
  IN  IF hits = {} THEN s ELSE SubSeq(s, 1, first) \o <<"#">> \o From(s, first + Len(hit))
RECURSIVE ScrubFrom(_, _, _)
ScrubFrom(variants, s, i) ==
  IF i >= Len(s) THEN <<>>
  ELSE LET hit == Longest({v \in variants : v # <<>> /\ StartsAt(v, s, i)})
       IN  IF hit = <<>> THEN <<s[i + 1]>> \o ScrubFrom(variants, s, i + 1)
           ELSE <<"#">> \o ScrubFrom(variants, s, i + Len(hit))
ScrubOnce(variants, s) == ScrubFirst(variants, s, 0)
Scrub(variants, s) == ScrubFrom(variants, s, 0)
\* combineScrubbers(): each target's table in turn.
ScrubAll(tables, s) == FoldLeft(LAMBDA t, variants : Scrub(variants, t), s, tables)

\* Mutant: the last chunk is kept whole.
CapturedWhole(chunks, limit) ==
  FoldLeft(LAMBDA got, chunk : IF Len(got.bytes) >= limit THEN [got EXCEPT !.cut = TRUE]
                               ELSE [got EXCEPT !.bytes = @ \o chunk],
           [bytes |-> <<>>, cut |-> FALSE], chunks)
\* Capture.add(): the chunks up to the limit, and whether anything was dropped.
Captured(chunks, limit) ==
  FoldLeft(LAMBDA got, chunk :
             LET room == limit - Len(got.bytes)
             IN  IF room <= 0 THEN [got EXCEPT !.cut = TRUE]
                 ELSE [bytes |-> got.bytes \o SubSeq(chunk, 1, IF Len(chunk) < room THEN Len(chunk) ELSE room),
                       cut |-> got.cut \/ Len(chunk) > room],
           [bytes |-> <<>>, cut |-> FALSE], chunks)
\* buffer(): scrubbed, then cut at the output limit.
ShownText(variants, s, max) ==
  LET t == Scrub(variants, s)
  IN  [text |-> SubSeq(t, 1, IF Len(t) < max THEN Len(t) ELSE max), truncated |-> Len(t) > max \/ Len(s) > max]

-----------------------------------------------------------------------------
(* Statements: tokenise and classifyStatement.  "sel" and "del" are words, *)
(* read and denied; "E" the prefix of an escaped string and a word; "b" a  *)
(* backslash, "sp" a space, "nl" either line terminator, "x" what is none  *)
(* of these.                                                               *)

StatementWords == {"sel", "del", "E"}
RECURSIVE Run(_, _, _)
Run(s, i, set) == IF i < Len(s) /\ s[i + 1] \in set THEN Run(s, i + 1, set) ELSE i
RuleAt(s, i) == IF i < Len(s) THEN s[i + 1] ELSE "end"

\* endOfDoubled() and endOfEscaped(), from just past the opening quote.
RECURSIVE EndOfQuoted(_, _, _)
EndOfQuoted(s, i, escapes) ==
  IF i >= Len(s) THEN Len(s)
  ELSE IF escapes /\ RuleAt(s, i) = "b" THEN EndOfQuoted(s, i + 2, escapes)
  ELSE IF RuleAt(s, i) # "'" THEN EndOfQuoted(s, i + 1, escapes)
  ELSE IF RuleAt(s, i + 1) = "'" THEN EndOfQuoted(s, i + 2, escapes)
  ELSE i + 1
\* Mutant: a comment runs to the end of the statement.
EndOfLine(s, i) == Len(s)
EndOfLineComment(s, i) == Run(s, i, {"-", "/", "*", "'", ";", "b", "sp", "x"} \cup StatementWords)
RECURSIVE EndOfBlock(_, _, _, _)
EndOfBlock(s, i, depth, nests) ==
  IF i >= Len(s) THEN Len(s)
  ELSE IF nests /\ StartsAt(<<"/", "*">>, s, i) THEN EndOfBlock(s, i + 2, depth + 1, nests)
  ELSE IF StartsAt(<<"*", "/">>, s, i)
    THEN IF depth = 1 THEN i + 2 ELSE EndOfBlock(s, i + 2, depth - 1, nests)
  ELSE EndOfBlock(s, i + 1, depth, nests)

\* scanToken(): the scanners in their order.
Scan(s, i, engine) ==
  IF StartsAt(<<"-", "-">>, s, i) THEN [kind |-> "comment", end |-> EndOfLineComment(s, i)]
    ELSE IF StartsAt(<<"/", "*">>, s, i) THEN [kind |-> "comment", end |-> EndOfBlock(s, i + 2, 1, engine = "postgres")]
    ELSE IF engine = "postgres" /\ RuleAt(s, i) = "E" /\ RuleAt(s, i + 1) = "'" THEN
         [kind |-> "string", end |-> EndOfQuoted(s, i + 2, TRUE)]
    ELSE IF RuleAt(s, i) = "'" THEN [kind |-> "string", end |-> EndOfQuoted(s, i + 1, FALSE)]
    ELSE IF RuleAt(s, i) = ";" THEN [kind |-> "semicolon", end |-> i + 1]
    ELSE IF RuleAt(s, i) \in StatementWords THEN [kind |-> "word", end |-> Run(s, i + 1, StatementWords)]
    ELSE [kind |-> "other", end |-> i + 1]
RECURSIVE SqlTokens(_, _, _)
SqlTokens(s, i, engine) ==
  LET start == Run(s, i, {"sp", "nl"})
  IN  IF start >= Len(s) THEN <<>>
      ELSE LET t == Scan(s, start, engine)
               end == IF t.end > Len(s) THEN Len(s) ELSE t.end
           IN  <<[kind |-> t.kind, text |-> SubSeq(s, start + 1, end), end |-> end]>>
                 \o SqlTokens(s, end, engine)

HasSecondStatement(s, tokens) ==
  \E i \in DOMAIN tokens :
    /\ tokens[i].kind = "semicolon" /\ \A j \in 1..(i - 1) : tokens[j].kind # "semicolon"
    /\ \E k \in (tokens[i].end + 1)..Len(s) : s[k] \notin {"sp", "nl"}
KeywordsOf(tokens) == LET words == SelectSeq(tokens, LAMBDA t : t.kind = "word")
                      IN  [i \in DOMAIN words |-> words[i].text]
Denied == {<<"del">>}
ClassOf(keywords) ==
  IF keywords = <<>> THEN "other"
  ELSE IF keywords[1] = <<"sel">> /\ \A i \in DOMAIN keywords : keywords[i] \notin Denied THEN "read"
  ELSE IF keywords[1] = <<"del">> THEN "dml" ELSE "other"
\* classifyStatement().
Classify(s, engine) ==
  LET tokens == SqlTokens(s, 0, engine)
  IN  IF HasSecondStatement(s, tokens) THEN "statement_count" ELSE ClassOf(KeywordsOf(tokens))

\* How the server's lexer reads it: a mode, and what it has met outside strings
\* and comments.  A run of word symbols is one word.
Lexed == [mode : {"plain", "line", "block", "string", "escaped"}, depth : Nat, skip : Nat,
          word : Seq(StatementWords), words : SUBSET Seq(StatementWords), ends : BOOLEAN, second : BOOLEAN]
Ended(l) == [l EXCEPT !.words = IF @ # {} /\ l.word = <<>> THEN @ ELSE @ \cup ({l.word} \ {<<>>}), !.word = <<>>]
Seen(l) == [Ended(l) EXCEPT !.second = @ \/ l.ends]
Read(s, i, l, engine) ==
  LET c == RuleAt(s, i)
      n == RuleAt(s, i + 1)
  IN  IF l.skip > 0 THEN [l EXCEPT !.skip = @ - 1]
        ELSE IF l.mode = "line" THEN IF c = "nl" THEN [l EXCEPT !.mode = "plain"] ELSE l
        ELSE IF l.mode = "block" THEN
             IF c = "*" /\ n = "/" THEN [l EXCEPT !.skip = 1, !.depth = @ - 1,
                                           !.mode = IF l.depth = 1 THEN "plain" ELSE "block"]
             ELSE IF engine = "postgres" /\ c = "/" /\ n = "*" THEN [l EXCEPT !.skip = 1, !.depth = @ + 1]
             ELSE l
        ELSE IF l.mode \in {"string", "escaped"} THEN
             IF l.mode = "escaped" /\ c = "b" THEN [l EXCEPT !.skip = 1]
             ELSE IF c = "'" /\ n = "'" THEN [l EXCEPT !.skip = 1]
             ELSE IF c = "'" THEN [l EXCEPT !.mode = "plain"] ELSE l
        ELSE IF c = "-" /\ n = "-" THEN [Ended(l) EXCEPT !.mode = "line"]
        ELSE IF c = "/" /\ n = "*" THEN [Ended(l) EXCEPT !.mode = "block", !.depth = 1, !.skip = 1]
        ELSE IF engine = "postgres" /\ c = "E" /\ n = "'" /\ l.word = <<>> THEN
             [Seen(l) EXCEPT !.mode = "escaped", !.skip = 1]
        ELSE IF c = "'" THEN [Seen(l) EXCEPT !.mode = "string"]
        ELSE IF c = ";" THEN [Seen(l) EXCEPT !.ends = TRUE]
        ELSE IF c \in StatementWords THEN [l EXCEPT !.word = Append(@, c), !.second = @ \/ l.ends]
        ELSE IF c \in {"sp", "nl"} THEN Ended(l)
        ELSE Seen(l)
Server(s, engine) ==
  Ended(FoldLeft(LAMBDA l, i : Read(s, i - 1, l, engine),
                 [mode |-> "plain", depth |-> 0, skip |-> 0, word |-> <<>>, words |-> {}, ends |-> FALSE,
                  second |-> FALSE], [i \in 1..Len(s) |-> i]))

-----------------------------------------------------------------------------
VARIABLE input
RulesInputs ==
  [of : {"path pattern"}, p : SeqsTo({"a", "/", "*"}, PatternMax), s : SeqsTo({"a", "/"}, SubjectMax)]
  \cup [of : {"command pattern"}, p : SeqsTo({"a", "meta", "nl", "*"}, PatternMax),
        s : SeqsTo({"a", "meta", "nl"}, SubjectMax - 1)]
  \cup [of : {"path"}, s : SeqsTo({"a", "", ".", "..", "%..", "%/"}, SegmentMax) \ {<<>>}]
  \cup [of : {"text"}, s : SeqsTo({"a", "b"}, TextMax),
        v : SUBSET {<<"a", "b">>, <<"a", "b", "a">>, <<"b", "b">>, <<"a", "a", "b">>}]
  \cup [of : {"chunks"}, s : SeqsTo(SeqsTo({"a"}, 3), 3), v : 0..4]
  \cup [of : {"statement"}, s : {<<"sel", "sp">> \o t : t \in SeqsTo({"del", "E", "'", "-", "/", "*", ";", "b", "nl"}, StatementMax)},
        v : {"mssql", "postgres"}]
NoInput == [of |-> "none"]
RulesInit == input = NoInput
RulesNext == input = NoInput /\ input' \in RulesInputs

\* One sweep over the subject matches exactly what a pattern means, in both of
\* its dialects.
PatternsExact ==
  /\ input.of = "path pattern" => (IsPatternMatch(input.p, input.s, "path") <=> Means(input.p, input.s, "path"))
  /\ input.of = "command pattern" =>
       (IsPatternMatch(input.p, input.s, "command") <=> Means(input.p, input.s, "command"))

\* A pattern that a save accepts is not one that allows every command, and no
\* command that it allows holds a shell operator or a second line.
PatternsRestrain ==
  input.of = "command pattern" /\ SavedPattern(input.p) =>
    /\ \E c \in {<<>>, <<"a">>} : ~IsPatternMatch(input.p, c, "command")
    /\ RuleRefusal(input.p, input.s) = "none" => {"nl", "meta"} \cap ToSet(input.s) = {}

\* The subject the policy judges is the path the destination is asked for, and
\* it is under the base whatever escapes and dots the agent wrote.
PathsStayUnder ==
  input.of = "path" /\ RequestSubject(input.s) # NoSubject =>
    LET subject == RequestSubject(input.s)
        url == ResolveDots(Base \o subject, <<>>)
    IN  /\ UnderBase(url) /\ url = Base \o subject
        /\ PathAccepted(input.s) => ".." \notin ToSet(subject) /\ "%/" \notin ToSet(subject)

\* No variant of a value is left anywhere in what is shown, however values
\* overlap, whichever table comes first, and scrubbing again changes nothing.
ScrubbedClean ==
  input.of = "text" =>
    LET t == Scrub(input.v, input.s)
        Left(text, v) == \E i \in 0..Len(text) : StartsAt(v, text, i)
    IN  /\ \A v \in input.v : ~Left(t, v)
        /\ Scrub(input.v, t) = t
        /\ \A v \in input.v : ~Left(ScrubAll(<<{v}, input.v \ {v}>>, input.s), v)
        /\ \A m \in 0..Len(input.s) : Len(ShownText(input.v, input.s, m).text) <= m

\* The capture keeps as much of the stream as the limit allows, says so whenever
\* something is missing, and otherwise only for an empty chunk past the limit.
CapturesPrefix ==
  input.of = "chunks" =>
    LET got == Captured(input.s, input.v)
        sent == FoldLeft(LAMBDA n, c : n + Len(c), 0, input.s)
    IN  /\ Len(got.bytes) = IF sent < input.v THEN sent ELSE input.v
        /\ got.cut => sent > input.v \/ \E i \in DOMAIN input.s : input.s[i] = <<>>
        /\ sent > input.v => got.cut

\* What is taken for one statement is one for the server, and what is taken for
\* a read has no word of the deny set where the server would run it.
StatementsRead ==
  input.of = "statement" =>
    LET class == Classify(input.s, input.v)
        server == Server(input.s, input.v)
    IN  /\ class # "statement_count" => ~server.second
        /\ class = "read" => <<"del">> \notin server.words

\* Every rule does what it stands for, whatever it is given.
RulesSound ==
  PatternsExact /\ PatternsRestrain /\ PathsStayUnder /\ ScrubbedClean /\ CapturesPrefix /\ StatementsRead
=============================================================================
