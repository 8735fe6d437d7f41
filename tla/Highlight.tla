----------------------------- MODULE Highlight -----------------------------
(* The words of a query that are marked in the articles found               *)
(* (lib/fts-highlight.tsx): the query is read as tokens, and the words and  *)
(* phrases it looks for are told from columns, operators and distances.     *)
EXTENDS Integers, Sequences, SequencesExt

CONSTANTS
    LongWords,     \* long enough to be marked; in one case
    ShortWords,    \* too short: under two CJK characters, three others
    Numbers,       \* of the long words, those of digits only
    Columns,       \* of the long words, the columns of the index
    MaxPieces      \* bound: pieces a query is written in

ASSUME HighlightConstants ==
    /\ LongWords \intersect ShortWords = {}
    /\ Numbers \subseteq LongWords /\ Columns \subseteq LongWords \ Numbers
    /\ MaxPieces \in Nat

VARIABLES
    hlQuery,       \* the tokens of the query
    hlSought,      \* ghost: what the query looks for, [value, mode]
    hlDepth,       \* parentheses still open
    hlDue,         \* an operand has to follow
    hlPieces

hlVars == <<hlQuery, hlSought, hlDepth, hlDue, hlPieces>>

HlWords == LongWords \union ShortWords
Operators == {"AND", "OR", "NOT"}
Sign(s) == [kind |-> "symbol", value |-> s]
Word(w) == [kind |-> "word", value |-> w]
Phrase(w) == [kind |-> "phrase", value |-> w]
Tokens ==
    {Sign(s) : s \in {"(", ")", "{", "}", ":", ",", "*"}}
      \union {Word(w) : w \in HlWords \union Operators \union {"NEAR"}} \union {Phrase(w) : w \in HlWords}
HlTerms == [value : LongWords, mode : {"exact", "prefix"}]

----------------------------------------------------------------------------
\* What the page marks

\* isNearDistance: a number behind the comma of the innermost NEAR
IsDistance(token, frames) ==
    LET at == SelectLastInSeq(frames, LAMBDA f : f.near) IN
    token.kind = "word" /\ token.value \in Numbers /\ at # 0 /\ frames[at].comma

\* markNearDistanceSeparator
WithComma(frames) ==
    LET at == SelectLastInSeq(frames, LAMBDA f : f.near) IN
    IF at = 0 THEN frames ELSE [frames EXCEPT ![at].comma = TRUE]

\* updateFtsHighlightSyntax: a symbol opens or closes braces and parentheses.
Entered(scan, query, i) ==
    LET isNear == IF i = 1 THEN FALSE ELSE query[i - 1] = Word("NEAR") IN
    CASE query[i] = Sign("{") -> [scan EXCEPT !.braces = @ + 1]
      [] query[i] = Sign("}") -> [scan EXCEPT !.braces = IF @ = 0 THEN 0 ELSE @ - 1]
      [] query[i] = Sign("(") -> [scan EXCEPT !.frames = Append(@, [near |-> isNear, comma |-> FALSE])]
      [] query[i] = Sign(")") -> [scan EXCEPT !.frames = IF @ = <<>> THEN @ ELSE Front(@)]
      [] query[i] = Sign(",") -> [scan EXCEPT !.frames = WithComma(@)]
      [] OTHER -> scan

FollowedBy(query, i, s) == i < Len(query) /\ query[IF i < Len(query) THEN i + 1 ELSE i] = Sign(s)

\* Seeded fault: only the columns in braces are told apart.
OperandAnyColumn(scan, query, i) ==
    /\ scan.braces = 0
    /\ ~(query[i].kind = "word" /\ query[i].value \in Operators \union {"NEAR"})
    /\ ~IsDistance(query[i], scan.frames)

\* isFtsHighlightOperand
IsOperand(scan, query, i) ==
    /\ scan.braces = 0
    /\ ~(query[i].kind = "word" /\ query[i].value \in Operators \union {"NEAR"})
    /\ ~FollowedBy(query, i, ":")
    /\ ~IsDistance(query[i], scan.frames)

\* appendFtsHighlightTerm: long enough, and once for each way of matching.
MarkedIn(scan, query, i) ==
    IF query[i].value \in LongWords
    THEN [scan EXCEPT !.terms = @ \union
            {[value |-> query[i].value, mode |-> IF FollowedBy(query, i, "*") THEN "prefix" ELSE "exact"]}]
    ELSE scan

\* parseFtsHighlightTerms
Highlights(query) ==
    LET Read(scan, i) == IF query[i].kind = "symbol" THEN Entered(scan, query, i)
                         ELSE IF IsOperand(scan, query, i) THEN MarkedIn(scan, query, i) ELSE scan
    IN  FoldLeftDomain(Read, [braces |-> 0, frames |-> <<>>, terms |-> {}], query).terms

----------------------------------------------------------------------------
\* A query is written piece by piece in the syntax of the index.

Write(tokens, sought) ==
    /\ hlPieces < MaxPieces /\ hlPieces' = hlPieces + 1
    /\ hlQuery' = hlQuery \o tokens
    /\ hlSought' = hlSought \union sought

\* Operands next to each other are joined by an implied AND.
Operand == ~(~hlDue /\ Last(hlQuery) = Sign(")"))

LookFor(w, quoted, mode) ==
    /\ Operand
    /\ Write(<<IF quoted THEN Phrase(w) ELSE Word(w)>> \o IF mode = "prefix" THEN <<Sign("*")>> ELSE <<>>,
             {[value |-> w, mode |-> mode]})
    /\ hlDue' = FALSE /\ UNCHANGED hlDepth

\* NEAR(first second, distance), the distance may be absent.
LookNear(first, second, distance) ==
    /\ Operand
    /\ Write(<<Word("NEAR"), Sign("("), Word(first), Phrase(second)>>
               \o (IF distance = {} THEN <<>> ELSE <<Sign(",")>> \o SetToSeq({Word(n) : n \in distance}))
               \o <<Sign(")")>>,
             {[value |-> w, mode |-> "exact"] : w \in {first, second}})
    /\ hlDue' = FALSE /\ UNCHANGED hlDepth

\* The operand that follows is looked for in these columns only.
LookIn(columns) ==
    /\ Operand /\ columns # {}
    /\ \E braced \in BOOLEAN :
        /\ Cardinality(columns) > 1 => braced
        /\ LET names == SetToSeq({Word(c) : c \in columns}) IN
           Write((IF braced THEN <<Sign("{")>> \o names \o <<Sign("}")>> ELSE names) \o <<Sign(":")>>, {})
    /\ hlDue' = TRUE /\ UNCHANGED hlDepth

OpenParenthesis ==
    /\ hlDue /\ Write(<<Sign("(")>>, {})
    /\ hlDepth' = hlDepth + 1 /\ UNCHANGED hlDue

CloseParenthesis ==
    /\ ~hlDue /\ hlDepth > 0 /\ Write(<<Sign(")")>>, {})
    /\ hlDepth' = hlDepth - 1 /\ UNCHANGED hlDue

Join(operator) ==
    /\ ~hlDue /\ Write(<<Word(operator)>>, {})
    /\ hlDue' = TRUE /\ UNCHANGED hlDepth

HlInit == hlQuery = <<>> /\ hlSought = {} /\ hlDepth = 0 /\ hlDue = TRUE /\ hlPieces = 0

HlNext ==
    \/ \E w \in HlWords, quoted \in BOOLEAN, mode \in {"exact", "prefix"} : LookFor(w, quoted, mode)
    \/ \E w \in HlWords, v \in HlWords, distance \in {{}} \union {{n} : n \in Numbers} : LookNear(w, v, distance)
    \/ \E columns \in SUBSET Columns : LookIn(columns)
    \/ OpenParenthesis \/ CloseParenthesis
    \/ \E operator \in Operators : Join(operator)

HlSpec == HlInit /\ [][HlNext]_hlVars

----------------------------------------------------------------------------
\* What is marked is what the query looks for.

HlTypeOK ==
    /\ hlQuery \in Seq(Tokens) /\ hlDepth \in Nat /\ hlDue \in BOOLEAN
    /\ hlSought \subseteq [value : HlWords, mode : {"exact", "prefix"}]
    /\ hlPieces \in 0..MaxPieces

\* The words and phrases marked in the articles are those the query looks
\* for, the short ones left out: no column, operator or distance is marked
\* and no operand is missed, however the pieces are nested
\* (tests/fts-highlight.test.tsx: NEAR operands, syntax left out).
MarksWhatIsSought == Highlights(hlQuery) = hlSought \intersect HlTerms
=============================================================================
