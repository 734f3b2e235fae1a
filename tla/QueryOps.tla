------------------------------ MODULE QueryOps ------------------------------
(***************************************************************************)
(* The pure parts of the queries: sorted docid sets, position arithmetic,  *)
(* wildcard and regular expression matching                                *)
(* (core/src/query/docid_set_ops.cpp, wildcard_query.cpp,                  *)
(* regexp_query.cpp, core/include/snii/query/internal/position_math.h).    *)
(*                                                                         *)
(* A pattern is a term in which the bytes below stand for operators.       *)
(***************************************************************************)
EXTENDS Encoding

CONSTANT MaxPosition     \* the largest position (UINT32_MAX)

Star == 42
Question == 63
Dot == 46
Bar == 124
Caret == 94

(***************************************************************************)
(* Sorted docid lists.                                                     *)
(***************************************************************************)
IntersectSorted(a, b) == SelectSeq(a, LAMBDA d : d \in ToSet(b))

\* The merge of several lists, each document once; one list alone as it is.
UnionSortedMany(lists) ==
  LET some == SelectSeq(lists, LAMBDA l : l # <<>>)
  IN  IF Len(some) = 1 THEN some[1]
      ELSE Sorted(UNION {ToSet(some[i]) : i \in 1..Len(some)})

(***************************************************************************)
(* Positions.                                                              *)
(***************************************************************************)
\* Fault: the sum wraps around.
BadAddPositionOffset(start, offset) == (start + offset) % (MaxPosition + 1)
AddPositionOffset(start, offset) ==
  IF start > MaxPosition - offset THEN Err ELSE start + offset

\* The starts of a phrase: spans[t] are the positions of its t-th term.
PhraseStarts(spans) ==
  {s \in spans[1] : \A t \in 2..Len(spans) :
     LET want == AddPositionOffset(s, t - 1) IN want # Err /\ want \in spans[t]}

(***************************************************************************)
(* Wildcards.                                                              *)
(***************************************************************************)
\* The bytes of a pattern before the first one for which Stop holds.
UpTo(pattern, Stop(_)) ==
  LET at == {i \in 1..Len(pattern) : Stop(pattern[i])}
  IN  IF at = {} THEN pattern ELSE SubSeq(pattern, 1, Min(at) - 1)

LiteralPrefixForWildcard(pattern) == UpTo(pattern, LAMBDA c : c \in {Star, Question})

\* A row of the table: the lengths i for which the first i bytes of the text
\* match the pattern up to and including c, from the row before.
WildcardRow(prev, c, text) ==
  LET n == Len(text)
  IN  IF c = Star THEN {i \in 0..n : \E j \in 0..i : j \in prev}
      ELSE {i \in 1..n : (i - 1) \in prev /\ c \in {Question, text[i]}}

WildcardMatch(pattern, text) ==
  Len(text) \in Fold(LAMBDA prev, c : WildcardRow(prev, c, text), {0}, pattern)

(***************************************************************************)
(* Regular expressions.                                                    *)
(***************************************************************************)
IsRegexMetachar(c) == c \in {Star, Question, Dot, Bar, Caret}

LiteralPrefixForRegex(pattern) ==
  UpTo(IF pattern # <<>> /\ Head(pattern) = Caret THEN Tail(pattern) ELSE pattern,
       IsRegexMetachar)

\* External: std::regex over the operators above.  A quantifier needs
\* something to repeat; an anchor in the middle never matches.
RegexValid(pattern) ==
  \A i \in 1..Len(pattern) :
    pattern[i] \in {Star, Question} => i > 1 /\ pattern[i - 1] \notin {Star, Question, Bar, Caret}

RECURSIVE BranchMatch(_, _)
BranchMatch(p, text) ==
  LET One == text # <<>> /\ p[1] # Caret /\ p[1] \in {Dot, Head(text)}
  IN  IF p = <<>> THEN text = <<>>
      ELSE IF Len(p) > 1 /\ p[2] \in {Star, Question}
      THEN \/ BranchMatch(SubSeq(p, 3, Len(p)), text)
           \/ One /\ BranchMatch(IF p[2] = Star THEN p ELSE SubSeq(p, 3, Len(p)), Tail(text))
      ELSE One /\ BranchMatch(Tail(p), Tail(text))

\* External: std::regex_match, of the whole text by one of the branches.
RegexMatch(pattern, text) ==
  LET bars == {0, Len(pattern) + 1} \cup {i \in 1..Len(pattern) : pattern[i] = Bar}
      Branch(i) == SubSeq(pattern, i + 1, Min({j \in bars : j > i}) - 1)
      Plain(p) == IF p # <<>> /\ Head(p) = Caret THEN Tail(p) ELSE p
  IN  \E i \in bars \ {Len(pattern) + 1} : BranchMatch(Plain(Branch(i)), text)

=============================================================================
