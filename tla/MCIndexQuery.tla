---------------------------- MODULE MCIndexQuery ----------------------------
(***************************************************************************)
(* Instances of IndexQuery for TLC: eight documents over four terms.       *)
(***************************************************************************)
EXTENDS IndexQuery

A == <<1>>
AA == <<1, 1>>
AB == <<1, 2>>
B == <<2>>
C == <<3>>

\* Documents: an occurrence per position; the last ones use both ends of the
\* position range.
dA == <<<<A, 0>>>>
dAB == <<<<A, 0>>, <<B, 1>>>>
dBA == <<<<B, 0>>, <<A, 1>>>>
dAAB == <<<<A, 0>>, <<A, 1>>, <<AB, 2>>>>
dWrap == <<<<B, 0>>, <<AA, 3>>, <<A, 7>>>>
dEnd == <<<<B, 1>>, <<A, 6>>, <<B, 7>>>>

\* Corpora of eight documents: s1 where d is in D, s2 elsewhere.
Mix(D, s1, s2) == [d \in 0..7 |-> IF d \in D THEN s1 ELSE s2]
Subsets == {{}, {0}, {0, 7}, {2, 3, 5}, 1..7}
Shapes == {<<dA, dAB>>, <<dBA, dAB>>, <<dWrap, dAAB>>, <<dEnd, <<>>>>, <<dAAB, dEnd>>}
Mixed == {Mix(D, s[1], s[2]) : D \in Subsets, s \in Shapes}

Cfg(tier, target, cap, resident_max, reader, rot) ==
  [tier |-> tier, target |-> target, cap |-> cap, resident_max |-> resident_max,
   reader |-> reader, rot |-> rot]
MCConfigs == {Cfg(3, 1000, 0, 1000, "s3", FALSE), Cfg(2, 1, 60, 0, "s3", FALSE),
              Cfg(1, 70, 1, 0, "local", FALSE)}
RotConfig == Cfg(3, 1, 0, 1000, "local", TRUE)

MCBuilds == [corpus : Mixed, cfg : MCConfigs]
            \cup [corpus : {[d \in 0..3 |-> IF d = 1 THEN dA ELSE dAAB]}, cfg : {RotConfig}]

Ask(kind, terms) == [kind |-> kind, terms |-> terms]
MCRotQueries == {Ask("or", <<A, AB>>), Ask("phrase", <<A, AB>>), Ask("prefix", <<A>>)}
Regexps == {<<Caret, 1, Dot, Star>>, <<1, Dot, Question>>, <<Dot, 2>>, <<Star>>}
MCQueries ==
  {Ask("term", <<t>>) : t \in {A, AB, C}}
  \cup {Ask("or", <<B, A, B>>), Ask("or", <<>>), Ask("or", <<AA, C>>)}
  \cup {Ask("and", <<A, B>>), Ask("and", <<B, C>>), Ask("and", <<A, AB, B>>)}
  \cup {Ask("phrase", <<A, B>>), Ask("phrase", <<A, A, AB>>), Ask("phrase", <<B>>)}
  \cup {Ask("phrase_prefix", <<A, A>>), Ask("phrase_prefix", <<A, B>>),
        Ask("phrase_prefix", <<A>>), Ask("phrase_prefix", <<B, C>>)}
  \cup {Ask("prefix", <<A>>), Ask("prefix", <<<<>>>>), Ask("prefix", <<C>>)}
  \cup {Ask("wildcard", <<<<1, Star>>>>), Ask("wildcard", <<<<Question, 2>>>>),
        Ask("wildcard", <<<<Star, 2, Star>>>>)}
  \cup {Ask("regexp", <<p>>) : p \in Regexps}
  \cup {Ask("posting", <<t>>) : t \in {A, B}}

MCCodecInputs == {<<>>, <<0>>, <<1, 1, 1>>, <<0, 0, 0, 900>>, <<0, 127, 128>>, <<300, 2, 70000, 3, 0>>,
                  <<255, 256, 16383, 16384, 2097152>>, [i \in 1..9 |-> 7 * i]}

Span(o, n) == [offset |-> o, len |-> n]
MCRawFetches == {<<Span(0, 40), Span(10, 5), Span(44, 6), Span(120, 3), Span(90, 2)>>,
                 <<Span(70, 1), Span(30, 8), Span(30, 2), Span(0, 4)>>}

\* Patterns whose literal prefix is not a prefix of every match.
MCOpenRegexps == {Ask("regexp", <<p>>) : p \in {<<1, 2, Star>>, <<1, Bar, 2>>}}
MCOpenBuilds == [corpus : Mixed, cfg : {Cfg(2, 1, 60, 0, "local", FALSE)}]

=============================================================================
