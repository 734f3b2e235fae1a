----------------------------- MODULE WandQuery -----------------------------
(***************************************************************************)
(* scoring_query_wand: top-k BM25 retrieval, one document at a time, over  *)
(* per-window upper bounds (block-max).  One step of the loop is one       *)
(* iteration of the code's while(true).                                    *)
(*                                                                         *)
(* Scores are naturals: BM25 with b = k1 = avgdl = 1 and fixed-point idf,  *)
(* which keeps what the bounds rely on (monotone in tf, antitone in the    *)
(* norm) and makes ties, the delicate case, frequent.                      *)
(***************************************************************************)
EXTENDS Integers, Sequences, FiniteSets, FiniteSetsExt

CONSTANTS
    NumDocs,     \* docids are 0..NumDocs-1
    Terms,       \* the terms of the index
    MaxTf,       \* bound: largest term frequency
    Norms,       \* encoded norms a document may have
    Idf,         \* idf of a term with document frequency 1..NumDocs
    SlimDf,      \* df below which a term has one (slim) window
    WindowDocs,  \* documents per window of a windowed term
    Queries,     \* the term lists that are asked for
    Ks           \* the k that are asked for

Docs == 0..(NumDocs - 1)
NoDoc == NumDocs      \* UINT32_MAX: the docid of an exhausted cursor

ASSUME WandAssumption ==
    /\ NumDocs \in Nat \ {0} /\ SlimDf \in Nat \ {0} /\ WindowDocs \in Nat \ {0}
    /\ Norms \subseteq Nat \ {0} /\ Norms # {}
    /\ MaxTf \in Nat /\ \A df \in 1..NumDocs : Idf[df] \in Nat
    /\ \A q \in Queries : q \in Seq(Terms)
    /\ Ks \subseteq Nat

VARIABLES
    corpus,   \* the index: term frequencies and norms
    query,    \* terms
    k,        \* k
    phase,    \* "start", "loop", "done" (OK returned) or "error"
    cursors,  \* the TermCursors, by position of the term in the query
    heap,     \* TopK::heap_
    out,      \* *out
    offered   \* history: the documents offered to the heap, in order

vars == <<corpus, query, k, phase, cursors, heap, out, offered>>

----------------------------------------------------------------------------
(* The index side: exact scores, windows and their bounds. *)

DocsOf(t) == {d \in Docs : corpus.tf[t][d] > 0}
Df(t) == Cardinality(DocsOf(t))

\* The elements of a finite set of numbers, ascending.
Ascending(S) ==
    [i \in 1..Cardinality(S) |-> CHOOSE d \in S : Cardinality({e \in S : e < d}) = i - 1]

DocSeq(t) == Ascending(DocsOf(t))

\* ScorerContext::score: grows with tf, shrinks with the document's length.
Score(t, tf, norm) == (Idf[Df(t)] * tf) \div (tf + norm)

DocScore(t, d) == Score(t, corpus.tf[t][d], corpus.norm[d])

\* ScoreDecoded: every posting of a term with its exact score.
Postings(t) == [i \in 1..Df(t) |->
                  [docid |-> DocSeq(t)[i], score |-> DocScore(t, DocSeq(t)[i])]]

Windowed(t) == Df(t) >= SlimDf

\* The documents of each window, cut every WindowDocs postings.
WindowsOf(t) ==
    [w \in 1..((Df(t) + WindowDocs - 1) \div WindowDocs) |->
        LET first == (w - 1) * WindowDocs + 1
        IN  SubSeq(DocSeq(t), first, Min({first + WindowDocs - 1, Df(t)}))]

\* Fault: the block-max columns are taken from the window's last document.
BadBlockMax(t, docs) == DocScore(t, docs[Len(docs)])

\* max_score(max_freq, max_norm): the window's largest tf with the smallest
\* norm, which may belong to different documents.
BlockMax(t, docs) ==
    Score(t, Max({corpus.tf[t][d] : d \in Range(docs)}),
             Min({corpus.norm[d] : d \in Range(docs)}))

\* BuildWindowBounds, from the prelude of a windowed term.
BuildWindowBounds(t) ==
    [w \in DOMAIN WindowsOf(t) |->
        [last |-> WindowsOf(t)[w][Len(WindowsOf(t)[w])], max |-> BlockMax(t, WindowsOf(t)[w])]]

\* One window over all postings, bounded by the largest exact score.
SingleWindowFallback(t) ==
    <<[last |-> DocSeq(t)[Df(t)], max |-> Max({DocScore(t, d) : d \in DocsOf(t)})]>>

\* What BuildCursor may give: a failed read of the prelude alone is not an
\* error, the cursor then falls back to one window.
CursorWindows(t) ==
    (IF Windowed(t) THEN {BuildWindowBounds(t)} ELSE {}) \cup {SingleWindowFallback(t)}

----------------------------------------------------------------------------
(* Cursors. *)

CurrentDoc(c) == IF c.pos <= Len(c.postings) THEN c.postings[c.pos].docid ELSE NoDoc

\* The bound of the first window that ends at or after d; 0 past the last.
TermBoundAt(c, d) ==
    LET reach == {w \in DOMAIN c.windows : d <= c.windows[w].last}
    IN  IF reach = {} THEN 0 ELSE c.windows[Min(reach)].max

\* std::sort by current docid; it is not stable, so ties come in any order.
Sorted(cs) ==
    {o \in Bijection(1..Cardinality(DOMAIN cs), DOMAIN cs) :
        \A i \in 1..(Len(o) - 1) : CurrentDoc(cs[o[i]]) <= CurrentDoc(cs[o[i + 1]])}

BoundUpTo(cs, o, i) ==
    SumFunction([j \in 1..i |-> TermBoundAt(cs[o[j]], CurrentDoc(cs[o[j]]))])

\* The places at which the summed bounds reach theta; the pivot is the first.
Pivots(cs, o, theta) ==
    {i \in 1..Len(o) : CurrentDoc(cs[o[i]]) # NoDoc /\ BoundUpTo(cs, o, i) >= theta}

At(cs, d) == {i \in DOMAIN cs : CurrentDoc(cs[i]) = d}

ScoreAt(cs, d) == SumFunction([i \in At(cs, d) |-> cs[i].postings[cs[i].pos].score])

\* The walk of a lagging cursor to the first posting at or after d.
SkipTo(c, d) ==
    LET ahead == {p \in c.pos..Len(c.postings) : c.postings[p].docid >= d}
    IN  [c EXCEPT !.pos = IF ahead = {} THEN Len(c.postings) + 1 ELSE Min(ahead)]

----------------------------------------------------------------------------
(* TopK. *)

Better(a, b) == a.score > b.score \/ (a.score = b.score /\ a.docid < b.docid)

Worst(h) == CHOOSE e \in h : \A f \in h \ {e} : Better(f, e)

\* Fault: the new entry displaces the worst one whatever its score.
BadOffer(h, e) ==
    IF Cardinality(h) < k THEN h \cup {e} ELSE (h \ {Worst(h)}) \cup {e}

\* offer() with k > 0; the code's h is never empty then once it holds k.
Offer(h, e) ==
    IF Cardinality(h) < k THEN h \cup {e}
    ELSE IF Better(e, Worst(h)) THEN (h \ {Worst(h)}) \cup {e}
    ELSE h

Threshold(h) == IF Cardinality(h) < k THEN -1 ELSE Worst(h).score

\* Best first.  No two entries of S have the same docid.
DrainSorted(S) ==
    [i \in 1..Cardinality(S) |-> CHOOSE e \in S : Cardinality({f \in S : Better(f, e)}) = i - 1]

----------------------------------------------------------------------------
(* The query. *)

Init ==
    /\ corpus \in [tf : [Terms -> [Docs -> 0..MaxTf]], norm : [Docs -> Norms]]
    /\ query \in Queries /\ k \in Ks
    /\ phase = "start" /\ cursors = <<>> /\ heap = {} /\ out = <<>> /\ offered = <<>>

\* k = 0 returns OK at once.
AskForNone ==
    /\ phase = "start" /\ k = 0
    /\ phase' = "done"
    /\ UNCHANGED <<corpus, query, k, cursors, heap, out, offered>>

\* The query positions whose term is in the index.
Found == {i \in DOMAIN query : DocsOf(query[i]) # {}}

BuildCursors ==
    /\ phase = "start" /\ k # 0
    /\ \E ws \in [Found -> UNION {CursorWindows(query[i]) : i \in Found}] :
          /\ \A i \in Found : ws[i] \in CursorWindows(query[i])
          /\ cursors' = [i \in Found |->
                [postings |-> Postings(query[i]), windows |-> ws[i], pos |-> 1]]
    /\ phase' = "loop"
    /\ UNCHANGED <<corpus, query, k, heap, out, offered>>

\* A read of a posting fails: the error is returned and out stays empty.
ReadFails ==
    /\ phase = "start" /\ k # 0 /\ Found # {}
    /\ phase' = "error"
    /\ UNCHANGED <<corpus, query, k, cursors, heap, out, offered>>

\* Fault: cursors that meet on the scored document do not move on.
BadScorePivot(o) ==
    /\ phase = "loop"
    /\ LET ps == Pivots(cursors, o, Threshold(heap)) IN
       /\ ps # {}
       /\ LET d == CurrentDoc(cursors[o[Min(ps)]]) IN
          /\ CurrentDoc(cursors[o[1]]) = d
          /\ heap' = Offer(heap, [docid |-> d, score |-> ScoreAt(cursors, d)])
          /\ cursors' = IF Cardinality(At(cursors, d)) > 1 THEN cursors
                        ELSE [cursors EXCEPT ![o[1]].pos = @ + 1]
          /\ offered' = Append(offered, d)
    /\ UNCHANGED <<corpus, query, k, phase, out>>

\* An iteration that finds every cursor before the pivot aligned: the document
\* is scored exactly and every cursor on it moves on.
ScorePivot(o) ==
    /\ phase = "loop"
    /\ LET ps == Pivots(cursors, o, Threshold(heap)) IN
       /\ ps # {}
       /\ LET d == CurrentDoc(cursors[o[Min(ps)]]) IN
          /\ CurrentDoc(cursors[o[1]]) = d
          /\ heap' = Offer(heap, [docid |-> d, score |-> ScoreAt(cursors, d)])
          /\ cursors' = [i \in DOMAIN cursors |->
                IF i \in At(cursors, d) THEN [cursors[i] EXCEPT !.pos = @ + 1]
                ELSE cursors[i]]
          /\ offered' = Append(offered, d)
    /\ UNCHANGED <<corpus, query, k, phase, out>>

\* Otherwise the first cursor, which is behind the pivot, is moved up to it.
AdvanceLagging(o) ==
    /\ phase = "loop"
    /\ LET ps == Pivots(cursors, o, Threshold(heap)) IN
       /\ ps # {}
       /\ LET d == CurrentDoc(cursors[o[Min(ps)]]) IN
          /\ CurrentDoc(cursors[o[1]]) < d
          /\ cursors' = [cursors EXCEPT ![o[1]] = SkipTo(@, d)]
    /\ UNCHANGED <<corpus, query, k, phase, heap, out, offered>>

\* No cursor has a document left, or no sum of bounds reaches the threshold.
Finish(o) ==
    /\ phase = "loop"
    /\ Pivots(cursors, o, Threshold(heap)) = {}
    /\ phase' = "done" /\ out' = DrainSorted(heap)
    /\ UNCHANGED <<corpus, query, k, cursors, heap, offered>>

Next ==
    \/ AskForNone \/ BuildCursors \/ ReadFails
    \/ \E o \in Sorted(cursors) : ScorePivot(o) \/ AdvanceLagging(o) \/ Finish(o)

Spec == Init /\ [][Next]_vars

----------------------------------------------------------------------------
(* scoring_query_exhaustive, the reference. *)

FullScore(d) ==
    SumFunction([i \in 1..Len(query) |->
        IF d \in DocsOf(query[i]) THEN DocScore(query[i], d) ELSE 0])

AllHits == {[docid |-> d, score |-> FullScore(d)] : d \in UNION {DocsOf(t) : t \in Range(query)}}

Truncate(s) == SubSeq(s, 1, Min({k, Len(s)}))

Exhaustive == Truncate(DrainSorted(AllHits))

----------------------------------------------------------------------------
(* Properties. *)

\* However cursors were skipped and re-sorted, documents are offered in strictly
\* ascending order, each with its full score over all query terms, and the heap
\* holds the best k of those offered (ties to the smaller docid).
HeapIsBestOfOffered ==
    /\ \A i, j \in DOMAIN offered : i < j => offered[i] < offered[j]
    /\ DrainSorted(heap) =
          Truncate(DrainSorted({h \in AllHits : h.docid \in Range(offered)}))

\* A term's later windows never bound higher than its earlier ones.
BoundsFall ==
    \A i \in DOMAIN cursors : \A v, w \in DOMAIN cursors[i].windows :
        v < w => cursors[i].windows[v].max >= cursors[i].windows[w].max

\* Pruning by the bounds of the current windows loses nothing when no term has
\* a later window with a higher bound (always so for one-window terms): the
\* ranking is the exhaustive one, ties included.
ExactWhenBoundsFall == phase = "done" /\ BoundsFall => out = Exhaustive

\* The postings no cursor has passed yet.
Remaining ==
    SumFunction([i \in DOMAIN cursors |-> Len(cursors[i].postings) + 1 - cursors[i].pos])

\* Every iteration that does not end the loop moves a cursor forward, although it
\* may only have sorted and skipped: the loop ends.
Progress == [][phase = "loop" /\ phase' = "loop" => Remaining' < Remaining]_vars

\* What the header promises: the same top-k as the exhaustive path.
SameTopK == phase = "done" => out = Exhaustive
============================================================================
