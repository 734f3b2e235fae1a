--------------------------- MODULE SelectiveWand ---------------------------
(***************************************************************************)
(* scoring_query_wand_selective: the WAND loop of WandQuery over lazily    *)
(* fetched windows.  A LazyTermCursor starts from the prelude alone; the   *)
(* postings of a window are zero until MaterializeWindow reads it, so a    *)
(* posting looked at too early gives docid 0.                              *)
(***************************************************************************)
EXTENDS Integers, Sequences, FiniteSets, FiniteSetsExt

CONSTANTS NumDocs, Terms, MaxTf, Norms, Idf, SlimDf, WindowDocs, Queries, Ks

ASSUME SelectiveAssumption ==
    /\ NumDocs \in Nat \ {0} /\ SlimDf \in Nat \ {0} /\ WindowDocs \in Nat \ {0}
    /\ \A q \in Queries : q \in Seq(Terms)

VARIABLES
    corpus, query, k, phase, heap, out, offered,  \* as in WandQuery
    lazy      \* the LazyTermCursors, by position of the term in the query

vars == <<corpus, query, k, phase, heap, out, offered, lazy>>

\* The cursors of the eager path: all postings there from the start.
EagerCursors ==
    [i \in DOMAIN lazy |-> [postings |-> lazy[i].full, windows |-> lazy[i].windows,
                            pos |-> lazy[i].pos]]

\* The eager path reads everything first, so a read that fails later is no step
\* of it: the query just stays where it was.
EagerPhase == IF phase = "error" /\ lazy # <<>> THEN "loop" ELSE phase

Eager == INSTANCE WandQuery WITH cursors <- EagerCursors, phase <- EagerPhase

----------------------------------------------------------------------------
(* One cursor.  full is what the file holds; reads is history: the windows
   fetched, in order. *)

Unread == [docid |-> 0, score |-> 0]

TotalPostings(c) == c.win_start[Len(c.win_start)]

\* The window that holds posting p (postings count from 1, offsets from 0).
WindowOf(c, p) == Max({w \in DOMAIN c.windows : c.win_start[w] < p})

\* Fault: the fetched flag is not looked at.
BadMaterializeWindow(c, w) ==
    [c EXCEPT !.postings = [p \in DOMAIN @ |->
                   IF WindowOf(c, p) = w THEN c.full[p] ELSE @[p]],
              !.fetched[w] = TRUE,
              !.reads = Append(@, w)]

MaterializeWindow(c, w) ==
    IF c.fetched[w] THEN c
    ELSE [c EXCEPT !.postings = [p \in DOMAIN @ |->
                         IF WindowOf(c, p) = w THEN c.full[p] ELSE @[p]],
                   !.fetched[w] = TRUE,
                   !.reads = Append(@, w)]

\* LazyCurrentDoc reads the window under the cursor before it looks at it.
Touch(c) ==
    IF c.pos > TotalPostings(c) THEN c ELSE MaterializeWindow(c, WindowOf(c, c.pos))

\* Fault: the landing window is searched without being read.
BadLazySkipTo(c, target) ==
    LET ahead == {p \in c.pos..TotalPostings(c) : c.postings[p].docid >= target}
    IN  [c EXCEPT !.pos = IF ahead = {} THEN TotalPostings(c) + 1 ELSE Min(ahead)]

\* Whole windows that end before target are passed unread; then the landing
\* window is read and walked.
LazySkipTo(c, target) ==
    LET landing == {w \in DOMAIN c.windows :
                      c.win_start[w + 1] >= c.pos /\ c.windows[w].last >= target}
    IN  IF landing = {} THEN [c EXCEPT !.pos = TotalPostings(c) + 1]
        ELSE LET w     == Min(landing)
                 start == Max({c.pos, c.win_start[w] + 1})
                 m     == MaterializeWindow(c, w)
                 ahead == {p \in start..TotalPostings(c) : m.postings[p].docid >= target}
             IN  [m EXCEPT !.pos = IF ahead = {} THEN TotalPostings(c) + 1 ELSE Min(ahead)]

----------------------------------------------------------------------------
(* The query. *)

Init ==
    /\ corpus \in [tf : [Terms -> [Eager!Docs -> 0..MaxTf]], norm : [Eager!Docs -> Norms]]
    /\ query \in Queries /\ k \in Ks
    /\ phase = "start" /\ lazy = <<>> /\ heap = {} /\ out = <<>> /\ offered = <<>>

AskForNone ==
    /\ phase = "start" /\ k = 0
    /\ phase' = "done"
    /\ UNCHANGED <<corpus, query, k, lazy, heap, out, offered>>

\* A windowed cursor from its prelude alone; win_start is the prefix sum of the
\* windows' document counts.
BuildLazyWindowed(t) ==
    LET bounds == Eager!BuildWindowBounds(t)
        total  == Eager!Df(t)
    IN  [windows |-> bounds, full |-> Eager!Postings(t),
         postings |-> [p \in 1..total |-> Unread],
         win_start |-> [w \in 1..(Len(bounds) + 1) |-> Min({(w - 1) * WindowDocs, total})],
         fetched |-> [w \in DOMAIN bounds |-> FALSE], pos |-> 1, reads |-> <<>>]

\* A slim or inline term is read at once.
BuildLazySlim(t) ==
    [windows |-> Eager!SingleWindowFallback(t), full |-> Eager!Postings(t),
     postings |-> Eager!Postings(t), win_start |-> <<0, Eager!Df(t)>>,
     fetched |-> <<TRUE>>, pos |-> 1, reads |-> <<>>]

SelectiveBuildCursors ==
    /\ phase = "start" /\ k # 0
    /\ lazy' = [i \in Eager!Found |->
          IF Eager!Windowed(query[i]) THEN BuildLazyWindowed(query[i])
          ELSE BuildLazySlim(query[i])]
    /\ phase' = "loop"
    /\ UNCHANGED <<corpus, query, k, heap, out, offered>>

BuildFails ==
    /\ phase = "start" /\ k # 0 /\ Eager!Found # {}
    /\ phase' = "error"
    /\ UNCHANGED <<corpus, query, k, lazy, heap, out, offered>>

Theta == Eager!Threshold(heap)

\* SelectiveSortByDoc first reads the window under every cursor.
Touched == [i \in DOMAIN lazy |-> Touch(lazy[i])]

\* Fault: the cursors on the scored document do not move on.
BadSelectiveScorePivot(cs, d) ==
    /\ heap' = Eager!Offer(heap, [docid |-> d, score |-> Eager!ScoreAt(cs, d)])
    /\ lazy' = cs
    /\ offered' = Append(offered, d)
    /\ UNCHANGED <<corpus, query, k, phase, out>>

SelectiveScorePivot(cs, d) ==
    /\ heap' = Eager!Offer(heap, [docid |-> d, score |-> Eager!ScoreAt(cs, d)])
    /\ lazy' = [i \in DOMAIN cs |->
          IF i \in Eager!At(cs, d) THEN [cs[i] EXCEPT !.pos = @ + 1] ELSE cs[i]]
    /\ offered' = Append(offered, d)
    /\ UNCHANGED <<corpus, query, k, phase, out>>

SelectiveAdvanceLagging(cs, first, d) ==
    /\ lazy' = [cs EXCEPT ![first] = LazySkipTo(@, d)]
    /\ UNCHANGED <<corpus, query, k, phase, heap, out, offered>>

SelectiveDone(cs) ==
    /\ phase' = "done" /\ out' = Eager!DrainSorted(heap)
    /\ lazy' = cs
    /\ UNCHANGED <<corpus, query, k, heap, offered>>

\* SelectiveStep: sort, pick the pivot, then score it, move the first cursor up
\* to it, or end.
SelectiveStep ==
    /\ phase = "loop"
    /\ LET cs == Touched IN
       \E o \in Eager!Sorted(cs) :
          LET ps == Eager!Pivots(cs, o, Theta) IN
          \/ /\ ps = {}
             /\ SelectiveDone(cs)
          \/ /\ ps # {}
             /\ LET d == Eager!CurrentDoc(cs[o[Min(ps)]]) IN
                IF Eager!CurrentDoc(cs[o[1]]) = d THEN SelectiveScorePivot(cs, d)
                ELSE SelectiveAdvanceLagging(cs, o[1], d)

\* The windows the step has read once its cursors are lcs.
Reads(lcs) == \E i \in DOMAIN lcs : lcs[i].reads # lazy[i].reads

\* Some window the step needs cannot be read: the error is returned.
FetchFails ==
    /\ phase = "loop"
    /\ LET cs == Touched IN
       \/ Reads(cs)
       \/ \E o \in Eager!Sorted(cs) :
             LET ps == Eager!Pivots(cs, o, Theta) IN
             /\ ps # {}
             /\ LET d == Eager!CurrentDoc(cs[o[Min(ps)]]) IN
                /\ Eager!CurrentDoc(cs[o[1]]) < d
                /\ Reads([cs EXCEPT ![o[1]] = LazySkipTo(@, d)])
    /\ phase' = "error"
    /\ UNCHANGED <<corpus, query, k, heap, out, offered, lazy>>

Next == AskForNone \/ SelectiveBuildCursors \/ BuildFails \/ SelectiveStep \/ FetchFails

Spec == Init /\ [][Next]_vars

----------------------------------------------------------------------------
(* Properties. *)

\* Lazy windows, window skipping and the sparse posting array are invisible:
\* pivots, alignments, offers and the result are those of scoring_query_wand.
ImplementsEager == Eager!Spec

\* The postings no cursor has passed yet.
Remaining ==
    SumFunction([i \in DOMAIN lazy |-> TotalPostings(lazy[i]) + 1 - lazy[i].pos])

\* Every iteration that does not end the loop moves a cursor forward, although
\* it may only have sorted, read and skipped: the loop ends.
Progress == [][phase = "loop" /\ phase' = "loop" => Remaining' < Remaining]_vars

\* A cursor reads each of its windows at most once.
FetchedOnce ==
    \A i \in DOMAIN lazy : \A a, b \in DOMAIN lazy[i].reads :
        lazy[i].reads[a] = lazy[i].reads[b] => a = b
============================================================================
