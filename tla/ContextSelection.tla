---------------------------- MODULE ContextSelection ----------------------------
(***************************************************************************)
(* What of a story's comments and of its article the LLM gets to read: the *)
(* ranking and choice of comments (src/src/comments/ranking.ts), the       *)
(* choice of an article's blocks under a budget of tokens                  *)
(* (src/src/articles/selection.ts) and the choice of the comments that fit *)
(* the request (src/src/analysis/request.ts).  All three are pure; one     *)
(* step here is one call, on any of the inputs given.                      *)
(*                                                                         *)
(* What is chosen is a set; it is sent in the order of the ranking (Ahead) *)
(* or of the text.  A text stands for its length, how much of it is quoted *)
(* and which texts are the same but for case and blanks.  The tokens of    *)
(* joined pieces are the sum of their tokens.                              *)
(***************************************************************************)
EXTENDS Integers, Sequences, FiniteSets, SequencesExt, Subsequences

CONSTANTS
    Comments,        \* ids of comments, positive numbers
    Discussions,     \* functions from ids to [parent, text], text or NoText
    MaximumComments,
    Articles,        \* sequences of blocks [tokens, heading]
    ArticleTokens,   \* their budget
    CommentTokens,   \* the budget of comments in a request
    CommentSizes     \* sequences of the tokens of single comments

\* texts: characters, whether all is quoted
TextFacts == [short |-> [characters |-> 40, quoted |-> FALSE],
              long  |-> [characters |-> 200, quoted |-> FALSE],
              quote |-> [characters |-> 200, quoted |-> TRUE]]

NoText == "none"

ASSUME SelectionAssumption ==
    /\ Comments \subseteq Nat \ {0} /\ IsFiniteSet(Comments)
    /\ \A d \in Discussions : \A c \in Comments :
          d[c].parent \in Nat /\ d[c].text \in DOMAIN TextFacts \cup {NoText}
    /\ {MaximumComments, ArticleTokens, CommentTokens} \subseteq Nat \ {0}
    /\ Articles \subseteq Seq([tokens : Nat \ {0}, heading : BOOLEAN])
    /\ CommentSizes \subseteq Seq(Nat \ {0})

VARIABLES
    input,    \* what is to be chosen from
    chosen    \* what was chosen: comments, or places in the input

selectionVars == <<input, chosen>>

NothingChosen == {0}

Smaller(a, b) == IF a < b THEN a ELSE b

Larger(a, b) == IF a < b THEN b ELSE a

-----------------------------------------------------------------------------
(* Ranking: rankCandidates, treeFacts, selectComments; d is a discussion.  *)

\* neither deleted nor dead nor blank
Candidates(d) == {c \in Comments : d[c].text # NoText}

Replies(d, c) == {r \in Candidates(d) : d[r].parent = c}

\* the walk from a comment up through candidates, until one is met again
WalkUp(d, c) ==
    LET upTo[n \in 0 .. Cardinality(Comments)] ==
            IF n = 0 THEN <<c>>
            ELSE LET path   == upTo[n - 1]
                     parent == d[Last(path)].parent
                 IN  IF parent \in Candidates(d) /\ ~Contains(path, parent)
                     THEN Append(path, parent) ELSE path
    IN  upTo[Cardinality(Comments)]

Depth(d, c) == Len(WalkUp(d, c)) - 1

Root(d, c) == Last(WalkUp(d, c))

Descendants(d, c) == {r \in Candidates(d) \ {c} : Contains(WalkUp(d, r), c)}

Branch(d, c) == {b \in Candidates(d) : Root(d, b) = Root(d, c)}

Score(d, c) ==
    LET text       == TextFacts[d[c].text]
        duplicates == {o \in Candidates(d) : d[o].text = d[c].text}
    IN  Larger(0, 30 - 6 * Depth(d, c))
        + 3 * Smaller(Cardinality(Replies(d, c)), 5)
        + 4 * Smaller(Cardinality(Descendants(d, c)), 10)
        + Smaller(30, text.characters \div 40)
        + Smaller(20, 2 * Cardinality(Branch(d, c)))
        - (IF text.quoted THEN 30 ELSE 0)
        - (IF Cardinality(duplicates) > 1 THEN 35 ELSE 0)

Ahead(d, c, o) ==
    Score(d, c) > Score(d, o) \/ (Score(d, c) = Score(d, o) /\ c < o)

\* the first n of a set as it is ranked
FirstOf(d, set, n) ==
    {c \in set : Cardinality({o \in set : Ahead(d, o, c)}) < n}

\* branches by their best comments, of two comments or 160 unquoted characters
BestOfBranches(d) ==
    {c \in Candidates(d) :
        /\ \A o \in Branch(d, c) \ {c} : Ahead(d, c, o)
        /\ \/ Cardinality(Branch(d, c)) >= 2
           \/ /\ ~TextFacts[d[c].text].quoted
              /\ TextFacts[d[c].text].characters >= 160}

\* mutant: the highest scores, whichever branch they are of
SelectedByScore(d) == FirstOf(d, Candidates(d), MaximumComments)

\* the best of each substantial branch, then as many others as there is room for
Selected(d) ==
    LET best == FirstOf(d, BestOfBranches(d), MaximumComments)
        room == MaximumComments - Cardinality(best)
    IN  best \cup FirstOf(d, Candidates(d) \ best, room)

-----------------------------------------------------------------------------
(* What fits a budget; s gives sizes.                                      *)

\* the size of the entries at the places in S
SizeOf(s, S) ==
    LET upTo[n \in 0 .. Len(s)] ==
            IF n = 0 THEN 0 ELSE upTo[n - 1] + (IF n \in S THEN s[n] ELSE 0)
    IN  upTo[Len(s)]

\* one place after the other, if it fits together with those taken before it
Fitting(s, order, budget) ==
    LET upTo[n \in 0 .. Len(order)] ==
            IF n = 0 THEN {}
            ELSE IF SizeOf(s, upTo[n - 1] \cup {order[n]}) <= budget
                 THEN upTo[n - 1] \cup {order[n]} ELSE upTo[n - 1]
    IN  upTo[Len(order)]

-----------------------------------------------------------------------------
(* Articles: priorityOrder and selectArticleContext; a is an article, its  *)
(* blocks are counted from 1.                                              *)

TokensOf(a) == [i \in DOMAIN a |-> a[i].tokens]

Distance(i, order) ==
    Min({Larger(i - order[k], order[k] - i) : k \in DOMAIN order})

\* of some blocks the one farthest away from those in the order
Farthest(rest, order) ==
    CHOOSE i \in rest : \A j \in rest \ {i} :
        \/ Distance(i, order) > Distance(j, order)
        \/ Distance(i, order) = Distance(j, order) /\ i < j

\* of an article with blocks the first one, the last, headings, then always
\* the one farthest away from all those before it
PriorityOrder(a) ==
    LET ends     == IF Len(a) > 1 THEN <<1, Len(a)>> ELSE <<1>>
        inner    == {i \in 2 .. Len(a) - 1 : a[i].heading}
        headings == EntriesAt([i \in DOMAIN a |-> i], inner)
        upTo[n \in 0 .. Len(a)] ==
            IF n = 0 THEN ends \o headings
            ELSE LET rest == DOMAIN a \ ToSet(upTo[n - 1])
                 IN  IF rest = {} THEN upTo[n - 1]
                     ELSE Append(upTo[n - 1], Farthest(rest, upTo[n - 1]))
    IN  upTo[Len(a)]

\* all blocks or those that fit, in the order of the text; an article of which
\* no block fits is cut off, which is {}
SelectedBlocks(a) ==
    IF SizeOf(TokensOf(a), DOMAIN a) <= ArticleTokens THEN DOMAIN a
    ELSE Fitting(TokensOf(a), PriorityOrder(a), ArticleTokens)

-----------------------------------------------------------------------------
(* Requests: selectCommentData; s gives the sizes of comments by rank.     *)

FittingComments(s) == Fitting(s, [i \in DOMAIN s |-> i], CommentTokens)

-----------------------------------------------------------------------------

SelectionInit ==
    /\ input \in [of : {"discussion"}, value : Discussions]
                  \cup [of : {"article"}, value : Articles]
                  \cup [of : {"request"}, value : CommentSizes]
    /\ chosen = NothingChosen

Select(of, choice) ==
    /\ input.of = of /\ chosen = NothingChosen
    /\ chosen' = choice
    /\ UNCHANGED input

SelectionNext ==
    \/ Select("discussion", Selected(input.value))
    \/ Select("article", SelectedBlocks(input.value))
    \/ Select("request", FittingComments(input.value))

SelectionSpec == SelectionInit /\ [][SelectionNext]_selectionVars

IsChosen(of) == input.of = of /\ chosen # NothingChosen

\* As many comments are chosen as may be, and a branch worth reading is left
\* out only if every place is taken by the best comment of a branch ahead of
\* its own; a long branch does not crowd out the others.
BranchesAreHeard ==
    IsChosen("discussion") =>
        LET d    == input.value
            best == BestOfBranches(d)
        IN  /\ chosen \subseteq Candidates(d)
            /\ Cardinality(chosen)
                  = Smaller(MaximumComments, Cardinality(Candidates(d)))
            /\ \A b \in best \ chosen :
                  \A c \in chosen : c \in best /\ Ahead(d, c, b)

\* The blocks chosen fit the budget, none that was left out would fit beside
\* them, and the opening block is there if it fits at all.
ArticleIsUsed ==
    IsChosen("article") =>
        LET a == input.value IN
        /\ SizeOf(TokensOf(a), chosen) <= ArticleTokens
        /\ \A i \in DOMAIN a \ chosen :
              SizeOf(TokensOf(a), chosen) + a[i].tokens > ArticleTokens
        /\ a # <<>> /\ a[1].tokens <= ArticleTokens => 1 \in chosen

\* The comments sent fit, one is left out only for those ahead of it, and the
\* request made again from the ids kept with the job has the same comments.
RequestIsFull ==
    IsChosen("request") =>
        LET s    == input.value
            kept == EntriesAt(s, chosen)
        IN  /\ SizeOf(s, chosen) <= CommentTokens
            /\ \A i \in DOMAIN s \ chosen :
                  SizeOf(s, {c \in chosen : c < i}) + s[i] > CommentTokens
            /\ FittingComments(kept) = DOMAIN kept

\* What the LLM reads is as much as its budgets admit, and from everywhere: of
\* a discussion, of an article, and of the comments that were ranked.
ContextIsFair == BranchesAreHeard /\ ArticleIsUsed /\ RequestIsFull

==============================================================================
