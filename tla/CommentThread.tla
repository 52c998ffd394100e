----------------------------- MODULE CommentThread -----------------------------
(***************************************************************************)
(* Reading the comments of one story: the breadth-first walk of            *)
(* src/src/hn/client.ts over the items of the Hacker News API, its         *)
(* retries, and the transaction of src/src/ingestion/comments.ts that      *)
(* stores what was found.                                                  *)
(*                                                                         *)
(* The thread is given by the lists of kids the API hands out; an item may *)
(* be listed twice, and names as its parent the one it was found under.    *)
(* What an item is when it is asked for is open at every request: a        *)
(* comment may be deleted between two, or two collections of the story.  A *)
(* collection that runs beside another one differs from one that runs      *)
(* after it only in what the API answers.                                  *)
(***************************************************************************)
EXTENDS Integers, Sequences, FiniteSets, Subsequences

CONSTANTS
    Items,        \* ids of comments
    StoryItem,    \* the id of the story
    Threads,      \* functions from ids to the sequences of their kids
    Concurrency, Retries,
    Collections   \* bound: how often the story is collected

ASSUME ThreadAssumption ==
    /\ StoryItem \notin Items
    /\ Threads \subseteq [Items \cup {StoryItem} -> Seq(Items)]
    /\ {Concurrency, Collections} \subseteq Nat \ {0} /\ Retries \in Nat

VARIABLES
    kids,      \* the thread
    pending,   \* [id, parent] still to be visited, in order
    visited,
    batch,     \* requests in flight, by their place in the batch
    found,     \* what the walk has found: [id, parent, what], in order
    comment,   \* the table comments: by id, its row or NoRow
    collected  \* collections so far

threadVars == <<kids, pending, visited, batch, found, comment, collected>>

-----------------------------------------------------------------------------

\* "text" and "blank" are comments, the latter without text once its markup
\* is gone; "other" is an item of another type; "deleted" is deleted or dead
Answers == {"text", "blank", "deleted", "other", "null"}

\* "unreachable": timeouts, broken connections and HTTP errors
Errors == {"unreachable", "invalid"}

NoRow == [state |-> "none"]

\* link: parent_comment_id, as the id of the row it refers to
CommentRow == [state : {"text", "blank", "deleted"},
               parent : Items \cup {StoryItem}, link : Items \cup {StoryItem}]

ItemRequests == [id : Items, parent : Items \cup {StoryItem}, attempt : 0 .. Retries,
             what : Answers \cup {"asking", "failed"}]

ThreadTypeOK ==
    /\ kids \in Threads
    /\ \A i \in DOMAIN pending : /\ pending[i].id \in Items
                                 /\ pending[i].parent \in Items \cup {StoryItem}
    /\ visited \subseteq Items
    /\ Len(batch) <= Concurrency
    /\ \A i \in DOMAIN batch : batch[i] \in ItemRequests
    /\ \A i \in DOMAIN found : found[i].id \in visited
    /\ comment \in [Items -> CommentRow \cup {NoRow}]
    /\ collected \in 0 .. Collections

KidsOf(id) == [i \in DOMAIN kids[id] |-> [id |-> kids[id][i], parent |-> id]]

ThreadInit ==
    /\ kids \in Threads
    /\ pending = KidsOf(StoryItem)
    /\ visited = {}
    /\ batch = <<>>
    /\ found = <<>>
    /\ comment = [i \in Items |-> NoRow]
    /\ collected = 0

-----------------------------------------------------------------------------

\* the entries that were not visited before, nor earlier in the same batch
Unvisited(entries) ==
    EntriesAt(entries, {i \in DOMAIN entries :
                           /\ entries[i].id \notin visited
                           /\ \A j \in 1 .. i - 1 : entries[j].id # entries[i].id})

TakeBatch ==
    LET size  == IF Len(pending) < Concurrency THEN Len(pending) ELSE Concurrency
        taken == Unvisited(SubSeq(pending, 1, size))
    IN
    /\ pending # <<>> /\ batch = <<>> /\ collected < Collections
    /\ pending' = SubSeq(pending, size + 1, Len(pending))
    /\ visited' = visited \cup {taken[i].id : i \in DOMAIN taken}
    /\ batch' = [i \in DOMAIN taken |->
                    [id |-> taken[i].id, parent |-> taken[i].parent,
                     attempt |-> 0, what |-> "asking"]]
    /\ UNCHANGED <<kids, found, comment, collected>>

\* isRetryable: not an answer that cannot be understood
AfterRequestError(request, error) ==
    IF error = "invalid" \/ request.attempt = Retries
    THEN [request EXCEPT !.what = "failed"]
    ELSE [request EXCEPT !.attempt = @ + 1]

\* one fetch of an item, and the schema it is parsed by
Request ==
    \E i \in DOMAIN batch :
        /\ batch[i].what = "asking"
        /\ \/ \E a \in Answers : batch' = [batch EXCEPT ![i].what = a]
           \/ \E e \in Errors :
                 batch' = [batch EXCEPT ![i] = AfterRequestError(@, e)]
        /\ UNCHANGED <<kids, pending, visited, found, comment, collected>>

HasKids(what) == what \in {"text", "blank", "deleted"}

\* the kids of what was found are visited after all that is pending
Enqueued ==
    LET upTo[n \in 0 .. Len(batch)] ==
            IF n = 0 THEN pending
            ELSE IF HasKids(batch[n].what) THEN upTo[n - 1] \o KidsOf(batch[n].id)
                                           ELSE upTo[n - 1]
    IN  upTo[Len(batch)]

\* all answers of a batch are looked at together, in the order of the batch
ReadBatch ==
    /\ batch # <<>>
    /\ \A i \in DOMAIN batch : batch[i].what # "asking"
    /\ found' = found \o [i \in DOMAIN batch |->
                    [id |-> batch[i].id, parent |-> batch[i].parent,
                     what |-> batch[i].what]]
    /\ pending' = Enqueued
    /\ batch' = <<>>
    /\ UNCHANGED <<kids, visited, comment, collected>>

-----------------------------------------------------------------------------

\* comments first, then the deleted and dead ones
Normalized ==
    EntriesAt(found, {i \in DOMAIN found : found[i].what \in {"text", "blank"}})
        \o EntriesAt(found, {i \in DOMAIN found : found[i].what = "deleted"})

\* mutant: each row is linked when it is stored
LinkedOnInsert(rows, i) ==
    IF \E j \in 1 .. i : rows[j].id = rows[i].parent THEN rows[i].parent
                                                    ELSE StoryItem

\* all rows are stored first; a comment's parent may come after it
Linked(rows, i) ==
    IF \E j \in DOMAIN rows : rows[j].id = rows[i].parent THEN rows[i].parent
                                                         ELSE StoryItem

\* ingestStoryComments after the walk, and saveComments, one transaction;
\* StoryItem as a link stands for none
SaveComments ==
    LET rows == Normalized IN
    /\ pending = <<>> /\ batch = <<>> /\ collected < Collections
    /\ comment' = [id \in Items |->
          IF \E i \in DOMAIN rows : rows[i].id = id
          THEN LET i == CHOOSE i \in DOMAIN rows : rows[i].id = id
               IN [state |-> rows[i].what, parent |-> rows[i].parent,
                   link |-> Linked(rows, i)]
          ELSE comment[id]]
    /\ collected' = collected + 1
    /\ pending' = IF collected' < Collections THEN KidsOf(StoryItem) ELSE <<>>
    /\ visited' = {}
    /\ found' = <<>>
    /\ UNCHANGED <<kids, batch>>

ThreadNext == TakeBatch \/ Request \/ ReadBatch \/ SaveComments

ThreadSpec == ThreadInit /\ [][ThreadNext]_threadVars

-----------------------------------------------------------------------------

FoundAs(id) == {found[i].what : i \in {j \in DOMAIN found : found[j].id = id}}

\* An item is asked for once and found once, whoever lists it, and when the
\* walk is over every kid of the story and of a comment that was found,
\* deleted or not, has been asked for.
WalkIsComplete ==
    /\ \A i, j \in DOMAIN found : found[i].id = found[j].id => i = j
    /\ (pending = <<>> /\ batch = <<>>) =>
          \A id \in Items \cup {StoryItem} :
              \/ id = StoryItem /\ collected < Collections
              \/ id \in Items /\ FoundAs(id) \cap {"text", "blank", "deleted"} # {}
              => \A i \in DOMAIN kids[id] : FoundAs(kids[id][i]) # {}

\* A stored comment is linked to the row of its parent, deleted or not and
\* in whichever order they were stored; only top comments have no link.
ThreadIsLinked ==
    \A id \in Items :
        comment[id] # NoRow => comment[id].link = comment[id].parent

\* Every collection ends, though items list each other and requests fail.
WalkEnds == <>[](batch = <<>> /\ (visited = {} \/ collected = Collections))

\* What a collection leaves in the table is the thread: all of it, each
\* comment once and under its parent (getCommentDescendants, saveComments).
ThreadIsWhole == ThreadTypeOK /\ WalkIsComplete /\ ThreadIsLinked

==============================================================================
