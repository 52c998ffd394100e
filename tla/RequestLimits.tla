----------------------------- MODULE RequestLimits -----------------------------
(***************************************************************************)
(* The limits on sign-ups (src/src/subscribers/rate-limit.ts) and on       *)
(* requests to the public API (src/src/public-api/rate-limit.ts): a row    *)
(* for each identity counts the requests of a window that is opened by the *)
(* first of them.  Both take the same transaction, a sign-up for the       *)
(* address it comes from and then for the e-mail address, a request to the *)
(* API for one identity; the tables are apart in the code and one here.    *)
(*                                                                         *)
(* A transaction deletes what has expired, whoever it belongs to, and then *)
(* takes an advisory lock for each identity and counts.  What it wrote is  *)
(* seen by the others after the commit; the rows it touched are locked     *)
(* until then.  PostgreSQL aborts one of the transactions that wait for    *)
(* each other (external).                                                  *)
(***************************************************************************)
EXTENDS Integers, Sequences, FiniteSets, SequencesExt

CONSTANTS
    Requests,
    IdentitiesOf,      \* by request, a sequence of identities
    Limit,
    Window,
    MaxDelay,          \* bound: a transaction ends this long after it began
    LastMoment         \* bound of the clock

Identities == UNION {ToSet(IdentitiesOf[r]) : r \in Requests}

ASSUME LimitsAssumption ==
    /\ {Limit, Window, MaxDelay, LastMoment} \subseteq Nat \ {0} /\ MaxDelay < Window
    /\ IsFiniteSet(Requests)
    /\ \A r \in Requests :
          /\ IdentitiesOf[r] \in Seq(ToSet(IdentitiesOf[r])) /\ IdentitiesOf[r] # <<>>
          /\ IsInjective(IdentitiesOf[r])

VARIABLES
    moment,
    limits,        \* the rows as committed; a count of 0 is no row
    rowLock,       \* by identity, the transactions (one at most) that hold its row
    identityLock,  \* by identity, who holds the advisory lock
    requests       \* what each request is at

limitVars == <<moment, limits, rowLock, identityLock, requests>>

NoLimit == [count |-> 0, expires |-> 0]

LimitRow == [count : 0 .. Cardinality(Requests), expires : 0 .. LastMoment + Window]

WrittenRows == UNION {[D -> LimitRow] : D \in SUBSET Identities}

CountedWindows == UNION {[D -> 1 .. LastMoment + Window] : D \in SUBSET Identities}

\* now: read before the transaction; left: identities to count for; writes: rows
\* not yet committed; windows: by identity, the end of the window counted in
LimitedRequest ==
    [at : {"idle", "deleting", "locking", "counting", "allowed", "refused", "aborted"},
     now : 0 .. LastMoment, left : Seq(Identities), allowed : BOOLEAN,
     writes : WrittenRows, windows : CountedWindows]

InTransaction(r) == requests[r].at \in {"deleting", "locking", "counting"}

LimitsTypeOK ==
    /\ moment \in 0 .. LastMoment
    /\ limits \in [Identities -> LimitRow]
    /\ {rowLock, identityLock} \subseteq [Identities -> SUBSET Requests]
    /\ \A k \in Identities :
          Cardinality(rowLock[k]) <= 1 /\ Cardinality(identityLock[k]) <= 1
    /\ requests \in [Requests -> LimitedRequest]
    /\ \A r \in Requests : InTransaction(r) => moment - requests[r].now <= MaxDelay

LimitsInit ==
    /\ moment = 0
    /\ limits = [k \in Identities |-> NoLimit]
    /\ rowLock = [k \in Identities |-> {}]
    /\ identityLock = [k \in Identities |-> {}]
    /\ requests = [r \in Requests |-> [at |-> "idle", now |-> 0, left |-> <<>>,
                      allowed |-> TRUE, writes |-> <<>>, windows |-> <<>>]]

MomentPasses ==
    /\ moment < LastMoment
    /\ \A r \in Requests : InTransaction(r) => moment < requests[r].now + MaxDelay
    /\ moment' = moment + 1
    /\ UNCHANGED <<limits, rowLock, identityLock, requests>>

BeginRequest(r) ==
    /\ requests[r].at = "idle"
    /\ requests' = [requests EXCEPT ![r].at = "deleting", ![r].now = moment,
                                    ![r].left = IdentitiesOf[r]]
    /\ UNCHANGED <<moment, limits, rowLock, identityLock>>

-----------------------------------------------------------------------------

\* a request sees its own writes
Row(r, k) == IF k \in DOMAIN requests[r].writes THEN requests[r].writes[k] ELSE limits[k]

IsThere(row) == row.count > 0

ToDelete(r) == {k \in Identities : IsThere(Row(r, k)) /\ Row(r, k).expires < requests[r].now}

\* a row is free to r unless another transaction wrote to it
OthersWith(lock, r, k) == lock[k] \ {r}

With(rows, k, row) == [i \in DOMAIN rows \cup {k} |-> IF i = k THEN row ELSE rows[i]]

\* the rows are deleted in any order
DeleteExpired(r) ==
    /\ requests[r].at = "deleting"
    /\ IF ToDelete(r) = {}
       THEN /\ requests' = [requests EXCEPT ![r].at = "locking"]
            /\ UNCHANGED rowLock
       ELSE \E k \in ToDelete(r) :
            /\ OthersWith(rowLock, r, k) = {}
            /\ requests' = [requests EXCEPT ![r].writes = With(@, k, NoLimit)]
            /\ rowLock' = [rowLock EXCEPT ![k] = @ \cup {r}]
    /\ UNCHANGED <<moment, limits, identityLock>>

LockIdentity(r) ==
    /\ requests[r].at = "locking"
    /\ requests[r].left # <<>>
    /\ OthersWith(identityLock, r, Head(requests[r].left)) = {}
    /\ identityLock' = [identityLock EXCEPT ![Head(requests[r].left)] = @ \cup {r}]
    /\ requests' = [requests EXCEPT ![r].at = "counting"]
    /\ UNCHANGED <<moment, limits, rowLock>>

\* mutant: a window ends a moment before its row says so
IsOverEarly(row, now) == row.expires <= now + 1

IsOver(row, now) == row.expires <= now

Counted(row, now) ==
    IF ~IsThere(row) \/ IsOver(row, now) THEN [count |-> 1, expires |-> now + Window]
    ELSE [row EXCEPT !.count = @ + 1]

Within(count) == count <= Limit

\* the request is counted for every identity, also when it is refused
Count(r) ==
    LET k   == Head(requests[r].left)
        row == Counted(Row(r, k), requests[r].now)
    IN
    /\ requests[r].at = "counting"
    /\ OthersWith(rowLock, r, k) = {}
    /\ rowLock' = [rowLock EXCEPT ![k] = @ \cup {r}]
    /\ requests' = [requests EXCEPT ![r].at = "locking", ![r].left = Tail(@),
                       ![r].writes = With(@, k, row),
                       ![r].windows = With(@, k, row.expires),
                       ![r].allowed = @ /\ Within(row.count)]
    /\ UNCHANGED <<moment, limits, identityLock>>

Released(lock, r) == [k \in Identities |-> lock[k] \ {r}]

Commit(r) ==
    /\ requests[r].at = "locking"
    /\ requests[r].left = <<>>
    /\ limits' = [k \in Identities |-> Row(r, k)]
    /\ requests' = [requests EXCEPT ![r].at = IF requests[r].allowed THEN "allowed"
                                              ELSE "refused",
                                    ![r].writes = <<>>]
    /\ rowLock' = [k \in Identities |-> rowLock[k] \ {r}]
    /\ identityLock' = Released(identityLock, r)
    /\ UNCHANGED moment

\* whom r waits for
Blockers(r) ==
    CASE requests[r].at = "deleting" ->
            IF \E k \in ToDelete(r) : OthersWith(rowLock, r, k) = {} THEN {}
            ELSE UNION {OthersWith(rowLock, r, k) : k \in ToDelete(r)}
      [] requests[r].at = "locking" /\ requests[r].left # <<>> ->
            OthersWith(identityLock, r, Head(requests[r].left))
      [] requests[r].at = "counting" -> OthersWith(rowLock, r, Head(requests[r].left))
      [] OTHER -> {}

IsDeadlocked(r) ==
    \E S \in SUBSET Requests : r \in S /\ \A s \in S : Blockers(s) \cap S # {}

\* the victim is rolled back, and the request fails
Abort(r) ==
    /\ IsDeadlocked(r)
    /\ requests' = [requests EXCEPT ![r].at = "aborted", ![r].writes = <<>>,
                                    ![r].windows = <<>>]
    /\ rowLock' = [k \in Identities |-> rowLock[k] \ {r}]
    /\ identityLock' = Released(identityLock, r)
    /\ UNCHANGED <<moment, limits>>

RequestStep(r) ==
    BeginRequest(r) \/ DeleteExpired(r) \/ LockIdentity(r) \/ Count(r) \/ Commit(r) \/ Abort(r)

LimitsNext == MomentPasses \/ \E r \in Requests : RequestStep(r)

LimitsSpec == LimitsInit /\ [][LimitsNext]_limitVars

-----------------------------------------------------------------------------

Decided(outcomes) == {r \in Requests : requests[r].at \in outcomes}

\* the answered requests that were counted for an identity in one window
CountedIn(k, expires) ==
    {r \in Decided({"allowed", "refused"}) :
        k \in DOMAIN requests[r].windows /\ requests[r].windows[k] = expires}

\* However requests overlap, at most Limit are allowed for an identity in one
\* window, and a row counts each of its window's requests, refused ones too.
LimitIsKept ==
    \A k \in Identities :
        /\ IsThere(limits[k]) =>
              limits[k].count = Cardinality(CountedIn(k, limits[k].expires))
        /\ \A end \in 1 .. LastMoment + Window :
              Cardinality(CountedIn(k, end) \cap Decided({"allowed"})) <= Limit

\* Who is refused has one identity for which more than Limit requests were
\* counted in a window that was not over when the request came.
RefusedForCause ==
    \A r \in Decided({"refused"}) : \E k \in ToSet(IdentitiesOf[r]) :
        /\ Cardinality(CountedIn(k, requests[r].windows[k])) > Limit
        /\ requests[r].windows[k] > requests[r].now

\* A count is given back only after the end of its window, whoever deletes it
\* and however old the time is with which a request works.
CountsLast ==
    [][\A k \in Identities :
          IsThere(limits[k]) /\ limits'[k] # limits[k] /\ limits'[k].count # limits[k].count + 1
              => moment >= limits[k].expires]_limitVars

\* A request that has come is answered, or fails as a deadlock's victim; two
\* that come when a window ends may wait for each other.
RequestsAreAnswered == <>[](\A r \in Requests : ~InTransaction(r))

\* A limit holds for every window, refuses nobody else, and is not reset
\* before its window is over.
LimitsAreKept == [](LimitsTypeOK /\ LimitIsKept /\ RefusedForCause) /\ CountsLast

==============================================================================
