------------------------------ MODULE JobLedger ------------------------------
(***************************************************************************)
(* What the analysis queue promises, without clocks, leases or tasks.      *)
(*                                                                         *)
(* A job is granted to one worker at a time.  A grant may be revoked by    *)
(* granting the job again; the worker whose grant is the latest may give   *)
(* the job back, if it has not been granted too often, or settle it.  A    *)
(* job is settled once, with one result, and nothing happens to it         *)
(* afterwards.                                                             *)
(***************************************************************************)
EXTENDS Integers

CONSTANTS
    Jobs,
    Workers,
    NoWorker,   \* nobody; not a worker
    Results,
    NoResult,   \* not yet settled; not a result
    MaxReturns  \* the last grant that may be given back

VARIABLES
    holder,  \* the worker with the latest grant, while it counts
    grants,  \* how many grants a job has seen
    result,  \* how the job was settled
    posted   \* the jobs handed in

ledger == <<holder, grants, result, posted>>

LedgerInit ==
    /\ holder = [j \in Jobs |-> NoWorker]
    /\ grants = [j \in Jobs |-> 0]
    /\ result = [j \in Jobs |-> NoResult]
    /\ posted = {}

Post(j) ==
    /\ j \notin posted
    /\ posted' = posted \cup {j}
    /\ UNCHANGED <<holder, grants, result>>

\* a job whose result is known already
Import(j, r) ==
    /\ j \notin posted
    /\ posted' = posted \cup {j}
    /\ result' = [result EXCEPT ![j] = r]
    /\ UNCHANGED <<holder, grants>>

Grant(j, w) ==
    /\ j \in posted
    /\ result[j] = NoResult
    /\ holder' = [holder EXCEPT ![j] = w]
    /\ grants' = [grants EXCEPT ![j] = @ + 1]
    /\ UNCHANGED <<result, posted>>

Return(j) ==
    /\ holder[j] # NoWorker
    /\ grants[j] <= MaxReturns
    /\ holder' = [holder EXCEPT ![j] = NoWorker]
    /\ UNCHANGED <<grants, result, posted>>

Settle(j, r) ==
    /\ holder[j] # NoWorker
    /\ result[j] = NoResult
    /\ holder' = [holder EXCEPT ![j] = NoWorker]
    /\ result' = [result EXCEPT ![j] = r]
    /\ UNCHANGED <<grants, posted>>

LedgerNext ==
    \E j \in Jobs :
        \/ Post(j)
        \/ \E w \in Workers : Grant(j, w)
        \/ Return(j)
        \/ \E r \in Results : Settle(j, r) \/ Import(j, r)

LedgerSpec == LedgerInit /\ [][LedgerNext]_ledger

=============================================================================
