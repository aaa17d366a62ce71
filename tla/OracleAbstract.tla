---------------------------- MODULE OracleAbstract ----------------------------
(***************************************************************************)
(* What the oracle promises the ledger, per request account (spec sections *)
(* 1 and 4.3): it commits a fulfillment "exactly once per request".  Seen  *)
(* from the ledger, a submission is a fulfillment transaction that is out  *)
(* and may still land.  The promise is that a request never has a second   *)
(* submission outstanding beside the first, and gets none once it is       *)
(* Fulfilled.  A request closed on chain after it was scanned may still be *)
(* submitted for: the transaction then fails on landing.                   *)
(***************************************************************************)
EXTENDS Naturals, TLAPS

CONSTANT Requests

VARIABLES
    status,       \* RequestStatus of each request account on the ledger
    outstanding   \* fulfillment transactions of each request that may land

vars == <<status, outstanding>>

Status == {"Absent", "Pending", "Fulfilled", "Cancelled", "Expired"}

TypeOK ==
    /\ status \in [Requests -> Status]
    /\ outstanding \in [Requests -> 0..1]

Init ==
    /\ status \in [Requests -> {"Absent", "Pending"}]
    /\ outstanding = [r \in Requests |-> 0]

\* A requester creates the account.
Create(r) ==
    /\ status[r] = "Absent"
    /\ status' = [status EXCEPT ![r] = "Pending"]
    /\ UNCHANGED outstanding

\* The request is cancelled or expires on chain.
Close(r) ==
    /\ status[r] = "Pending"
    /\ \E s \in {"Cancelled", "Expired"} : status' = [status EXCEPT ![r] = s]
    /\ UNCHANGED outstanding

\* The oracle puts a fulfillment transaction out.
Submit(r) ==
    /\ outstanding[r] = 0
    /\ status[r] # "Fulfilled"
    /\ outstanding' = [outstanding EXCEPT ![r] = 1]
    /\ UNCHANGED status

\* The transaction lands; fulfill_randomness succeeds only on Pending.
Land(r) ==
    /\ outstanding[r] = 1
    /\ outstanding' = [outstanding EXCEPT ![r] = 0]
    /\ status' = IF status[r] = "Pending"
                 THEN [status EXCEPT ![r] = "Fulfilled"]
                 ELSE status

\* The transaction's blockhash expires: it can no longer land.
Drop(r) ==
    /\ outstanding[r] = 1
    /\ outstanding' = [outstanding EXCEPT ![r] = 0]
    /\ UNCHANGED status

Next ==
    \E r \in Requests :
        Create(r) \/ Close(r) \/ Submit(r) \/ Land(r) \/ Drop(r)

Spec == Init /\ [][Next]_vars

-----------------------------------------------------------------------------
\* The promise seen from a finished request: once the ledger shows a
\* request Fulfilled, no submission of it is outstanding.  A submission is
\* made only for a request that is not Fulfilled, and the landing that
\* fulfils it is the landing of its one outstanding submission.
FulfilledSettled ==
    \A r \in Requests : status[r] = "Fulfilled" => outstanding[r] = 0

AbsInv == TypeOK /\ FulfilledSettled

LEMMA AbsInvStep ==
    ASSUME AbsInv, [Next]_vars
    PROVE  AbsInv'
<1> USE DEF AbsInv, TypeOK, FulfilledSettled, Status
<1>1. ASSUME NEW r \in Requests, Create(r) PROVE AbsInv'
  BY <1>1 DEF Create
<1>2. ASSUME NEW r \in Requests, Close(r) PROVE AbsInv'
  BY <1>2 DEF Close
<1>3. ASSUME NEW r \in Requests, Submit(r) PROVE AbsInv'
  BY <1>3 DEF Submit
<1>4. ASSUME NEW r \in Requests, Land(r) PROVE AbsInv'
  BY <1>4 DEF Land
<1>5. ASSUME NEW r \in Requests, Drop(r) PROVE AbsInv'
  BY <1>5 DEF Drop
<1>6. CASE UNCHANGED vars
  BY <1>6 DEF vars
<1> QED
  BY <1>1, <1>2, <1>3, <1>4, <1>5, <1>6 DEF Next

\* Every behaviour of the abstract oracle keeps the promise, for every set
\* of requests.
THEOREM AbstractSettled == Spec => []FulfilledSettled
<1>1. Init => AbsInv
  BY DEF Init, AbsInv, TypeOK, FulfilledSettled, Status
<1>2. AbsInv => FulfilledSettled
  BY DEF AbsInv
<1> QED
  BY <1>1, <1>2, AbsInvStep, PTL DEF Spec

=============================================================================
