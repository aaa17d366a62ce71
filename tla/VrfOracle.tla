------------------------------ MODULE VrfOracle ------------------------------
(***************************************************************************)
(* The fulfillment loop of src/standalone-vrf-server.js (class            *)
(* StandaloneVRFServer): start() runs monitorAndProcess() forever; a scan  *)
(* (getPendingRequestAccounts, isRequestPending) takes a snapshot of the   *)
(* pending request accounts and evicts stale entries of the in-memory      *)
(* idempotency map processedRequests; each account of the snapshot then    *)
(* goes through processRequestAccount: generate proof, verify it, record   *)
(* it in processedRequests, then submitFulfillment (blockhash, send,       *)
(* confirm).  Every await of that chain is a step of its own, because the  *)
(* SIGINT/SIGTERM handler (process.exit) and the ledger can act between    *)
(* any two of them.                                                        *)
(*                                                                         *)
(* Environment: the ledger holds one status per request account and        *)
(* applies a fulfillment transaction only to a Pending request; a sent     *)
(* transaction lands or is dropped later.  Proof tool, RPC and ledger      *)
(* failures draw on a budget of MaxFaults; restarts on MaxRestarts.        *)
(*                                                                         *)
(* Time: the 10-minute window of isRequestPending is Window ticks.  A      *)
(* record's age, Date.now() - timestamp, is kept saturated at Window,      *)
(* which is all the comparison "< 10 min" can tell apart.  A tick is       *)
(* longer than a transaction's blockhash lifetime, so no tick passes while *)
(* a transaction is in flight; unless SlowRpc, none passes either while    *)
(* submitFulfillment waits for the blockhash and the send.                 *)
(***************************************************************************)
EXTENDS Naturals, FiniteSets

CONSTANTS
    Requests,     \* addresses of request accounts owned by the VRF program
    Window,       \* re-check window of isRequestPending, in ticks
    MaxFaults,    \* failures the proof tool, the RPC and the ledger may cause
    MaxRestarts,  \* times the process may exit and be started again
    SlowRpc,      \* whether getLatestBlockhash/sendRawTransaction, called
                  \* without a timeout, may take longer than a tick
    KeyMismatch   \* whether the keypair loadVRFKeypair parsed has a public
                  \* key that is not its secret key's: nothing checks it, and
                  \* then every verifyProof returns false

ASSUME WindowAssumption == Window \in Nat \ {0}
ASSUME MaxFaultsAssumption == MaxFaults \in Nat
ASSUME MaxRestartsAssumption == MaxRestarts \in Nat
ASSUME RequestsAssumption == Requests # {}
ASSUME RequestsFiniteAssumption == IsFiniteSet(Requests)
ASSUME SlowRpcAssumption == SlowRpc \in BOOLEAN
ASSUME KeyMismatchAssumption == KeyMismatch \in BOOLEAN

VARIABLES
    status,            \* ledger: RequestStatus of each request account
    orphans,           \* ledger: fulfillment txs in flight nobody awaits
    processedRequests, \* server: address -> age of its record, or NoRecord
    pc,                \* server: where monitorAndProcess is
    queue,             \* server: accounts of the scan not processed yet
    cur,               \* server: account processRequestAccount works on
    curTx,             \* the tx submitFulfillment awaits, as the ledger sees it
    stats,             \* server: this.stats counters
    faults,            \* environment failures so far
    restarts           \* process restarts so far

vars == <<status, orphans, processedRequests, pc, queue, cur, curTx,
          stats, faults, restarts>>

\* RequestStatus of the on-chain program; "Absent" before the request exists.
Status == {"Absent", "Pending", "Fulfilled", "Cancelled", "Expired"}

\* An absent entry of the Map processedRequests.
NoRecord == Window + 1

Age == 0..Window

\* Locations of the loop: scanning, picking the next account, then the
\* awaits of processRequestAccount and submitFulfillment.
Locations == {"scan", "next", "prove", "verify", "send", "confirm"}

Pipeline == {"prove", "verify", "send", "confirm"}

TxState == {"none", "inflight", "landed", "failed"}

ZeroStats == [requestsProcessed |-> 0, requestsFulfilled |-> 0, errors |-> 0]

Has(r) == processedRequests[r] # NoRecord

\* Fulfillment transactions for r that are sent and not yet landed or dropped.
InFlight(r) == orphans[r] + (IF curTx = "inflight" /\ cur = r THEN 1 ELSE 0)

TypeOK ==
    /\ status \in [Requests -> Status]
    /\ orphans \in [Requests -> Nat]
    /\ processedRequests \in [Requests -> Age \cup {NoRecord}]
    /\ pc \in Locations
    /\ queue \subseteq Requests
    /\ cur \in Requests
    /\ curTx \in TxState
    /\ stats \in [requestsProcessed : Nat, requestsFulfilled : Nat, errors : Nat]
    /\ faults \in 0..MaxFaults
    /\ restarts \in 0..MaxRestarts

Init ==
    /\ status \in [Requests -> {"Absent", "Pending"}]
    /\ orphans = [r \in Requests |-> 0]
    /\ processedRequests = [r \in Requests |-> NoRecord]
    /\ pc = "scan"
    /\ queue = {}
    /\ cur \in Requests
    /\ curTx = "none"
    /\ stats = ZeroStats
    /\ faults = 0
    /\ restarts = 0

Fault == faults < MaxFaults /\ faults' = faults + 1

CountError == stats' = [stats EXCEPT !.errors = @ + 1]

-----------------------------------------------------------------------------
(* The server.                                                             *)

\* Mutant: the window written in seconds, 10 * 60, compared with a
\* difference of Date.now() values in milliseconds: any record is stale.
StaleWindowInSeconds(r) == Has(r) /\ processedRequests[r] >= 0

\* isRequestPending: a record at least the window old is deleted.
Stale(r) == Has(r) /\ processedRequests[r] >= Window

\* A record younger than the window: isRequestPending keeps it and excludes
\* its request from the scan.
Fresh(r) == Has(r) /\ processedRequests[r] < Window

\* Mutant: isRequestPending without the check of the status byte.
EligibleIgnoringStatus(r) == ~Has(r) \/ Stale(r)

\* isRequestPending is true: Pending, and no record younger than the window.
Eligible(r) == status[r] = "Pending" /\ (~Has(r) \/ Stale(r))

\* Mutant: isRequestPending never deletes the old entry.
ScanKeepingStale ==
    /\ pc = "scan"
    /\ queue' = {r \in Requests : Eligible(r)}
    /\ pc' = IF queue' = {} THEN "scan" ELSE "next"
    /\ UNCHANGED <<processedRequests, status, orphans, cur, curTx, stats,
                   faults, restarts>>

\* getPendingRequestAccounts returns the program accounts with the request
\* discriminator for which isRequestPending holds; isRequestPending deletes
\* the stale record of every request account it looks at.  An empty result
\* ends monitorAndProcess at once.
Scan ==
    /\ pc = "scan"
    /\ processedRequests' = [r \in Requests |->
                               IF status[r] # "Absent" /\ Stale(r)
                               THEN NoRecord ELSE processedRequests[r]]
    /\ queue' = {r \in Requests : Eligible(r)}
    /\ pc' = IF queue' = {} THEN "scan" ELSE "next"
    /\ UNCHANGED <<status, orphans, cur, curTx, stats, faults, restarts>>

\* getProgramAccounts throws: start() counts the error and sleeps.
ScanFails ==
    /\ pc = "scan"
    /\ Fault
    /\ CountError
    /\ UNCHANGED <<status, orphans, processedRequests, pc, queue, cur, curTx,
                   restarts>>

\* The for-loop of monitorAndProcess; processRequestAccount returns false
\* at once for an account it already has a record of.
NextAccount ==
    /\ pc = "next"
    /\ \/ /\ queue = {}
          /\ pc' = "scan"
          /\ UNCHANGED <<queue, cur>>
       \/ \E a \in queue :
             /\ queue' = queue \ {a}
             /\ IF Has(a) THEN pc' = "next" /\ UNCHANGED cur
                          ELSE pc' = "prove" /\ cur' = a
    /\ UNCHANGED <<status, orphans, processedRequests, curTx, stats, faults,
                   restarts>>

\* cli.generateProof(seed) returns.
ProveOk ==
    /\ pc = "prove"
    /\ pc' = "verify"
    /\ UNCHANGED <<status, orphans, processedRequests, queue, cur, curTx,
                   stats, faults, restarts>>

\* generateProof throws; the throw reaches the catch of monitorAndProcess.
ProveFails ==
    /\ pc = "prove"
    /\ Fault
    /\ CountError
    /\ pc' = "next"
    /\ UNCHANGED <<status, orphans, processedRequests, queue, cur, curTx,
                   restarts>>

\* Mutant: requestsProcessed++ left out of processRequestAccount.
VerifyOkUncounted ==
    /\ pc = "verify"
    /\ processedRequests' = [processedRequests EXCEPT ![cur] = 0]
    /\ pc' = "send"
    /\ UNCHANGED <<status, orphans, queue, cur, curTx, stats, faults,
                   restarts>>

\* verifyProof is true: the request is recorded with the current time and
\* counted as processed before anything is submitted.
VerifyOk ==
    /\ pc = "verify"
    /\ ~KeyMismatch
    /\ processedRequests' = [processedRequests EXCEPT ![cur] = 0]
    /\ stats' = [stats EXCEPT !.requestsProcessed = @ + 1]
    /\ pc' = "send"
    /\ UNCHANGED <<status, orphans, queue, cur, curTx, faults, restarts>>

\* verifyProof is false: processRequestAccount logs the failure and returns
\* false, with no record and no errors++.  Under a key mismatch it always
\* is; otherwise it is a fault.
VerifyFails ==
    /\ pc = "verify"
    /\ \/ KeyMismatch /\ UNCHANGED faults
       \/ Fault
    /\ pc' = "next"
    /\ UNCHANGED <<status, orphans, processedRequests, queue, cur, curTx,
                   stats, restarts>>

\* getLatestBlockhash and sendRawTransaction return: the tx is out.
SendOk ==
    /\ pc = "send"
    /\ curTx' = "inflight"
    /\ pc' = "confirm"
    /\ UNCHANGED <<status, orphans, processedRequests, queue, cur, stats,
                   faults, restarts>>

\* submitFulfillment catches a throw of getLatestBlockhash or of
\* sendRawTransaction and returns {success: false}; the tx may or may not
\* have left already.
SendFails ==
    /\ pc = "send"
    /\ Fault
    /\ \/ UNCHANGED orphans
       \/ orphans' = [orphans EXCEPT ![cur] = @ + 1]
    /\ pc' = "next"
    /\ UNCHANGED <<status, processedRequests, queue, cur, curTx, stats,
                   restarts>>

\* Mutant: confirmation.value.err is not looked at.
ConfirmIgnoringErr ==
    /\ pc = "confirm"
    /\ curTx \in {"landed", "failed"}
    /\ stats' = [stats EXCEPT !.requestsFulfilled = @ + 1]
    /\ curTx' = "none"
    /\ pc' = "next"
    /\ UNCHANGED <<status, orphans, processedRequests, queue, cur, faults,
                   restarts>>

\* confirmTransaction returns: without err the request counts as fulfilled,
\* with err processRequestAccount returns false.
Confirm ==
    /\ pc = "confirm"
    /\ curTx \in {"landed", "failed"}
    /\ stats' = IF curTx = "landed"
                THEN [stats EXCEPT !.requestsFulfilled = @ + 1]
                ELSE stats
    /\ curTx' = "none"
    /\ pc' = "next"
    /\ UNCHANGED <<status, orphans, processedRequests, queue, cur, faults,
                   restarts>>

\* confirmTransaction throws (timeout, RPC error), whatever became of the
\* tx; one still in flight is left behind.
ConfirmFails ==
    /\ pc = "confirm"
    /\ Fault
    /\ orphans' = [r \in Requests |-> InFlight(r)]
    /\ curTx' = "none"
    /\ pc' = "next"
    /\ UNCHANGED <<status, processedRequests, queue, cur, stats, restarts>>

\* SIGINT/SIGTERM: the handler calls process.exit(0) between two awaits,
\* and the server is started again: processedRequests and stats are lost,
\* an awaited tx is left in flight.
Restart ==
    /\ restarts < MaxRestarts
    /\ restarts' = restarts + 1
    /\ orphans' = [r \in Requests |-> InFlight(r)]
    /\ processedRequests' = [r \in Requests |-> NoRecord]
    /\ stats' = ZeroStats
    /\ pc' = "scan"
    /\ queue' = {}
    /\ curTx' = "none"
    /\ UNCHANGED <<status, cur, faults>>

-----------------------------------------------------------------------------
(* The ledger and the passage of time.                                     *)

\* A requester creates a request account.
CreateRequest(r) ==
    /\ status[r] = "Absent"
    /\ status' = [status EXCEPT ![r] = "Pending"]
    /\ UNCHANGED <<orphans, processedRequests, pc, queue, cur, curTx, stats,
                   faults, restarts>>

\* The request is cancelled or expires on chain.
CloseRequest(r) ==
    /\ status[r] = "Pending"
    /\ status' \in {[status EXCEPT ![r] = s] : s \in {"Cancelled", "Expired"}}
    /\ UNCHANGED <<orphans, processedRequests, pc, queue, cur, curTx, stats,
                   faults, restarts>>

\* Applying fulfill_randomness: it succeeds only on a Pending request.
Fulfil(r) == IF status[r] = "Pending"
             THEN [status EXCEPT ![r] = "Fulfilled"]
             ELSE status

\* The tx submitFulfillment awaits lands; it fails if r was not Pending.
LandCurrent ==
    /\ curTx = "inflight"
    /\ status' = Fulfil(cur)
    /\ curTx' = IF status[cur] = "Pending" THEN "landed" ELSE "failed"
    /\ UNCHANGED <<orphans, processedRequests, pc, queue, cur, stats, faults,
                   restarts>>

\* Its blockhash expires before it lands.
DropCurrent ==
    /\ curTx = "inflight"
    /\ Fault
    /\ curTx' = "failed"
    /\ UNCHANGED <<status, orphans, processedRequests, pc, queue, cur, stats,
                   restarts>>

LandOrphan(r) ==
    /\ orphans[r] > 0
    /\ orphans' = [orphans EXCEPT ![r] = @ - 1]
    /\ status' = Fulfil(r)
    /\ UNCHANGED <<processedRequests, pc, queue, cur, curTx, stats, faults,
                   restarts>>

DropOrphan(r) ==
    /\ orphans[r] > 0
    /\ orphans' = [orphans EXCEPT ![r] = @ - 1]
    /\ UNCHANGED <<status, processedRequests, pc, queue, cur, curTx, stats,
                   faults, restarts>>

\* Date.now() advances: every record ages, up to the window.
Tick ==
    /\ curTx # "inflight"
    /\ SlowRpc \/ pc # "send"
    /\ \A r \in Requests : orphans[r] = 0
    /\ \E r \in Requests : Has(r) /\ processedRequests[r] < Window
    /\ processedRequests' = [r \in Requests |->
                               IF Has(r) /\ processedRequests[r] < Window
                               THEN processedRequests[r] + 1
                               ELSE processedRequests[r]]
    /\ UNCHANGED <<status, orphans, pc, queue, cur, curTx, stats, faults,
                   restarts>>

-----------------------------------------------------------------------------

Server ==
    \/ Scan \/ ScanFails \/ NextAccount \/ ProveOk \/ ProveFails
    \/ VerifyOk \/ VerifyFails \/ SendOk \/ SendFails \/ Confirm
    \/ ConfirmFails \/ Restart

Environment ==
    \/ \E r \in Requests : CreateRequest(r) \/ CloseRequest(r)
                           \/ LandOrphan(r) \/ DropOrphan(r)
    \/ LandCurrent \/ DropCurrent \/ Tick

Next == Server \/ Environment

\* The server loop never stops on its own (verifyProof returns, true or
\* false), the ledger eventually applies a
\* sent transaction, and time passes.  Failures, restarts, new and closed
\* requests are not forced to happen.
Fairness ==
    /\ WF_vars(Scan) /\ WF_vars(NextAccount) /\ WF_vars(ProveOk)
    /\ WF_vars(VerifyOk \/ VerifyFails) /\ WF_vars(SendOk) /\ WF_vars(Confirm)
    /\ WF_vars(LandCurrent)
    /\ \A r \in Requests : WF_vars(LandOrphan(r))
    /\ SF_vars(Tick)

Spec == Init /\ [][Next]_vars

FairSpec == Spec /\ Fairness

-----------------------------------------------------------------------------
(* Properties.                                                             *)

\* The ledger's view of the loop: the request statuses, and as outstanding
\* submissions the fulfillment transactions in flight, the one awaited and
\* those left behind.
Abstract == INSTANCE OracleAbstract
                WITH outstanding <- [r \in Requests |-> InFlight(r)]

\* The loop keeps the promise of OracleAbstract: every step is a creation,
\* a closing, a submission, a landing or a drop of the abstract spec, or
\* leaves the ledger's view alone.  A send happens only while no tx of the
\* request is in flight and the request is not Fulfilled, whatever the
\* scan's snapshot, the records and the failed confirmations left behind.
ImplementsAbstract == Abstract!Spec

\* No request ever has two fulfillment transactions in flight at once: the
\* record processRequestAccount writes before submitting keeps a second
\* scan from picking the request up while the first tx can still land.
NoConcurrentSubmission == \A r \in Requests : InFlight(r) <= 1

\* requestsFulfilled never exceeds the number of requests the ledger shows
\* as Fulfilled: processRequestAccount counts only a confirmation without
\* err, which is the landing of its own tx on a Pending request.
FulfilledCountSound ==
    stats.requestsFulfilled <= Cardinality({r \in Requests : status[r] = "Fulfilled"})

\* The success rate printStats reports, requestsFulfilled over
\* requestsProcessed, never exceeds 100%: each fulfillment counted was
\* counted as processed first in the same process, failed confirmations,
\* restarts and slow sends included.
SuccessRateBounded == stats.requestsFulfilled <= stats.requestsProcessed

\* Every request that is Pending on the ledger is eventually no longer
\* Pending: a failed attempt leaves a record that isRequestPending evicts
\* after the window, so the request is retried.
PendingEventuallyResolved ==
    \A r \in Requests : status[r] = "Pending" ~> status[r] # "Pending"

NoRecordWithoutSubmission ==
    \A r \in Requests :
        Has(r) => \/ status[r] # "Pending"
                  \/ InFlight(r) > 0
                  \/ cur = r /\ pc \in {"send", "confirm"}

=============================================================================
