------------------------------ MODULE DemoClient ------------------------------
(***************************************************************************)
(* The VRF demo page (src/unnamed/part_000, component VRFDemo).  Each click *)
(* of "Generate Random Number" starts an invocation of requestRandomness:  *)
(* it submits a request transaction, then waitForFulfillment polls the    *)
(* ledger every POLL_INTERVAL_MS until the result account appears, the    *)
(* VRF_TIMEOUT_MS deadline passes, or abortRef is set.  "Cancel" sets      *)
(* abortRef and the status to idle, which enables the button again.  All   *)
(* invocations share the React state (status, result) and the one          *)
(* abortRef; they interleave at their awaits.                              *)
(*                                                                         *)
(* Time is counted in polls: an invocation times out at the loop head once *)
(* it has slept MaxPolls times.  The ledger is the environment: a request  *)
(* that reached it may be fulfilled by the oracle at any moment, or never. *)
(***************************************************************************)
EXTENDS Naturals

CONSTANTS
    MaxClicks,   \* invocations of requestRandomness in a behaviour
    MaxCancels,  \* clicks of Cancel in a behaviour
    MaxPolls     \* VRF_TIMEOUT_MS / POLL_INTERVAL_MS

ASSUME ClientBoundsAssumption ==
    /\ MaxClicks \in Nat \ {0}
    /\ MaxCancels \in Nat
    /\ MaxPolls \in Nat \ {0}

VARIABLES
    status,     \* useState<RequestStatus>
    result,     \* useState result: the invocation whose output it holds, 0 for null
    abortRef,   \* useRef<boolean>, shared by every invocation
    inv,        \* per invocation: where it awaits, and the polls it has slept
    clicks,     \* invocations started
    cancels,    \* cancels clicked
    onLedger,   \* invocations whose request transaction landed
    fulfilled   \* invocations whose request the oracle fulfilled

vars == <<status, result, abortRef, inv, clicks, cancels, onLedger, fulfilled>>

Invocations == 1..MaxClicks

RequestStatus ==
    {"idle", "submitting", "waiting", "fulfilled", "timeout", "error"}

\* "none": not started; "submit": in sha256 .. confirmTransaction;
\* "poll": awaiting getAccountInfo; "sleep": awaiting the poll interval's
\* timer; "done": returned.
Pc == {"none", "submit", "poll", "sleep", "done"}

\* isLoading: the Generate button is disabled.
IsLoading == status \in {"submitting", "waiting"}

TypeOK ==
    /\ status \in RequestStatus
    /\ result \in 0..MaxClicks
    /\ abortRef \in BOOLEAN
    /\ inv \in [Invocations -> [pc : Pc, polls : 0..MaxPolls]]
    /\ clicks \in 0..MaxClicks
    /\ cancels \in 0..MaxCancels
    /\ onLedger \subseteq Invocations
    /\ fulfilled \subseteq onLedger

Init ==
    /\ status = "idle"
    /\ result = 0
    /\ abortRef = FALSE
    /\ inv = [i \in Invocations |-> [pc |-> "none", polls |-> 0]]
    /\ clicks = 0
    /\ cancels = 0
    /\ onLedger = {}
    /\ fulfilled = {}

-----------------------------------------------------------------------------
(* The user.                                                               *)

\* onClick={requestRandomness} on an enabled button: requestRandomness runs
\* to its first await (sha256) after resetting the state and abortRef.
Click ==
    LET i == clicks + 1
    IN  /\ clicks < MaxClicks
        /\ ~IsLoading
        /\ status' = "submitting"
        /\ result' = 0
        /\ abortRef' = FALSE
        /\ inv' = [inv EXCEPT ![i].pc = "submit"]
        /\ clicks' = i
        /\ UNCHANGED <<cancels, onLedger, fulfilled>>

\* cancelRequest, rendered only while the status is waiting.
Cancel ==
    /\ cancels < MaxCancels
    /\ status = "waiting"
    /\ abortRef' = TRUE
    /\ status' = "idle"
    /\ cancels' = cancels + 1
    /\ UNCHANGED <<result, inv, clicks, onLedger, fulfilled>>

-----------------------------------------------------------------------------
(* An invocation resumes at an await.                                      *)

\* confirmTransaction resolves without err: setStatus('waiting'), then
\* waitForFulfillment runs to its first getAccountInfo, resetting abortRef.
SubmitOk(i) ==
    /\ inv[i].pc = "submit"
    /\ status' = "waiting"
    /\ abortRef' = FALSE
    /\ inv' = [inv EXCEPT ![i].pc = "poll"]
    /\ onLedger' = onLedger \cup {i}
    /\ UNCHANGED <<result, clicks, cancels, fulfilled>>

\* One of sha256, getLatestBlockhash, sendTransaction, confirmTransaction
\* throws, or the confirmation carries err: the catch sets 'error'.  A
\* confirmation that timed out may leave the transaction landed.
SubmitFails(i) ==
    /\ inv[i].pc = "submit"
    /\ status' = "error"
    /\ inv' = [inv EXCEPT ![i].pc = "done"]
    /\ \E landed \in BOOLEAN :
          onLedger' = IF landed THEN onLedger \cup {i} ELSE onLedger
    /\ UNCHANGED <<result, abortRef, clicks, cancels, fulfilled>>

\* getAccountInfo finds the result account: waitForFulfillment returns the
\* output and requestRandomness shows it.
PollHit(i) ==
    /\ inv[i].pc = "poll"
    /\ i \in fulfilled
    /\ status' = "fulfilled"
    /\ result' = i
    /\ inv' = [inv EXCEPT ![i].pc = "done"]
    /\ UNCHANGED <<abortRef, clicks, cancels, onLedger, fulfilled>>

\* No result account yet, or the read threw: sleep for the interval.
PollMiss(i) ==
    /\ inv[i].pc = "poll"
    /\ i \notin fulfilled
    /\ inv' = [inv EXCEPT ![i].pc = "sleep"]
    /\ UNCHANGED <<status, result, abortRef, clicks, cancels, onLedger,
                   fulfilled>>

\* Mutant: the loop head without the VRF_TIMEOUT_MS check.
PollAgainNoDeadline(i) ==
    /\ inv[i].pc = "sleep"
    /\ ~abortRef
    /\ inv' = [inv EXCEPT ![i].pc = "poll"]
    /\ UNCHANGED <<status, result, abortRef, clicks, cancels, onLedger,
                   fulfilled>>

\* The timer fires and the loop head runs: go on polling while abortRef is
\* false and the deadline has not passed.
PollAgain(i) ==
    /\ inv[i].pc = "sleep"
    /\ ~abortRef
    /\ inv[i].polls + 1 < MaxPolls
    /\ inv' = [inv EXCEPT ![i] = [pc |-> "poll", polls |-> @.polls + 1]]
    /\ UNCHANGED <<status, result, abortRef, clicks, cancels, onLedger,
                   fulfilled>>

\* Mutant: the timeout branch of requestRandomness forgets setStatus.
GiveUpSilently(i) ==
    /\ inv[i].pc = "sleep"
    /\ abortRef \/ inv[i].polls + 1 >= MaxPolls
    /\ inv' = [inv EXCEPT ![i].pc = "done"]
    /\ UNCHANGED <<status, result, abortRef, clicks, cancels, onLedger,
                   fulfilled>>

\* The loop ends on abortRef or on the deadline: waitForFulfillment returns
\* null and requestRandomness shows a timeout, whatever ended it.
GiveUp(i) ==
    /\ inv[i].pc = "sleep"
    /\ abortRef \/ inv[i].polls + 1 >= MaxPolls
    /\ status' = "timeout"
    /\ inv' = [inv EXCEPT ![i].pc = "done"]
    /\ UNCHANGED <<result, abortRef, clicks, cancels, onLedger, fulfilled>>

-----------------------------------------------------------------------------
(* The ledger.                                                             *)

\* The oracle's fulfill_randomness lands for a request on the ledger.
Fulfil(i) ==
    /\ i \in onLedger \ fulfilled
    /\ fulfilled' = fulfilled \cup {i}
    /\ UNCHANGED <<status, result, abortRef, inv, clicks, cancels, onLedger>>

Step(i) ==
    \/ SubmitOk(i) \/ SubmitFails(i)
    \/ PollHit(i) \/ PollMiss(i) \/ PollAgain(i) \/ GiveUp(i)

Next ==
    \/ Click \/ Cancel
    \/ \E i \in Invocations : Step(i) \/ Fulfil(i)

Spec == Init /\ [][Next]_vars

\* Every promise an invocation awaits settles, and the timer fires: an
\* invocation that can resume eventually does.  The user and the oracle
\* get no fairness.
Fairness == \A i \in Invocations : WF_vars(Step(i))

FairSpec == Spec /\ Fairness

-----------------------------------------------------------------------------
(* Properties.                                                             *)

\* The page shows "Waiting for VRF server" only while some invocation is in
\* its polling loop: no path of requestRandomness leaves the status at
\* waiting once the loop that set it has returned, cancels and overlapping
\* invocations included.
WaitingHasPoller ==
    status = "waiting" => \E i \in Invocations : inv[i].pc \in {"poll", "sleep"}

\* The button does not stay disabled: "Processing..." always ends.
UiSettles == IsLoading ~> ~IsLoading

\* The number shown as "Your Random Number" is the output of the request the
\* user made last, not of one they made before.
DisplayedResultIsCurrent == status = "fulfilled" => result = clicks

\* After cancelRequest the page stays idle until the user clicks again: no
\* invocation that was running writes its outcome over the cancel.
CancelStaysIdle ==
    [][status = "idle" /\ clicks' = clicks => status' = "idle"]_vars

=============================================================================
