---------------------------- MODULE OracleBootstrap ----------------------------
(***************************************************************************)
(* Startup of the oracle process (src/standalone-vrf-server.js, main and    *)
(* the initialize methods): ensureCLIBuilt, loadVRFKeypair (which falls    *)
(* back to generateVRFKeypair and saves the key to VRF_KEYPAIR_PATH),       *)
(* testCLI, loadOracleKeypair, testConnection, then the serving loop.  Any *)
(* failure exits with status 1; the process can also be killed at any      *)
(* await.  The key file is the one piece of state that outlives a process, *)
(* and every instance started on the same host and configuration shares  *)
(* it.                                                                     *)
(*                                                                         *)
(* An instance is restarted (by its operator or a supervisor) at most     *)
(* MaxRuns times.  A VRF key is a model value; keygen draws a fresh one.   *)
(***************************************************************************)
EXTENDS Naturals, FiniteSets

CONSTANTS
    Instances,   \* processes started on the same VRF_KEYPAIR_PATH
    Keys,        \* keys the CLI's keygen can produce
    MaxRuns,     \* process starts of one instance
    NoKey        \* this.vrfKeypair = null

ASSUME BootAssumption ==
    /\ MaxRuns \in Nat
    /\ NoKey \notin Keys
    /\ {"absent", "torn"} \cap Keys = {}

VARIABLES
    file,        \* VRF_KEYPAIR_PATH: "absent", "torn" (not JSON) or a key
    pc,          \* per instance: the startup step it awaits
    vrfKey,      \* per instance: this.cli.vrfKeypair
    runs,        \* per instance: process starts so far
    generated,   \* keys keygen has produced
    servedWith   \* history: the keys instances reached the serving loop with

vars == <<file, pc, vrfKey, runs, generated, servedWith>>

FileStates == {"absent", "torn"} \cup Keys

\* "down" before a start, "exited" after exit or a kill; the others are the
\* awaits of initialize in their order.
Steps == {"down", "cli", "readKey", "keygen", "writeKey", "testCli",
          "oracleKey", "connect", "running", "exited"}

TypeOK ==
    /\ file \in FileStates
    /\ pc \in [Instances -> Steps]
    /\ vrfKey \in [Instances -> Keys \cup {NoKey}]
    /\ runs \in [Instances -> 0..MaxRuns]
    /\ generated \subseteq Keys
    /\ servedWith \subseteq Keys

\* A fresh host, or one an operator provisioned with a key.
Init ==
    /\ file \in {"absent"} \cup Keys
    /\ pc = [p \in Instances |-> "down"]
    /\ vrfKey = [p \in Instances |-> NoKey]
    /\ runs = [p \in Instances |-> 0]
    /\ generated = IF file \in Keys THEN {file} ELSE {}
    /\ servedWith = {}

\* Move instance p from one step of initialize to the next.
Goto(p, from, to) ==
    /\ pc[p] = from
    /\ pc' = [pc EXCEPT ![p] = to]

-----------------------------------------------------------------------------
(* The startup sequence of one instance.                                   *)

\* node standalone-vrf-server.js: a new StandaloneVRFServer, vrfKeypair null.
Start(p) ==
    /\ pc[p] \in {"down", "exited"}
    /\ runs[p] < MaxRuns
    /\ pc' = [pc EXCEPT ![p] = "cli"]
    /\ vrfKey' = [vrfKey EXCEPT ![p] = NoKey]
    /\ runs' = [runs EXCEPT ![p] = @ + 1]
    /\ UNCHANGED <<file, generated, servedWith>>

\* ensureCLIBuilt finds the ecvrf-cli binary in one of its two places.
CliFound(p) ==
    /\ Goto(p, "cli", "readKey")
    /\ UNCHANGED <<file, vrfKey, runs, generated, servedWith>>

\* Mutant: loadVRFKeypair that takes whatever the file holds as the key.
LoadVRFKeypairUnchecked(p) ==
    /\ Goto(p, "readKey", "testCli")
    /\ vrfKey' = [vrfKey EXCEPT ![p] = file]
    /\ UNCHANGED <<file, runs, generated, servedWith>>

\* Mutant: loadVRFKeypair that never reads the saved key.
LoadVRFKeypairIgnoringFile(p) ==
    /\ Goto(p, "readKey", "keygen")
    /\ UNCHANGED <<file, vrfKey, runs, generated, servedWith>>

\* loadVRFKeypair: readFile and JSON.parse succeed on a saved key; a missing
\* or unparsable file sends it to generateVRFKeypair.
LoadVRFKeypair(p) ==
    \/ /\ file \in Keys
       /\ Goto(p, "readKey", "testCli")
       /\ vrfKey' = [vrfKey EXCEPT ![p] = file]
       /\ UNCHANGED <<file, runs, generated, servedWith>>
    \/ /\ file \notin Keys
       /\ Goto(p, "readKey", "keygen")
       /\ UNCHANGED <<file, vrfKey, runs, generated, servedWith>>

\* generateVRFKeypair: `ecvrf-cli keygen` prints a fresh keypair.
Keygen(p) ==
    /\ \E k \in Keys \ generated :
          /\ Goto(p, "keygen", "writeKey")
          /\ vrfKey' = [vrfKey EXCEPT ![p] = k]
          /\ generated' = generated \cup {k}
    /\ UNCHANGED <<file, runs, servedWith>>

\* fs.writeFile of the keypair resolves: the file holds the new key.
SaveKey(p) ==
    /\ Goto(p, "writeKey", "testCli")
    /\ file' = vrfKey[p]
    /\ UNCHANGED <<vrfKey, runs, generated, servedWith>>

\* testCLI proves and verifies with the loaded key.
TestCli(p) ==
    /\ Goto(p, "testCli", "oracleKey")
    /\ UNCHANGED <<file, vrfKey, runs, generated, servedWith>>

\* loadOracleKeypair reads ORACLE_KEYPAIR_PATH.
LoadOracleKeypair(p) ==
    /\ Goto(p, "oracleKey", "connect")
    /\ UNCHANGED <<file, vrfKey, runs, generated, servedWith>>

\* testConnection succeeds and main calls server.start().
Connect(p) ==
    /\ Goto(p, "connect", "running")
    /\ servedWith' = servedWith \cup {vrfKey[p]}
    /\ UNCHANGED <<file, vrfKey, runs, generated>>

\* A step of initialize throws: the binary is missing, keygen or its output
\* fails, the proof test fails, the oracle keypair is unreadable or the RPC
\* is down.  main logs it and calls process.exit(1).
StartupFails(p) ==
    /\ pc[p] \in {"cli", "keygen", "testCli", "oracleKey", "connect"}
    /\ pc' = [pc EXCEPT ![p] = "exited"]
    /\ UNCHANGED <<file, vrfKey, runs, generated, servedWith>>

\* writeFile rejects, or the process is killed while it writes: the file was
\* truncated and holds nothing, part of the JSON, or all of it.
SaveKeyInterrupted(p) ==
    /\ pc[p] = "writeKey"
    /\ pc' = [pc EXCEPT ![p] = "exited"]
    /\ file' \in {file, "torn", vrfKey[p]}
    /\ UNCHANGED <<vrfKey, runs, generated, servedWith>>

\* SIGINT/SIGTERM once serving (process.exit(0)), or a kill at any other
\* await.
Stop(p) ==
    /\ pc[p] \notin {"down", "exited", "writeKey"}
    /\ pc' = [pc EXCEPT ![p] = "exited"]
    /\ UNCHANGED <<file, vrfKey, runs, generated, servedWith>>

Instance(p) ==
    \/ Start(p) \/ CliFound(p) \/ LoadVRFKeypair(p) \/ Keygen(p)
    \/ SaveKey(p) \/ TestCli(p) \/ LoadOracleKeypair(p) \/ Connect(p)
    \/ StartupFails(p) \/ SaveKeyInterrupted(p) \/ Stop(p)

Next == \E p \in Instances : Instance(p)

Spec == Init /\ [][Next]_vars

-----------------------------------------------------------------------------
(* Properties.                                                             *)

\* The VRF key is saved so that the oracle proves with one key across
\* restarts: every process run that reached the serving loop used the same
\* key, however earlier runs were killed or failed, a save cut short
\* included.
KeyStable == \A k1, k2 \in servedWith : k1 = k2


\* The key file as startup promises it: what VRF_KEYPAIR_PATH holds when
\* it holds a key, and the keys served with.
KeyFile == INSTANCE KeyFileAbstract
               WITH stored <- IF file \in Keys THEN file ELSE NoKey,
                    served <- servedWith

\* Startup implements KeyFileAbstract: a key is written to the path only
\* where it held none, a key on disk is never replaced, even by a save cut
\* short, and every run that serves proves with the key on disk.
KeyWrittenOnce == KeyFile!Spec

=============================================================================
