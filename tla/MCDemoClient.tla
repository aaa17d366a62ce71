----------------------------- MODULE MCDemoClient -----------------------------
(* DemoClient with its bounds set per run in the .cfg files.              *)
EXTENDS DemoClient
=============================================================================
