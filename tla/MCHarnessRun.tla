---------------------------- MODULE MCHarnessRun ----------------------------
(***************************************************************************)
(* Instance of HarnessRun for TLC.  A participant's body differs from one  *)
(* the proxy accepts in at most one field, and its lists have one kind of  *)
(* entries.                                                                *)
(***************************************************************************)
EXTENDS HarnessRun

MCAttempts == 1 .. 2

Fields == {"kind", "model", "forbidden", "plugins", "messages", "provider"}

MCBodies ==
  {b \in Body :
     /\ Cardinality(b.plugins.entries) <= 1 /\ Cardinality(b.messages.entries) <= 1
     /\ Cardinality({field \in Fields : b[field] # BaselineBody[field]}) <= 1}
=============================================================================
