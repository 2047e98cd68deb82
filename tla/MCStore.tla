------------------------------- MODULE MCStore -------------------------------
(***************************************************************************)
(* Instance of Store for TLC: an archive and two caches, an app graph that is *)
(* compiled by an engine, a take, and a blob of two chunks.                 *)
(***************************************************************************)
EXTENDS Store

CONSTANTS App, Execution, Recording, Sample, C1, C2

MCChunksOf == [b \in Blob |-> IF b = Sample THEN <<C1, C2>> ELSE << >>]
MCAppOf == [r \in Recipe |-> App]
MCOutput == [r \in Recipe |-> Execution]
==============================================================================
