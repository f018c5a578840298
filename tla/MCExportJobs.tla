---------------------------- MODULE MCExportJobs ----------------------------
(* Instances of ExportJobs: requests are alike.                            *)
EXTENDS ExportJobs, TLC

CONSTANTS req1, req2

Symmetric == Permutations(Request)
=============================================================================
