----------------------------- MODULE MCGrpcStream -----------------------------
(* Small instances of GrpcStream for TLC.                                  *)
EXTENDS GrpcStream
=============================================================================
