-------------------------- MODULE MCLimboResolution --------------------------
(* Small instances of LimboResolution for TLC.                             *)
EXTENDS LimboResolution
CONSTANTS p, q

\* A document of both queries, of one, of neither, and one that is deleted.
MCContents == {{p, q}, {p}, {}, NoDoc}
\* A document that matches every query or does not exist.
AllOrNothing == {Queries, NoDoc}
=============================================================================
