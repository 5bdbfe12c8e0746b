---------------------------- MODULE MCHarusariApp ----------------------------
(* Small instances of HarusariApp for TLC.                                 *)
EXTENDS HarusariApp
CONSTANTS alice, bob
MCEmails == {alice, bob}
=============================================================================
