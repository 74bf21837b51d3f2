----------------------------- MODULE MCScoping -----------------------------
(* Values for the constants of Scoping. *)
EXTENDS Scoping

CONSTANTS A, m, Id

MCLexemes     == {A, m, Id}
MCParserTexts == {Id}
============================================================================
