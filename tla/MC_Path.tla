------------------------------- MODULE MC_Path -------------------------------
(***************************************************************************)
(* MfsPath for TLC: every argument of up to six characters over "/", "."   *)
(* and the name character "a" (1093 arguments).                           *)
(***************************************************************************)
EXTENDS MfsPath

MCNameChars == {"a"}
=============================================================================
