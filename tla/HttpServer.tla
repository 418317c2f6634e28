---------------------------- MODULE HttpServer ----------------------------
(***************************************************************************)
(* The requests that axum::serve (main.rs) handles at once, each in a task *)
(* of its own.                                                             *)
(***************************************************************************)
CONSTANT Handlers
=============================================================================
