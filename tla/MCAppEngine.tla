---------------------------- MODULE MCAppEngine ----------------------------
(* AppEngine with the window's thread and the signal watcher as the threads *)
(* that may end the process.                                                *)
EXTENDS AppEngine
CONSTANTS window, watcher
=============================================================================
