--------------------------- MODULE MCScriptReplay ---------------------------
(* Instances of ScriptReplay for TLC. *)
EXTENDS ScriptReplay

\* Calls in parallel with a reading between them, and a part that depends on
\* all of it.
Mixed == <<"defer", "read", "defer", "await", "read", "call">>
=============================================================================
