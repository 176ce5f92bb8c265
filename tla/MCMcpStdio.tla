----------------------------- MODULE MCMcpStdio -----------------------------
(* Two callers besides Main and two sessions: two initialize calls and one   *)
(* other, or one and two, with ids that wrap and a stdin pipe of two lines.  *)
EXTENDS McpServed
=============================================================================
