----------------------------- MODULE McpServed ------------------------------
(* McpStdio with the history that its requests leave in the servers: which    *)
(* of them a server took up, whatever became of the answer.  No action looks *)
(* at it.                                                                    *)
EXTENDS McpStdio

VARIABLE served         \* how often a server took a call's line from its stdin

servedVars == <<stdioVars, served>>

(* run_stdio takes up the first line. *)
TakenUp(n) == \E s \in Sessions : SessionStep(s) /\ Head(stdin[s]).call = n

ServedInit == StdioInit /\ served = [n \in Calls |-> 0]
ServedNext ==
  /\ StdioNext
  /\ served' = [n \in Calls |-> IF TakenUp(n) THEN served[n] + 1 ELSE served[n]]
ServedSpec == ServedInit /\ [][ServedNext]_servedVars
FairServedSpec == ServedSpec /\ StdioFairness

-----------------------------------------------------------------------------
(* The refinement of RequestPromise. *)
Told(request) ==
  CASE request.got = Unset -> "nothing"
    [] request.got = ErrorReply -> "error"
    [] request.got = request.call -> "answer"
    [] OTHER -> "another"

Requests == INSTANCE RequestPromise
              WITH asked <- calls, waiting <- [t \in Threads |-> thread[t].call],
                   told <- [t \in Threads |-> Told(thread[t])], runs <- served

(* Over timeouts, broken pipes, cleanups, restarts and threads left behind,  *)
(* a request is executed at most once, and its caller is told once, either   *)
(* an error or the answer to a request that was executed (_send_request,     *)
(* _complete_request, stop and run_stdio together).                          *)
RequestsAsPromised == Requests!PromiseSpec
=============================================================================
