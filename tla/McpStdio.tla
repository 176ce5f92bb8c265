------------------------------ MODULE McpStdio ------------------------------
(* The client of mcp/mcp_client.py and the stdio loop of mcp/mcp_server.py.  *)
(* Caller threads share a client: each takes an id, registers its request,   *)
(* writes a line to the server and waits on a future.  A reader thread per   *)
(* server process moves response lines into a queue that all sessions share, *)
(* handler threads complete requests by id.  Main starts and stops the       *)
(* client, which starts and terminates a server process.                     *)
(*                                                                           *)
(* The server answers one line before it reads the next, so the ids it       *)
(* tracks (_pending_requests) are only ever that of the line at hand, and    *)
(* they are left out.  A response that reports an error is an answer here.   *)
(* Lines that do not parse are left out.                                     *)
EXTENDS Naturals, Sequences, FiniteSets

CONSTANTS
  Callers, Main,  \* caller threads, and the thread that starts and stops
  IdCount,        \* ids run from 1 to IdCount and start again: 2^31 - 1
  FirstId,        \* _next_id at the start of a behaviour
  MaxCalls,       \* bound on the calls of a behaviour
  MaxSessions,    \* bound on the starts of a behaviour
  InRoom          \* request lines a server's stdin pipe takes

Threads == Callers \cup {Main}
Ids == 1..IdCount
Calls == 1..MaxCalls
Sessions == 1..MaxSessions

ASSUME StdioAssumption ==
  /\ Main \notin Callers
  /\ MaxCalls \in Nat /\ MaxSessions \in Nat
  /\ IdCount \in Nat \ {0} /\ FirstId \in Ids /\ MaxCalls <= IdCount
  /\ InRoom \in Nat \ {0}

VARIABLES
  running,        \* _running
  session,        \* which process _process is; 0: none yet
  main,           \* where Main is in stop()
  nextId,         \* _next_id
  calls,          \* calls so far
  thread,         \* the threads in _send_request, with their futures
  pending,        \* _pending_requests: id -> call
  stdin, stdout,  \* the pipes of each process
  server,         \* the processes
  reader,         \* sessions whose reader thread runs
  handlers,       \* sessions whose response handler runs
  responses       \* _response_queue

clientVars == <<running, session, main>>
callVars == <<nextId, calls, thread, pending>>
serverVars == <<stdin, stdout, server>>
readVars == <<reader, handlers, responses>>
stdioVars == <<clientVars, callVars, serverVars, readVars>>

NoCall == 0
Unset == MaxCalls + 1     \* a future without a result
ErrorReply == MaxCalls + 2   \* "Client stopped", "Request timed out"
Line == [id : Ids, call : Calls]
Idle == [at |-> "idle", call |-> NoCall, id |-> 1, got |-> Unset]
NewCall == [at |-> "track", call |-> calls + 1, id |-> nextId, got |-> Unset]

(* Type correctness of client and server. *)
StdioTypeOK ==
  /\ running \in BOOLEAN /\ session \in 0..MaxSessions
  /\ main \in {"free", "clear", "terminate"}
  /\ nextId \in Ids /\ calls \in 0..MaxCalls
  /\ thread \in [Threads -> [at : {"idle", "track", "write", "wait"},
                             call : Calls \cup {NoCall}, id : Ids,
                             got : Calls \cup {Unset, ErrorReply}]]
  /\ pending \in [Ids -> Calls \cup {NoCall}]
  /\ stdin \in [Sessions -> Seq(Line)] /\ stdout \in [Sessions -> Seq(Line)]
  /\ server \in [Sessions -> {"none", "up", "stuck", "dead"}]
  /\ reader \in SUBSET Sessions /\ handlers \in SUBSET Sessions
  /\ responses \in Seq(Line)

(* A fresh client (FirstId = 1), or one that has been used and stopped. *)
StdioInit ==
  /\ running = FALSE /\ session = 0 /\ main = "free"
  /\ nextId = FirstId /\ calls = 0
  /\ thread = [t \in Threads |-> Idle]
  /\ pending = [i \in Ids |-> NoCall]
  /\ stdin = [s \in Sessions |-> <<>>] /\ stdout = [s \in Sessions |-> <<>>]
  /\ server = [s \in Sessions |-> "none"]
  /\ reader = {} /\ handlers = {} /\ responses = <<>>

-----------------------------------------------------------------------------
(* _send_request                                                             *)

(* A plausible slip: the counter starts again one id too late. *)
WrapLate(i) == IF i > IdCount THEN 1 ELSE i + 1

Wrap(i) == IF i + 1 > IdCount THEN 1 ELSE i + 1

(* The check of _running and _get_next_id. *)
Call(t) ==
  /\ thread[t].at = "idle" /\ calls < MaxCalls
  /\ running
  /\ calls' = calls + 1
  /\ thread' = [thread EXCEPT ![t] = NewCall]
  /\ nextId' = Wrap(nextId)
  /\ UNCHANGED pending

(* _track_request: a request that is pending under the id is replaced. *)
Track(t) ==
  /\ thread[t].at = "track"
  /\ pending' = [pending EXCEPT ![thread[t].id] = thread[t].call]
  /\ thread' = [thread EXCEPT ![t].at = "write"]
  /\ UNCHANGED <<clientVars, nextId, calls, serverVars, readVars>>

Alive(s) == server[s] \in {"up", "stuck"}

(* The line goes to the process that _process names now; a full pipe blocks. *)
Write(t) ==
  /\ thread[t].at = "write" /\ Alive(session) /\ Len(stdin[session]) < InRoom
  /\ stdin' = [stdin EXCEPT ![session] =
                 Append(@, [id |-> thread[t].id, call |-> thread[t].call])]
  /\ thread' = [thread EXCEPT ![t].at = "wait"]
  /\ UNCHANGED <<clientVars, nextId, calls, pending, stdout, server,
                 readVars>>

(* A plausible slip: only a timeout of the future removes the entry, not a   *)
(* failed write.                                                             *)
RaiseKeepsEntry(t) ==
  /\ pending' = IF thread[t].at = "wait"
                  THEN [pending EXCEPT ![thread[t].id] = NoCall] ELSE pending
  /\ thread' = [thread EXCEPT ![t] = Idle]

(* An exception removes what is pending under the id. *)
Raise(t) ==
  /\ pending' = [pending EXCEPT ![thread[t].id] = NoCall]
  /\ thread' = [thread EXCEPT ![t] = Idle]

BrokenPipe(t) ==
  /\ thread[t].at = "write" /\ ~Alive(session)
  /\ Raise(t)
  /\ UNCHANGED <<clientVars, nextId, calls, serverVars, readVars>>

(* future.result() returns the response. *)
Return(t) ==
  /\ thread[t].at = "wait" /\ thread[t].got # Unset
  /\ thread' = [thread EXCEPT ![t] = Idle]
  /\ UNCHANGED <<clientVars, nextId, calls, pending, serverVars, readVars>>

(* A plausible slip: a timeout writes the request again. *)
TimeoutResends(t) ==
  /\ thread[t].at = "wait"
  /\ thread' = [thread EXCEPT ![t].at = "write"]
  /\ UNCHANGED <<clientVars, nextId, calls, pending, serverVars, readVars>>

(* future.result() times out.  A completion that comes between the timeout   *)
(* and the removal changes nothing for the caller.                           *)
Timeout(t) ==
  /\ thread[t].at = "wait"
  /\ Raise(t)
  /\ UNCHANGED <<clientVars, nextId, calls, serverVars, readVars>>

Request(t) == Track(t) \/ Write(t) \/ BrokenPipe(t) \/ Return(t)

CallerCalls(t) == Call(t) /\ UNCHANGED <<clientVars, serverVars, readVars>>

(* t holds the future of the request. *)
Waits(t, n) == n # NoCall /\ thread[t].call = n

(* The futures of the requests pending under these ids get an error reply,   *)
(* and the entries go.                                                       *)
FailPending(ids) ==
  /\ thread' = [t \in Threads |->
                  IF thread[t].got = Unset /\ \E i \in ids : Waits(t, pending[i])
                    THEN [thread[t] EXCEPT !.got = ErrorReply] ELSE thread[t]]
  /\ pending' = [i \in Ids |-> IF i \in ids THEN NoCall ELSE pending[i]]

(* _cleanup_stale_requests: every 30 s, the requests that are too old. *)
CleanupStaleRequests ==
  /\ running
  /\ \E ids \in SUBSET {i \in Ids : pending[i] # NoCall} :
       ids # {} /\ FailPending(ids)
  /\ UNCHANGED <<clientVars, nextId, calls, serverVars, readVars>>

-----------------------------------------------------------------------------
(* start and stop                                                            *)

(* A plausible slip: the reader of an earlier session is kept. *)
ThreadsKept(s) == IF reader = {} THEN reader' = {s} ELSE UNCHANGED reader

NewReader(s) == reader' = reader \cup {s}

(* A new process and new threads, then initialize(): a call of Main.  The    *)
(* threads of an earlier session may still be there.                         *)
StartClient ==
  /\ main = "free" /\ ~running /\ session < MaxSessions
  /\ thread[Main].at = "idle" /\ calls < MaxCalls
  /\ session' = session + 1
  /\ server' = [server EXCEPT ![session + 1] = "up"]
  /\ running' = TRUE
  /\ NewReader(session + 1)
  /\ handlers' = handlers \cup {session + 1}
  /\ calls' = calls + 1
  /\ thread' = [thread EXCEPT ![Main] = NewCall]
  /\ nextId' = Wrap(nextId)
  /\ UNCHANGED <<main, pending, stdin, stdout, responses>>

StopClient ==
  /\ main = "free" /\ running /\ thread[Main].at = "idle"
  /\ running' = FALSE /\ main' = "clear"
  /\ UNCHANGED <<session, callVars, serverVars, readVars>>

(* All pending requests are answered with "Client stopped". *)
StopClears ==
  /\ main = "clear" /\ main' = "terminate"
  /\ FailPending(Ids)
  /\ UNCHANGED <<running, session, nextId, calls, serverVars, readVars>>

(* terminate(), wait(), kill(). *)
StopTerminates ==
  /\ main = "terminate" /\ main' = "free"
  /\ server' = [server EXCEPT ![session] = "dead"]
  /\ stdin' = [stdin EXCEPT ![session] = <<>>]
  /\ UNCHANGED <<running, session, callVars, stdout, readVars>>

-----------------------------------------------------------------------------
(* The server process s: run_stdio                                           *)

(* One line is read, handled and answered. *)
Serve(s) ==
  /\ server[s] = "up" /\ stdin[s] # <<>>
  /\ stdin' = [stdin EXCEPT ![s] = Tail(@)]
  /\ stdout' = [stdout EXCEPT ![s] = Append(@, Head(stdin[s]))]
  /\ UNCHANGED <<clientVars, callVars, server, readVars>>

(* What the process prints while it handles a line goes to stderr, a pipe    *)
(* that the client never reads: a message that finds it full is written for  *)
(* ever.                                                                     *)
GetsStuck(s) ==
  /\ server[s] = "up" /\ stdin[s] # <<>>
  /\ stdin' = [stdin EXCEPT ![s] = Tail(@)]
  /\ server' = [server EXCEPT ![s] = "stuck"]
  /\ UNCHANGED <<clientVars, callVars, stdout, readVars>>

(* A tool that calls sys.exit(), or a signal, ends the process.  What it did *)
(* not read is lost, what it wrote can still be read.                        *)
Dies(s) ==
  /\ Alive(s)
  /\ server' = [server EXCEPT ![s] = "dead"]
  /\ stdin' = [stdin EXCEPT ![s] = <<>>]
  /\ UNCHANGED <<clientVars, callVars, stdout, readVars>>

-----------------------------------------------------------------------------
(* _reader_loop and _response_handler_loop.  What a reader that has ended     *)
(* leaves in its pipe is read by nobody.                                     *)

Read(s) ==
  /\ s \in reader /\ stdout[s] # <<>>
  /\ \/ /\ running
        /\ stdout' = [stdout EXCEPT ![s] = Tail(@)]
        /\ responses' = Append(responses, Head(stdout[s]))
        /\ UNCHANGED reader
     \/ /\ ~running
        /\ stdout' = [stdout EXCEPT ![s] = <<>>]
        /\ reader' = reader \ {s}
        /\ UNCHANGED responses
  /\ UNCHANGED <<clientVars, callVars, stdin, server, handlers>>

ReaderEnds(s) ==
  /\ s \in reader /\ stdout[s] = <<>> /\ server[s] = "dead"
  /\ reader' = reader \ {s}
  /\ UNCHANGED <<clientVars, callVars, serverVars, handlers, responses>>

SetResult(i, response) ==
  /\ pending' = [pending EXCEPT ![i] = NoCall]
  /\ thread' = [t \in Threads |->
                  IF thread[t].got = Unset /\ Waits(t, pending[i])
                    THEN [thread[t] EXCEPT !.got = response] ELSE thread[t]]

(* A plausible slip: the oldest request is completed, without looking at the *)
(* id, "since the server answers in order".                                  *)
CompleteOldest(line) ==
  LET open == {i \in Ids : pending[i] # NoCall}
      i == CHOOSE j \in open : \A k \in open : pending[j] <= pending[k]
  IN IF open = {}
       THEN UNCHANGED <<pending, thread>>
       ELSE SetResult(i, line.call)

(* _complete_request: a response under an unknown id is dropped. *)
CompleteRequest(line) ==
  IF pending[line.id] = NoCall
    THEN UNCHANGED <<pending, thread>>
    ELSE SetResult(line.id, line.call)

(* A handler that waits in get() takes a response even when _running is      *)
(* FALSE by then, and one that was busy or asleep while the client stopped   *)
(* and started lives on.                                                     *)
Handle ==
  /\ handlers # {} /\ responses # <<>>
  /\ responses' = Tail(responses)
  /\ CompleteRequest(Head(responses))
  /\ UNCHANGED <<clientVars, nextId, calls, serverVars, reader, handlers>>

HandlerEnds(s) ==
  /\ s \in handlers /\ ~running
  /\ handlers' = handlers \ {s}
  /\ UNCHANGED <<clientVars, callVars, serverVars, reader, responses>>

StopStep == StopClears \/ StopTerminates
SessionStep(s) == Serve(s) \/ GetsStuck(s)
ReaderStep(s) == Read(s) \/ ReaderEnds(s)

StdioNext ==
  \/ \E t \in Callers : CallerCalls(t)
  \/ \E t \in Threads : Request(t) \/ Timeout(t)
  \/ CleanupStaleRequests
  \/ StartClient \/ StopClient \/ StopStep
  \/ \E s \in Sessions : SessionStep(s) \/ Dies(s) \/ ReaderStep(s) \/ HandlerEnds(s)
  \/ Handle

StdioSpec == StdioInit /\ [][StdioNext]_stdioVars

(* Threads run and processes are scheduled; no timeout has to fire.          *)
StdioFairness ==
  /\ \A t \in Threads : WF_stdioVars(Request(t))
  /\ WF_stdioVars(StopStep) /\ WF_stdioVars(Handle)
  /\ \A s \in Sessions : WF_stdioVars(SessionStep(s)) /\ WF_stdioVars(ReaderStep(s))

-----------------------------------------------------------------------------
(* A caller gets the response to its own request, never that to a request    *)
(* that timed out, was cleaned up, or went to an earlier process: ids go on  *)
(* over sessions, the response queue is shared by all of them, and a late    *)
(* response must meet no newer request.                                      *)
OwnAnswer ==
  \A t \in Threads : thread[t].got \in Calls => thread[t].got = thread[t].call

Expects(t, i) ==
  /\ thread[t].at \in {"write", "wait"} /\ thread[t].id = i
  /\ thread[t].got = Unset

(* A request is registered exactly as long as its caller can still be        *)
(* answered: no entry is left behind by a timeout, a broken pipe, a cleanup  *)
(* or a stop, and none of them takes the entry of another call.              *)
PendingExact ==
  \A i \in Ids :
    /\ pending[i] # NoCall =>
         \E t \in Threads : Expects(t, i) /\ thread[t].call = pending[i]
    /\ \A t \in Threads : Expects(t, i) => pending[i] = thread[t].call

Sent(t, s) ==
  /\ thread[t].at = "wait"
  /\ [id |-> thread[t].id, call |-> thread[t].call] \in
       {stdin[s][k] : k \in DOMAIN stdin[s]}

(* A request that reached a server is answered without any timeout, unless   *)
(* the client is stopped or the server ends or gets stuck on its stderr: the *)
(* threads an earlier session left behind take nothing away from this one.   *)
AnswersArrive ==
  \A t \in Threads, s \in Sessions :
    Sent(t, s) ~> thread[t].at # "wait" \/ ~running \/ server[s] # "up"
=============================================================================
