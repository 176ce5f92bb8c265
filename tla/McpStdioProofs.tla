--------------------------- MODULE McpStdioProofs ---------------------------
(* Request correlation of the MCP client for any number of caller threads,   *)
(* sessions and calls, as long as the counter does not meet an id again      *)
(* (MaxCalls <= IdCount).                                                    *)
EXTENDS McpServed, SequenceTheorems, TLAPS

USE DEF servedVars, stdioVars, clientVars, callVars, serverVars, readVars

(* The id that the n-th call of a behaviour gets. *)
IdOf(n) == IF FirstId + n - 1 <= IdCount THEN FirstId + n - 1 ELSE FirstId + n - 1 - IdCount

(* A line about a call carries that call's id. *)
Genuine == {l \in Line : l.id = IdOf(l.call)}

SessionInv == running \/ calls > 0 \/ main # "free" => session > 0
CounterInv == nextId = IdOf(calls + 1)
ThreadInv ==
  /\ \A t \in Threads : thread[t].at = "idle" => thread[t] = Idle
  /\ \A t \in Threads : thread[t].at # "idle" =>
       thread[t].call \in 1..calls /\ thread[t].id = IdOf(thread[t].call)
  /\ \A t \in Threads : thread[t].at = "track" => thread[t].got = Unset
  /\ \A t, u \in Threads : thread[t].call = thread[u].call /\ thread[t].at # "idle" => t = u
LineInv ==
  /\ stdin \in [Sessions -> Seq(Genuine)] /\ stdout \in [Sessions -> Seq(Genuine)]
  /\ responses \in Seq(Genuine)

StdioInv ==
  /\ StdioTypeOK /\ SessionInv /\ CounterInv /\ ThreadInv /\ LineInv
  /\ OwnAnswer /\ PendingExact

(* No two calls of a behaviour have one id. *)
LEMMA IdsAreFresh ==
  /\ \A n \in 1..(MaxCalls + 1) : IdOf(n) \in Ids
  /\ \A m, n \in Calls : IdOf(m) = IdOf(n) => m = n
BY StdioAssumption DEF IdOf, Ids, Calls

LEMMA NextId ==
  ASSUME NEW n \in 1..MaxCalls
  PROVE  Wrap(IdOf(n)) = IdOf(n + 1)
BY StdioAssumption DEF Wrap, IdOf, Ids

LEMMA NotACall ==
  NoCall \notin Calls /\ Unset \notin Calls /\ ErrorReply \notin Calls /\ ErrorReply # Unset
BY StdioAssumption DEF NoCall, Unset, ErrorReply, Calls

LEMMA StdioInitInv == StdioInit => StdioInv
<1> SUFFICES ASSUME StdioInit PROVE StdioInv
    OBVIOUS
<1>1. Idle \in [at : {"idle", "track", "write", "wait"}, call : Calls \cup {NoCall},
               id : Ids, got : Calls \cup {Unset, ErrorReply}]
    BY StdioAssumption DEF Idle, Ids
<1>2. StdioTypeOK
  <2>1. thread \in [Threads -> [at : {"idle", "track", "write", "wait"},
                               call : Calls \cup {NoCall}, id : Ids,
                               got : Calls \cup {Unset, ErrorReply}]]
    BY <1>1 DEF StdioInit
  <2>2. session \in 0..MaxSessions /\ calls \in 0..MaxCalls /\ nextId \in Ids
    BY StdioAssumption DEF StdioInit
  <2>3. /\ pending \in [Ids -> Calls \cup {NoCall}]
        /\ server \in [Sessions -> {"none", "up", "stuck", "dead"}]
    BY DEF StdioInit
  <2>4. /\ stdin \in [Sessions -> Seq(Line)] /\ stdout \in [Sessions -> Seq(Line)]
        /\ responses \in Seq(Line)
    BY DEF StdioInit
  <2> QED BY <2>1, <2>2, <2>3, <2>4 DEF StdioInit, StdioTypeOK
<1>3. SessionInv /\ CounterInv
    BY StdioAssumption DEF StdioInit, SessionInv, CounterInv, IdOf, Ids
<1>4. ThreadInv
    BY NotACall DEF StdioInit, ThreadInv, Idle
<1>5. LineInv
    BY DEF StdioInit, LineInv
<1>6. OwnAnswer /\ PendingExact
    BY NotACall DEF StdioInit, OwnAnswer, PendingExact, Expects, Idle
<1> QED BY <1>2, <1>3, <1>4, <1>5, <1>6 DEF StdioInv

(* Steps that concern no caller. *)
LEMMA CallersUntouched ==
  ASSUME StdioInv, UNCHANGED callVars, StdioTypeOK', SessionInv', LineInv'
  PROVE  StdioInv'
BY DEF StdioInv, CounterInv, ThreadInv, OwnAnswer, PendingExact, Expects, IdOf

(* A new call: of a caller, or the initialize() of Main. *)
LEMMA NewCallKeeps ==
  ASSUME StdioInv, NEW t \in Threads,
         thread[t].at = "idle", calls < MaxCalls, calls' = calls + 1,
         thread' = [thread EXCEPT ![t] = NewCall], nextId' = Wrap(nextId),
         UNCHANGED pending
  PROVE  /\ nextId' \in Ids /\ calls' \in 0..MaxCalls
         /\ thread' \in [Threads -> [at : {"idle", "track", "write", "wait"},
                                     call : Calls \cup {NoCall}, id : Ids,
                                     got : Calls \cup {Unset, ErrorReply}]]
         /\ CounterInv' /\ ThreadInv' /\ OwnAnswer' /\ PendingExact'
<1> USE DEF StdioInv, StdioTypeOK
<1>1. calls + 1 \in Calls /\ calls + 1 \in 1..MaxCalls /\ nextId = IdOf(calls + 1)
    BY StdioAssumption DEF Calls, CounterInv
<1>2. CounterInv' /\ nextId' \in Ids /\ calls' \in 0..MaxCalls
  <2>1. nextId' = IdOf(calls' + 1)
    BY <1>1, NextId
  <2>2. calls' + 1 \in 1..(MaxCalls + 1)
    BY StdioAssumption
  <2>3. CounterInv'
    BY <2>1 DEF CounterInv, IdOf
  <2>4. nextId' \in Ids
    BY <2>1, <2>2, IdsAreFresh
  <2> QED BY <1>1, <2>3, <2>4, StdioAssumption
<1>3. NewCall \in [at : {"idle", "track", "write", "wait"}, call : Calls \cup {NoCall},
                  id : Ids, got : Calls \cup {Unset, ErrorReply}]
    BY <1>1 DEF NewCall
<1>4. \A u \in Threads : thread[u].call # calls + 1
    BY <1>1 DEF ThreadInv, Idle, NoCall
<1>5. ThreadInv'
  <2>1. \A u \in Threads : thread'[u] = IF u = t THEN NewCall ELSE thread[u]
    OBVIOUS
  <2>2. \A u \in Threads : thread'[u].at # "idle" =>
          thread'[u].call \in 1..calls' /\ thread'[u].id = IdOf(thread'[u].call)
    BY <1>1, <2>1 DEF ThreadInv, NewCall
  <2>3. \A u \in Threads : thread'[u].at = "idle" => thread'[u] = Idle
    BY <2>1 DEF ThreadInv, NewCall
  <2>4. \A u \in Threads : thread'[u].at = "track" => thread'[u].got = Unset
    BY <2>1 DEF ThreadInv, NewCall
  <2>5. \A u, v \in Threads :
          thread'[u].call = thread'[v].call /\ thread'[u].at # "idle" => u = v
    BY <1>4, <2>1 DEF ThreadInv, NewCall
  <2> QED BY <2>2, <2>3, <2>4, <2>5 DEF ThreadInv, Idle, IdOf
<1>6. OwnAnswer'
    BY NotACall DEF OwnAnswer, NewCall
<1>7. PendingExact'
  <2>1. \A u \in Threads, i \in Ids : Expects(u, i)' <=> Expects(u, i)
    BY DEF Expects, NewCall
  <2>2. \A u \in Threads, i \in Ids : Expects(u, i) => thread'[u].call = thread[u].call
    BY DEF Expects
  <2> QED BY <2>1, <2>2 DEF PendingExact
<1> QED BY <1>2, <1>3, <1>5, <1>6, <1>7

(* What a completion, a cleanup and a stop have in common: every thread      *)
(* whose registration goes gets a result, and it is its own or an error.     *)
LEMMA ResultsKeep ==
  ASSUME StdioInv, NEW gone \in SUBSET Ids, NEW r \in [Calls -> Calls \cup {ErrorReply}],
         \A n \in Calls : r[n] \in {n, ErrorReply},
         UNCHANGED <<calls, nextId>>,
         pending' = [i \in Ids |-> IF i \in gone THEN NoCall ELSE pending[i]],
         thread' = [t \in Threads |->
                      IF thread[t].got = Unset /\ \E i \in gone : Waits(t, pending[i])
                        THEN [thread[t] EXCEPT !.got = r[thread[t].call]] ELSE thread[t]]
  PROVE  /\ pending' \in [Ids -> Calls \cup {NoCall}]
         /\ thread' \in [Threads -> [at : {"idle", "track", "write", "wait"},
                                     call : Calls \cup {NoCall}, id : Ids,
                                     got : Calls \cup {Unset, ErrorReply}]]
         /\ CounterInv' /\ ThreadInv' /\ OwnAnswer' /\ PendingExact'
<1> USE DEF StdioInv, StdioTypeOK
<1>1. pending' \in [Ids -> Calls \cup {NoCall}]
    OBVIOUS
<1> DEFINE hit == {t \in Threads :
                     thread[t].got = Unset /\ \E i \in gone : Waits(t, pending[i])}
<1>2. ASSUME NEW t \in hit
      PROVE  /\ thread[t].call \in Calls /\ thread[t].at \in {"write", "wait"}
             /\ \E i \in gone : pending[i] = thread[t].call /\ Expects(t, i)
  <2>1. PICK i \in gone : Waits(t, pending[i])
    BY <1>2
  <2>2. pending[i] # NoCall /\ thread[t].call = pending[i] /\ thread[t].call \in Calls
    BY <2>1 DEF Waits
  <2>3. PICK u \in Threads : Expects(u, i) /\ thread[u].call = pending[i]
    BY <2>2 DEF PendingExact
  <2>4. u = t
    BY <2>2, <2>3 DEF ThreadInv, Expects
  <2> QED BY <2>1, <2>2, <2>3, <2>4 DEF Expects
<1>3. \A t \in Threads :
        thread'[t] = IF t \in hit THEN [thread[t] EXCEPT !.got = r[thread[t].call]] ELSE thread[t]
    OBVIOUS
<1> HIDE DEF hit
<1>4. ASSUME NEW t \in Threads
      PROVE  /\ thread'[t] \in [at : {"idle", "track", "write", "wait"},
                                call : Calls \cup {NoCall}, id : Ids,
                                got : Calls \cup {Unset, ErrorReply}]
             /\ thread'[t].at = thread[t].at /\ thread'[t].id = thread[t].id
             /\ thread'[t].call = thread[t].call
             /\ t \notin hit => thread'[t] = thread[t]
             /\ t \in hit => thread'[t].got \in {thread[t].call, ErrorReply}
  <2>1. CASE t \in hit
    <3>1. thread[t].call \in Calls /\ r[thread[t].call] \in {thread[t].call, ErrorReply}
      BY <1>2, <2>1
    <3>2. thread'[t] = [thread[t] EXCEPT !.got = r[thread[t].call]]
      BY <1>3, <2>1
    <3>3. thread[t] \in [at : {"idle", "track", "write", "wait"},
                        call : Calls \cup {NoCall}, id : Ids,
                        got : Calls \cup {Unset, ErrorReply}]
      OBVIOUS
    <3> QED BY ONLY <2>1, <3>1, <3>2, <3>3
  <2>2. CASE t \notin hit
    BY <1>3, <2>2
  <2> QED BY <2>1, <2>2
<1>5. thread' \in [Threads -> [at : {"idle", "track", "write", "wait"},
                              call : Calls \cup {NoCall}, id : Ids,
                              got : Calls \cup {Unset, ErrorReply}]]
    BY <1>4
<1>6. CounterInv'
    BY DEF CounterInv, IdOf
<1>7. ThreadInv'
  <2>1. \A t \in Threads : thread[t].at \in {"idle", "track"} => thread'[t] = thread[t]
    <3>1. \A t \in Threads : thread[t].at \in {"idle", "track"} => t \notin hit
      BY <1>2
    <3> QED BY <1>4, <3>1
  <2>2. \A t \in Threads : thread'[t].at # "idle" =>
          thread'[t].call \in 1..calls /\ thread'[t].id = IdOf(thread'[t].call)
    BY <1>4 DEF ThreadInv
  <2>3. \A t \in Threads : thread'[t].at = "track" => thread'[t].got = Unset
    BY <1>4, <2>1 DEF ThreadInv
  <2>4. \A t, u \in Threads :
          thread'[t].call = thread'[u].call /\ thread'[t].at # "idle" => t = u
    BY <1>4 DEF ThreadInv
  <2>5. \A t \in Threads : thread'[t].at = "idle" => thread'[t] = Idle
    BY <1>4, <2>1 DEF ThreadInv
  <2> QED BY <2>2, <2>3, <2>4, <2>5 DEF ThreadInv, Idle, IdOf
<1>8. OwnAnswer'
    BY <1>4, NotACall DEF OwnAnswer
<1>9. PendingExact'
  <2>1. ASSUME NEW t \in Threads, NEW i \in Ids
        PROVE  Expects(t, i)' <=> Expects(t, i) /\ i \notin gone
    <3>1. CASE t \in hit
      <4>1. ~Expects(t, i)'
        <5>1. thread[t].call \in Calls /\ thread'[t].got \in {thread[t].call, ErrorReply}
          BY <1>2, <1>4, <3>1
        <5>2. thread'[t].got # Unset
          BY <5>1, NotACall
        <5> QED BY <5>2 DEF Expects
      <4>2. PICK j \in gone : pending[j] = thread[t].call /\ Expects(t, j)
        BY <1>2, <3>1
      <4>3. Expects(t, i) => i = j
        BY <4>2 DEF Expects
      <4> QED BY <4>1, <4>2, <4>3
    <3>2. CASE t \notin hit
      <4>1. Expects(t, i)' <=> Expects(t, i)
        BY <1>4, <3>2 DEF Expects
      <4>2. Expects(t, i) => i \notin gone
        <5>1. SUFFICES ASSUME Expects(t, i), i \in gone PROVE t \in hit
          BY <3>2
        <5>2. pending[i] = thread[t].call /\ thread[t].got = Unset
          BY <5>1 DEF PendingExact, Expects
        <5>3. thread[t].call # NoCall
          BY <5>1 DEF Expects, ThreadInv, NoCall
        <5> QED BY <5>1, <5>2, <5>3 DEF hit, Waits
      <4> QED BY <4>1, <4>2
    <3> QED BY <3>1, <3>2
  <2>2. ASSUME NEW i \in Ids, pending'[i] # NoCall
        PROVE  \E t \in Threads : Expects(t, i)' /\ thread'[t].call = pending'[i]
    <3>1. i \notin gone /\ pending'[i] = pending[i]
      BY <2>2
    <3>2. PICK t \in Threads : Expects(t, i) /\ thread[t].call = pending[i]
      BY <2>2, <3>1 DEF PendingExact
    <3> QED BY <1>4, <2>1, <3>1, <3>2
  <2>3. ASSUME NEW i \in Ids, NEW t \in Threads, Expects(t, i)'
        PROVE  pending'[i] = thread'[t].call
    BY <1>4, <2>1, <2>3 DEF PendingExact
  <2> QED BY <2>2, <2>3 DEF PendingExact
<1> QED BY <1>1, <1>5, <1>6, <1>7, <1>8, <1>9

LEMMA ActiveCall ==
  ASSUME StdioInv, NEW t \in Threads, thread[t].at # "idle"
  PROVE  /\ thread[t].call \in Calls /\ thread[t].call # NoCall
         /\ thread[t].id \in Ids /\ thread[t].id = IdOf(thread[t].call)
<1>1. thread[t].call \in 1..calls /\ thread[t].id = IdOf(thread[t].call)
    BY DEF StdioInv, ThreadInv
<1>2. calls \in 0..MaxCalls /\ thread[t].id \in Ids
    BY DEF StdioInv, StdioTypeOK
<1> QED BY <1>1, <1>2, StdioAssumption DEF Calls, NoCall

(* A thread that leaves _send_request takes what is pending under its id     *)
(* with it, or has a result and nothing is.                                  *)
LEMMA LeavingKeeps ==
  ASSUME StdioInv, NEW t \in Threads, thread[t].at \in {"write", "wait"},
         thread' = [thread EXCEPT ![t] = Idle], UNCHANGED <<calls, nextId>>,
         \/ pending' = [pending EXCEPT ![thread[t].id] = NoCall]
         \/ thread[t].got # Unset /\ UNCHANGED pending
  PROVE  /\ pending' \in [Ids -> Calls \cup {NoCall}]
         /\ thread' \in [Threads -> [at : {"idle", "track", "write", "wait"},
                                     call : Calls \cup {NoCall}, id : Ids,
                                     got : Calls \cup {Unset, ErrorReply}]]
         /\ CounterInv' /\ ThreadInv' /\ OwnAnswer' /\ PendingExact'
<1> USE DEF StdioInv, StdioTypeOK
<1>1. Idle \in [at : {"idle", "track", "write", "wait"}, call : Calls \cup {NoCall},
               id : Ids, got : Calls \cup {Unset, ErrorReply}]
    BY StdioAssumption DEF Idle, Ids
<1>2. pending' \in [Ids -> Calls \cup {NoCall}]
    OBVIOUS
<1>3. \A u \in Threads : thread'[u] = IF u = t THEN Idle ELSE thread[u]
    OBVIOUS
<1>4. CounterInv'
    BY DEF CounterInv, IdOf
<1>5. ThreadInv'
  <2>1. \A u \in Threads : thread'[u].at = "idle" => thread'[u] = Idle
    BY <1>3 DEF ThreadInv
  <2>2. \A u \in Threads : thread'[u].at # "idle" => u # t
    BY <1>3 DEF Idle
  <2>3. \A u, v \in Threads :
          thread'[u].call = thread'[v].call /\ thread'[u].at # "idle" => u = v
    <3>1. \A u \in Threads : thread[u].at # "idle" => thread[u].call # NoCall
      BY ActiveCall
    <3> QED BY <1>3, <2>2, <3>1 DEF ThreadInv, Idle
  <2>4. \A u \in Threads : thread'[u].at # "idle" =>
          thread'[u].call \in 1..calls /\ thread'[u].id = IdOf(thread'[u].call)
    BY <1>3, <2>2 DEF ThreadInv
  <2>5. \A u \in Threads : thread'[u].at = "track" => thread'[u].got = Unset
    BY <1>3, <2>2 DEF ThreadInv
  <2> QED BY <2>1, <2>3, <2>4, <2>5 DEF ThreadInv, Idle, IdOf
<1>6. OwnAnswer'
    BY <1>3, NotACall DEF OwnAnswer, Idle
<1>7. \A u \in Threads, i \in Ids : Expects(u, i)' <=> Expects(u, i) /\ u # t
    BY <1>3 DEF Expects, Idle
<1>8. ASSUME NEW u \in Threads, NEW i \in Ids, Expects(u, i), u # t
      PROVE  pending'[i] = pending[i]
  <2>1. CASE thread[t].got # Unset /\ UNCHANGED pending
    BY <2>1
  <2>2. CASE pending' = [pending EXCEPT ![thread[t].id] = NoCall]
    <3>1. thread[u].call \in Calls /\ thread[t].call \in Calls
      BY <1>8, ActiveCall DEF Expects
    <3>2. thread[u].call # thread[t].call
      BY <1>8 DEF Expects, ThreadInv
    <3>3. thread[t].id = IdOf(thread[t].call) /\ i = IdOf(thread[u].call)
      BY <1>8 DEF Expects, ThreadInv
    <3>4. i # thread[t].id
      BY <3>1, <3>2, <3>3, IdsAreFresh
    <3> QED BY <2>2, <3>4
  <2> QED BY <2>1, <2>2
<1>9. ASSUME NEW i \in Ids, pending'[i] # NoCall
      PROVE  \E u \in Threads : Expects(u, i)' /\ thread'[u].call = pending'[i]
  <2>1. pending'[i] = pending[i]
    BY <1>9
  <2>2. PICK u \in Threads : Expects(u, i) /\ thread[u].call = pending[i]
    BY <1>9, <2>1 DEF PendingExact
  <2>3. u # t
    BY <1>9, <2>2 DEF Expects
  <2> QED BY <1>3, <1>7, <2>1, <2>2, <2>3
<1>10. ASSUME NEW i \in Ids, NEW u \in Threads, Expects(u, i)'
       PROVE  pending'[i] = thread'[u].call
  <2>1. Expects(u, i) /\ u # t
    BY <1>7, <1>10
  <2> QED BY <1>3, <1>8, <2>1 DEF PendingExact
<1>11. PendingExact'
    BY <1>9, <1>10 DEF PendingExact
<1> QED BY <1>1, <1>2, <1>3, <1>4, <1>5, <1>6, <1>11

LEMMA TrackKeeps ==
  ASSUME StdioInv, NEW t \in Threads, Track(t)
  PROVE  StdioInv'
<1> USE DEF StdioInv, StdioTypeOK, Track
<1>1. /\ thread[t].call \in Calls /\ thread[t].id \in Ids /\ thread[t].got = Unset
      /\ thread[t].id = IdOf(thread[t].call)
    BY ActiveCall DEF ThreadInv
<1>2. pending[thread[t].id] = NoCall
  <2>1. SUFFICES ASSUME pending[thread[t].id] # NoCall PROVE FALSE
    OBVIOUS
  <2>2. PICK u \in Threads : Expects(u, thread[t].id)
    BY <1>1, <2>1 DEF PendingExact
  <2>3. u # t /\ thread[u].call \in Calls /\ IdOf(thread[u].call) = IdOf(thread[t].call)
    BY <1>1, <2>2, ActiveCall DEF Expects
  <2>4. thread[u].call = thread[t].call
    BY <1>1, <2>3, IdsAreFresh
  <2> QED BY <2>3, <2>4 DEF ThreadInv
<1>3. \A u \in Threads :
        thread'[u] = IF u = t THEN [thread[t] EXCEPT !.at = "write"] ELSE thread[u]
    OBVIOUS
<1>4. StdioTypeOK'
  <2>1. [thread[t] EXCEPT !.at = "write"] \in
           [at : {"idle", "track", "write", "wait"}, call : Calls \cup {NoCall},
            id : Ids, got : Calls \cup {Unset, ErrorReply}]
    OBVIOUS
  <2> QED BY <1>1, <2>1
<1>5. ThreadInv'
    BY <1>3 DEF ThreadInv, IdOf, Idle
<1>6. SessionInv' /\ CounterInv' /\ LineInv'
    BY DEF SessionInv, CounterInv, LineInv, IdOf, Genuine
<1>7. OwnAnswer'
    BY <1>3 DEF OwnAnswer
<1>8. PendingExact'
  <2>1. \A u \in Threads, i \in Ids :
          Expects(u, i)' <=> IF u = t THEN i = thread[t].id ELSE Expects(u, i)
    BY <1>1, <1>3 DEF Expects
  <2>2. \A i \in Ids :
          pending'[i] = IF i = thread[t].id THEN thread[t].call ELSE pending[i]
    OBVIOUS
  <2>3. \A u \in Threads : thread'[u].call = thread[u].call
    BY <1>3
  <2>4. \A u \in Threads : ~Expects(u, thread[t].id)
    BY <1>1, <1>2, ActiveCall DEF PendingExact, Expects
  <2>5. ~\E i \in Ids : Expects(t, i)
    BY DEF Expects
  <2>6. ASSUME NEW i \in Ids, pending'[i] # NoCall
        PROVE  \E u \in Threads : Expects(u, i)' /\ thread'[u].call = pending'[i]
    BY <2>1, <2>2, <2>3, <2>5, <2>6 DEF PendingExact
  <2>7. ASSUME NEW i \in Ids, NEW u \in Threads, Expects(u, i)'
        PROVE  pending'[i] = thread'[u].call
    BY <2>1, <2>2, <2>3, <2>4, <2>7 DEF PendingExact
  <2> QED BY <2>6, <2>7 DEF PendingExact
<1> QED BY <1>4, <1>5, <1>6, <1>7, <1>8

LEMMA WriteKeeps ==
  ASSUME StdioInv, NEW t \in Threads, Write(t)
  PROVE  StdioInv'
<1> USE DEF StdioInv, StdioTypeOK, Write
<1>1. thread[t].call \in Calls /\ thread[t].id = IdOf(thread[t].call) /\ thread[t].id \in Ids
    BY ActiveCall
<1>2. session \in Sessions
  <2>1. calls > 0
    <3>1. thread[t].call \in 1..calls
      BY DEF ThreadInv
    <3> QED BY <3>1
  <2> QED BY <2>1, StdioAssumption DEF SessionInv, Sessions
<1> DEFINE line == [id |-> thread[t].id, call |-> thread[t].call]
<1>3. line \in Genuine /\ line \in Line
    BY <1>1 DEF Genuine, Line
<1>4. stdin' = [stdin EXCEPT ![session] = Append(@, line)]
    OBVIOUS
<1> HIDE DEF line
<1>5. stdin' \in [Sessions -> Seq(Genuine)] /\ stdin' \in [Sessions -> Seq(Line)]
    BY <1>2, <1>3, <1>4 DEF LineInv
<1>6. \A u \in Threads :
        thread'[u] = IF u = t THEN [thread[t] EXCEPT !.at = "wait"] ELSE thread[u]
    OBVIOUS
<1>7. StdioTypeOK'
  <2>1. [thread[t] EXCEPT !.at = "wait"] \in
           [at : {"idle", "track", "write", "wait"}, call : Calls \cup {NoCall},
            id : Ids, got : Calls \cup {Unset, ErrorReply}]
    OBVIOUS
  <2> QED BY <1>5, <2>1
<1>8. ThreadInv'
    BY <1>6 DEF ThreadInv, IdOf, Idle
<1>9. SessionInv' /\ CounterInv' /\ LineInv'
    BY <1>5 DEF SessionInv, CounterInv, LineInv, IdOf, Genuine
<1>10. OwnAnswer'
    BY <1>6 DEF OwnAnswer
<1>11. PendingExact'
  <2>1. \A u \in Threads, i \in Ids :
          (Expects(u, i)' <=> Expects(u, i)) /\ thread'[u].call = thread[u].call
    BY <1>6 DEF Expects
  <2> QED BY <2>1 DEF PendingExact
<1> QED BY <1>7, <1>8, <1>9, <1>10, <1>11

LEMMA LeavingSteps ==
  ASSUME StdioInv, NEW t \in Threads, BrokenPipe(t) \/ Timeout(t) \/ Return(t)
  PROVE  StdioInv'
<1>1. UNCHANGED <<clientVars, nextId, calls, serverVars, readVars>>
    BY DEF BrokenPipe, Timeout, Return
<1>2. /\ thread[t].at \in {"write", "wait"} /\ thread' = [thread EXCEPT ![t] = Idle]
      /\ \/ pending' = [pending EXCEPT ![thread[t].id] = NoCall]
         \/ thread[t].got # Unset /\ UNCHANGED pending
    BY DEF BrokenPipe, Timeout, Return, Raise
<1>3. /\ pending' \in [Ids -> Calls \cup {NoCall}]
      /\ thread' \in [Threads -> [at : {"idle", "track", "write", "wait"},
                                  call : Calls \cup {NoCall}, id : Ids,
                                  got : Calls \cup {Unset, ErrorReply}]]
      /\ CounterInv' /\ ThreadInv' /\ OwnAnswer' /\ PendingExact'
    BY <1>1, <1>2, LeavingKeeps
<1>4. StdioTypeOK' /\ SessionInv' /\ LineInv'
    BY <1>1, <1>3 DEF StdioInv, StdioTypeOK, SessionInv, LineInv
<1> QED BY <1>3, <1>4 DEF StdioInv

LEMMA CallSteps ==
  ASSUME StdioInv, StartClient \/ \E t \in Callers : CallerCalls(t)
  PROVE  StdioInv'
<1> DEFINE Kept ==
      /\ nextId' \in Ids /\ calls' \in 0..MaxCalls
      /\ thread' \in [Threads -> [at : {"idle", "track", "write", "wait"},
                                  call : Calls \cup {NoCall}, id : Ids,
                                  got : Calls \cup {Unset, ErrorReply}]]
      /\ CounterInv' /\ ThreadInv' /\ OwnAnswer' /\ PendingExact'
<1>1. CASE \E t \in Callers : CallerCalls(t)
  <2>1. PICK t \in Callers : CallerCalls(t)
    BY <1>1
  <2>2. Kept
    BY <2>1, NewCallKeeps DEF CallerCalls, Call, Threads
  <2>3. UNCHANGED <<clientVars, serverVars, readVars, pending>> /\ running
    BY <2>1 DEF CallerCalls, Call
  <2>4. StdioTypeOK' /\ SessionInv' /\ LineInv'
    BY <2>2, <2>3 DEF StdioInv, StdioTypeOK, SessionInv, LineInv
  <2> QED BY <2>2, <2>4 DEF StdioInv
<1>2. CASE StartClient
  <2>1. Kept
    BY <1>2, NewCallKeeps DEF StartClient, Threads
  <2>2. session' = session + 1 /\ session + 1 \in Sessions
    BY <1>2, StdioAssumption DEF StartClient, StdioInv, StdioTypeOK, Sessions
  <2>3. /\ server' \in [Sessions -> {"none", "up", "stuck", "dead"}]
        /\ reader' \in SUBSET Sessions /\ handlers' \in SUBSET Sessions
    BY <1>2, <2>2 DEF StartClient, NewReader, StdioInv, StdioTypeOK
  <2>4. StdioTypeOK'
    BY <1>2, <2>1, <2>2, <2>3 DEF StartClient, StdioInv, StdioTypeOK, Sessions
  <2>5. SessionInv' /\ LineInv'
    BY <1>2, <2>2 DEF StartClient, StdioInv, StdioTypeOK, SessionInv, LineInv
  <2> QED BY <2>1, <2>4, <2>5 DEF StdioInv
<1> QED BY <1>1, <1>2

(* Cleanup, stop and completion as instances of ResultsKeep. *)
LEMMA FailingKeeps ==
  ASSUME StdioInv, NEW ids \in SUBSET Ids, FailPending(ids),
         UNCHANGED <<session, nextId, calls, serverVars, readVars>>,
         running' = running, main' \in {"free", "clear", "terminate"},
         main' # "free" => session > 0
  PROVE  StdioInv'
<1> DEFINE r == [n \in Calls |-> ErrorReply]
<1>1. \A t \in Threads : (\E i \in ids : Waits(t, pending[i])) => r[thread[t].call] = ErrorReply
    BY DEF Waits, StdioInv, StdioTypeOK
<1>2. thread' = [t \in Threads |->
                   IF thread[t].got = Unset /\ \E i \in ids : Waits(t, pending[i])
                     THEN [thread[t] EXCEPT !.got = r[thread[t].call]] ELSE thread[t]]
    BY <1>1 DEF FailPending
<1>3. r \in [Calls -> Calls \cup {ErrorReply}] /\ \A n \in Calls : r[n] \in {n, ErrorReply}
    OBVIOUS
<1>4. pending' = [i \in Ids |-> IF i \in ids THEN NoCall ELSE pending[i]]
    BY DEF FailPending
<1> HIDE DEF r
<1>5. /\ pending' \in [Ids -> Calls \cup {NoCall}]
      /\ thread' \in [Threads -> [at : {"idle", "track", "write", "wait"},
                                  call : Calls \cup {NoCall}, id : Ids,
                                  got : Calls \cup {Unset, ErrorReply}]]
      /\ CounterInv' /\ ThreadInv' /\ OwnAnswer' /\ PendingExact'
    BY <1>2, <1>3, <1>4, ResultsKeep
<1>6. StdioTypeOK' /\ SessionInv' /\ LineInv'
    BY <1>5 DEF StdioInv, StdioTypeOK, SessionInv, LineInv
<1> QED BY <1>5, <1>6 DEF StdioInv

LEMMA HandleKeeps ==
  ASSUME StdioInv, Handle
  PROVE  StdioInv'
<1> DEFINE line == Head(responses)
<1>1. /\ responses # <<>> /\ responses' = Tail(responses) /\ CompleteRequest(line)
      /\ UNCHANGED <<clientVars, nextId, calls, serverVars, reader, handlers>>
    BY DEF Handle
<1>2. responses \in Seq(Genuine) /\ responses \in Seq(Line)
    BY DEF StdioInv, StdioTypeOK, LineInv
<1>3. /\ line \in Genuine /\ responses' \in Seq(Genuine) /\ responses' \in Seq(Line)
    BY <1>1, <1>2
<1>4. StdioTypeOK => line.id \in Ids /\ line.call \in Calls /\ line.id = IdOf(line.call)
    BY <1>3 DEF Genuine, Line
<1> HIDE DEF line
<1>5. CASE pending[line.id] = NoCall
  <2>1. UNCHANGED callVars
    BY <1>1, <1>5 DEF CompleteRequest
  <2>2. StdioTypeOK' /\ SessionInv' /\ LineInv'
    BY <1>1, <1>3, <2>1 DEF StdioInv, StdioTypeOK, SessionInv, LineInv
  <2> QED BY <2>1, <2>2, CallersUntouched
<1>6. CASE pending[line.id] # NoCall
  <2>1. SetResult(line.id, line.call)
    BY <1>1, <1>6 DEF CompleteRequest
  <2>2. PICK t \in Threads : Expects(t, line.id) /\ thread[t].call = pending[line.id]
    BY <1>4, <1>6 DEF StdioInv, PendingExact
  <2>3. pending[line.id] = line.call
    BY <1>4, <2>2, ActiveCall, IdsAreFresh DEF Expects, StdioInv
  <2> DEFINE r == [n \in Calls |-> n]
  <2>4. thread' = [u \in Threads |->
                     IF thread[u].got = Unset /\ \E i \in {line.id} : Waits(u, pending[i])
                       THEN [thread[u] EXCEPT !.got = r[thread[u].call]] ELSE thread[u]]
    BY <1>4, <2>1, <2>3 DEF SetResult, Waits, StdioInv
  <2>5. pending' = [i \in Ids |-> IF i \in {line.id} THEN NoCall ELSE pending[i]]
    BY <2>1 DEF SetResult, StdioInv, StdioTypeOK
  <2>6. /\ r \in [Calls -> Calls \cup {ErrorReply}] /\ \A n \in Calls : r[n] \in {n, ErrorReply}
        /\ {line.id} \in SUBSET Ids
    BY <1>4 DEF StdioInv
  <2> HIDE DEF r
  <2>7. /\ pending' \in [Ids -> Calls \cup {NoCall}]
        /\ thread' \in [Threads -> [at : {"idle", "track", "write", "wait"},
                                    call : Calls \cup {NoCall}, id : Ids,
                                    got : Calls \cup {Unset, ErrorReply}]]
        /\ CounterInv' /\ ThreadInv' /\ OwnAnswer' /\ PendingExact'
    BY <1>1, <2>4, <2>5, <2>6, ResultsKeep
  <2>8. StdioTypeOK' /\ SessionInv' /\ LineInv'
    BY <1>1, <1>3, <2>7 DEF StdioInv, StdioTypeOK, SessionInv, LineInv
  <2> QED BY <2>7, <2>8 DEF StdioInv
<1> QED BY <1>5, <1>6

(* The server, the pipes and the threads of the client. *)
LEMMA ServerKeeps ==
  ASSUME StdioInv,
         \/ StopClient \/ StopTerminates
         \/ \E s \in Sessions : SessionStep(s) \/ Dies(s) \/ ReaderStep(s) \/ HandlerEnds(s)
  PROVE  StdioInv'
<1>1. UNCHANGED callVars
    BY DEF StopClient, StopTerminates, SessionStep, Serve, GetsStuck, Dies, ReaderStep, Read,
           ReaderEnds, HandlerEnds
<1> USE DEF StdioInv, StdioTypeOK
<1>2. CASE StopClient
  <2>1. StdioTypeOK' /\ SessionInv' /\ LineInv'
    BY <1>1, <1>2 DEF StopClient, SessionInv, LineInv
  <2> QED BY <1>1, <2>1, CallersUntouched
<1>3. CASE StopTerminates
  <2>1. session \in Sessions
    BY <1>3, StdioAssumption DEF StopTerminates, SessionInv, Sessions
  <2>2. /\ stdin' \in [Sessions -> Seq(Genuine)] /\ stdin' \in [Sessions -> Seq(Line)]
        /\ server' \in [Sessions -> {"none", "up", "stuck", "dead"}]
    BY <1>3, <2>1 DEF StopTerminates, LineInv
  <2>3. StdioTypeOK' /\ SessionInv' /\ LineInv'
    BY <1>1, <1>3, <2>2 DEF StopTerminates, SessionInv, LineInv
  <2> QED BY <1>1, <2>3, CallersUntouched
<1>4. ASSUME NEW s \in Sessions, Serve(s) \/ GetsStuck(s) \/ Dies(s) PROVE StdioInv'
  <2>1. /\ stdin[s] \in Seq(Genuine) /\ stdin[s] \in Seq(Line)
        /\ stdout[s] \in Seq(Genuine) /\ stdout[s] \in Seq(Line)
    BY DEF LineInv
  <2>2. CASE Serve(s)
    <3>1. stdin[s] # <<>>
      BY <2>2 DEF Serve
    <3>2. /\ Tail(stdin[s]) \in Seq(Genuine) /\ Tail(stdin[s]) \in Seq(Line)
          /\ Append(stdout[s], Head(stdin[s])) \in Seq(Genuine)
          /\ Append(stdout[s], Head(stdin[s])) \in Seq(Line)
      BY <2>1, <3>1
    <3>3. StdioTypeOK' /\ SessionInv' /\ LineInv'
      BY <1>1, <2>2, <3>2 DEF Serve, SessionInv, LineInv
    <3> QED BY <1>1, <3>3, CallersUntouched
  <2>3. CASE GetsStuck(s)
    <3>1. Tail(stdin[s]) \in Seq(Genuine) /\ Tail(stdin[s]) \in Seq(Line)
      BY <2>1, <2>3 DEF GetsStuck
    <3>2. StdioTypeOK' /\ SessionInv' /\ LineInv'
      BY <1>1, <2>3, <3>1 DEF GetsStuck, SessionInv, LineInv
    <3> QED BY <1>1, <3>2, CallersUntouched
  <2>4. CASE Dies(s)
    <3>1. StdioTypeOK' /\ SessionInv' /\ LineInv'
      BY <1>1, <2>4 DEF Dies, SessionInv, LineInv
    <3> QED BY <1>1, <3>1, CallersUntouched
  <2> QED BY <1>4, <2>2, <2>3, <2>4
<1>5. ASSUME NEW s \in Sessions, Read(s) PROVE StdioInv'
  <2>1. /\ stdout[s] \in Seq(Genuine) /\ stdout[s] \in Seq(Line) /\ stdout[s] # <<>>
        /\ responses \in Seq(Genuine) /\ responses \in Seq(Line)
    BY <1>5 DEF LineInv, Read
  <2>2. /\ Tail(stdout[s]) \in Seq(Genuine) /\ Tail(stdout[s]) \in Seq(Line)
        /\ Append(responses, Head(stdout[s])) \in Seq(Genuine)
        /\ Append(responses, Head(stdout[s])) \in Seq(Line)
    BY <2>1
  <2>3. /\ responses' \in Seq(Genuine) /\ responses' \in Seq(Line)
        /\ stdout' \in [Sessions -> Seq(Genuine)] /\ stdout' \in [Sessions -> Seq(Line)]
        /\ reader' \in SUBSET Sessions
    <3>1. CASE running
      <4>1. /\ responses' = Append(responses, Head(stdout[s])) /\ reader' = reader
            /\ stdout' = [stdout EXCEPT ![s] = Tail(@)]
        BY <1>5, <3>1 DEF Read
      <4> QED BY <2>2, <4>1 DEF LineInv
    <3>2. CASE ~running
      <4>1. /\ responses' = responses /\ reader' = reader \ {s}
            /\ stdout' = [stdout EXCEPT ![s] = <<>>]
        BY <1>5, <3>2 DEF Read
      <4> QED BY <2>1, <4>1 DEF LineInv
    <3> QED BY <3>1, <3>2
  <2>4. StdioTypeOK' /\ SessionInv' /\ LineInv'
    BY <1>1, <1>5, <2>3 DEF Read, SessionInv, LineInv
  <2> QED BY <1>1, <2>4, CallersUntouched
<1>6. ASSUME NEW s \in Sessions, ReaderEnds(s) \/ HandlerEnds(s) PROVE StdioInv'
  <2>1. StdioTypeOK' /\ SessionInv' /\ LineInv'
    BY <1>1, <1>6 DEF ReaderEnds, HandlerEnds, SessionInv, LineInv
  <2> QED BY <1>1, <2>1, CallersUntouched
<1> QED BY <1>2, <1>3, <1>4, <1>5, <1>6 DEF SessionStep, ReaderStep

LEMMA StdioStepInv == StdioInv /\ [StdioNext]_stdioVars => StdioInv'
<1> SUFFICES ASSUME StdioInv, [StdioNext]_stdioVars PROVE StdioInv'
    OBVIOUS
<1>1. CASE \E t \in Callers : CallerCalls(t)
    BY <1>1, CallSteps
<1>2. ASSUME NEW t \in Threads, Request(t) \/ Timeout(t) PROVE StdioInv'
    BY <1>2, TrackKeeps, WriteKeeps, LeavingSteps DEF Request
<1>3. CASE CleanupStaleRequests
  <2>1. PICK ids \in SUBSET Ids : FailPending(ids)
    BY <1>3 DEF CleanupStaleRequests
  <2>2. UNCHANGED <<session, nextId, calls, serverVars, readVars>> /\ running' = running
        /\ main' = main
    BY <1>3 DEF CleanupStaleRequests
  <2>3. main' \in {"free", "clear", "terminate"} /\ (main' # "free" => session > 0)
    BY <2>2 DEF StdioInv, StdioTypeOK, SessionInv
  <2>4. UNCHANGED <<session, nextId, calls, serverVars, readVars>> /\ running' = running
    BY <2>2
  <2> QED BY <2>1, <2>3, <2>4, FailingKeeps
<1>4. CASE StartClient
    BY <1>4, CallSteps
<1>5. CASE StopClears
  <2>1. FailPending(Ids) /\ UNCHANGED <<session, nextId, calls, serverVars, readVars>>
        /\ running' = running /\ main' = "terminate" /\ main = "clear"
    BY <1>5 DEF StopClears
  <2>2. session > 0
    BY <2>1 DEF StdioInv, SessionInv
  <2> QED BY <2>1, <2>2, FailingKeeps
<1>6. CASE StopClient \/ StopTerminates
    BY <1>6, ServerKeeps
<1>7. CASE \E s \in Sessions : SessionStep(s) \/ Dies(s) \/ ReaderStep(s) \/ HandlerEnds(s)
    BY <1>7, ServerKeeps
<1>8. CASE Handle
    BY <1>8, HandleKeeps
<1>9. CASE UNCHANGED stdioVars
  <2>1. StdioTypeOK' /\ SessionInv' /\ LineInv' /\ UNCHANGED callVars
    BY <1>9 DEF StdioInv, StdioTypeOK, SessionInv, LineInv
  <2> QED BY <2>1, CallersUntouched
<1> QED BY <1>1, <1>2, <1>3, <1>4, <1>5, <1>6, <1>7, <1>8, <1>9 DEF StdioNext, StopStep

(* The inductive invariant holds. *)
THEOREM StdioInvariant == StdioSpec => []StdioInv
<1> QED BY StdioInitInv, StdioStepInv, PTL DEF StdioSpec

(* Types of client and server, for any number of callers and sessions. *)
THEOREM StdioTypeCorrect == StdioSpec => []StdioTypeOK
<1>1. StdioInv => StdioTypeOK
    BY DEF StdioInv
<1> QED BY <1>1, StdioInvariant, PTL

(* _complete_request hands every caller the response to its own request,     *)
(* over timeouts, cleanups, stops and restarts of any number of sessions.    *)
THEOREM AnswersAreOwn == StdioSpec => []OwnAnswer
<1>1. StdioInv => OwnAnswer
    BY DEF StdioInv
<1> QED BY <1>1, StdioInvariant, PTL

(* _pending_requests holds a request exactly as long as its caller can still *)
(* be answered.                                                              *)
THEOREM RegistrationExact == StdioSpec => []PendingExact
<1>1. StdioInv => PendingExact
    BY DEF StdioInv
<1> QED BY <1>1, StdioInvariant, PTL

-----------------------------------------------------------------------------
(* The requests in the servers.  A call's line is still to be written, or it *)
(* is in a pipe to a server, once, or a server took it up.                   *)

Unsent(n) == \E t \in Threads : thread[t].at \in {"track", "write"} /\ thread[t].call = n
Queued(n) == \E s \in Sessions : \E k \in DOMAIN stdin[s] : stdin[s][k].call = n
Answered(n) ==
  \/ \E s \in Sessions : \E k \in DOMAIN stdout[s] : stdout[s][k].call = n
  \/ \E k \in DOMAIN responses : responses[k].call = n

OnceInv ==
  /\ served \in [Calls -> {0, 1}]
  /\ \A n \in Calls : n > calls \/ Unsent(n) \/ Queued(n) => served[n] = 0
  /\ \A n \in Calls : Answered(n) => served[n] = 1
QueuedInv ==
  /\ \A n \in Calls : Queued(n) => n <= calls /\ ~Unsent(n)
  /\ \A r, s \in Sessions : \A j \in DOMAIN stdin[r], k \in DOMAIN stdin[s] :
       stdin[r][j].call = stdin[s][k].call => r = s /\ j = k

ServedInv == OnceInv /\ QueuedInv

LEMMA LineAt ==
  ASSUME NEW q \in Seq(Line), NEW k \in DOMAIN q
  PROVE  q[k] \in Line /\ q[k].call \in Calls /\ k \in Nat
<1>1. k \in 1..Len(q) /\ Len(q) \in Nat
    OBVIOUS
<1>2. q[k] \in Line
    BY <1>1
<1> QED BY <1>1, <1>2 DEF Line

LEMMA ServedInitInv == ServedInit => ServedInv
<1> SUFFICES ASSUME ServedInit PROVE ServedInv
    OBVIOUS
<1>1. /\ \A s \in Sessions : stdin[s] = <<>> /\ stdout[s] = <<>>
      /\ responses = <<>> /\ served = [n \in Calls |-> 0]
    BY DEF ServedInit, StdioInit
<1>2. \A n : ~Queued(n) /\ ~Answered(n)
    BY <1>1 DEF Queued, Answered
<1>3. OnceInv
    BY <1>1, <1>2 DEF OnceInv
<1>4. QueuedInv
    BY <1>1, <1>2 DEF QueuedInv
<1> QED BY <1>3, <1>4 DEF ServedInv

(* Steps that put no line into a stdin and take none up. *)
LEMMA NoLineMoves ==
  ASSUME StdioInv, ServedInv, calls' \in Nat, calls <= calls', UNCHANGED served,
         \A n \in Calls : Unsent(n)' => Unsent(n) \/ n > calls,
         \A s \in Sessions : stdin'[s] \in {stdin[s], <<>>},
         \A n \in Calls : Answered(n)' => Answered(n)
  PROVE  ServedInv'
<1> USE DEF ServedInv
<1>1. \A s \in Sessions : \A k \in DOMAIN stdin'[s] : stdin'[s] = stdin[s] /\ k \in DOMAIN stdin[s]
    OBVIOUS
<1>2. \A n \in Calls : Queued(n)' => Queued(n)
    BY <1>1 DEF Queued
<1>3. \A n \in Calls : n > calls' => n > calls
    BY DEF StdioInv, StdioTypeOK, Calls
<1>4. OnceInv'
    BY <1>2, <1>3 DEF OnceInv
<1>5. QueuedInv'
  <2>1. ASSUME NEW n \in Calls, Queued(n)' PROVE n <= calls' /\ ~Unsent(n)'
    <3>1. n <= calls /\ ~Unsent(n)
      BY <1>2, <2>1 DEF QueuedInv
    <3>2. calls \in Nat /\ n \in Nat
      BY DEF StdioInv, StdioTypeOK, Calls
    <3> QED BY <3>1, <3>2
  <2>2. ASSUME NEW r \in Sessions, NEW s \in Sessions, NEW j \in DOMAIN stdin'[r],
               NEW k \in DOMAIN stdin'[s], stdin'[r][j].call = stdin'[s][k].call
        PROVE  r = s /\ j = k
    <3>1. /\ stdin'[r] = stdin[r] /\ j \in DOMAIN stdin[r]
          /\ stdin'[s] = stdin[s] /\ k \in DOMAIN stdin[s]
      BY <1>1
    <3> QED BY <2>2, <3>1 DEF QueuedInv
  <2>3. \A n \in Calls : Queued(n)' => n <= calls' /\ ~Unsent(n)'
    BY <2>1
  <2> QED BY <2>2, <2>3 DEF QueuedInv
<1> QED BY <1>4, <1>5

LEMMA WriteServed ==
  ASSUME StdioInv, ServedInv, NEW t \in Threads, Write(t), UNCHANGED served
  PROVE  ServedInv'
<1> USE DEF ServedInv
<1>1. PICK n \in Calls : n = thread[t].call
    BY ActiveCall DEF Write
<1>2. n <= calls /\ Unsent(n) /\ calls \in Nat
    BY <1>1 DEF Write, Unsent, StdioInv, StdioTypeOK, ThreadInv, Calls
<1>3. session \in Sessions
    BY <1>2, StdioAssumption DEF StdioInv, StdioTypeOK, SessionInv, Sessions, Calls
<1>4. PICK q \in Seq(Line) : q = stdin[session]
    BY <1>3 DEF StdioInv, StdioTypeOK
<1>5. PICK l \in Line : l = [id |-> thread[t].id, call |-> thread[t].call]
    BY <1>1, ActiveCall DEF Write, Line
<1>6. l.call = n
    BY <1>1, <1>5
<1>7. \A s \in Sessions : stdin'[s] = IF s = session THEN Append(q, l) ELSE stdin[s]
    BY <1>3, <1>4, <1>5 DEF Write, StdioInv, StdioTypeOK
<1>8. UNCHANGED <<calls, stdout, responses>>
    BY DEF Write
<1>9. \A u \in Threads : thread'[u] = IF u = t THEN [thread[t] EXCEPT !.at = "wait"] ELSE thread[u]
    BY DEF Write, StdioInv, StdioTypeOK
<1>10. ~Unsent(n)'
  <2>1. SUFFICES ASSUME NEW u \in Threads, thread'[u].at \in {"track", "write"}, thread'[u].call = n
                 PROVE  FALSE
    BY DEF Unsent
  <2>2. u # t
    BY <1>9, <2>1 DEF StdioInv, StdioTypeOK
  <2>3. thread[u].at # "idle" /\ thread[u].call = thread[t].call
    BY <1>1, <1>9, <2>1, <2>2
  <2> QED BY <2>2, <2>3 DEF StdioInv, ThreadInv
<1>11. \A m \in Calls : Unsent(m)' => Unsent(m)
    BY <1>9 DEF Unsent, StdioInv, StdioTypeOK
<1>12. ASSUME NEW s \in Sessions, NEW k \in DOMAIN stdin'[s]
       PROVE  \/ k \in DOMAIN stdin[s] /\ stdin'[s][k] = stdin[s][k]
              \/ s = session /\ k = Len(q) + 1 /\ stdin'[s][k] = l
  <2>1. CASE s = session
    <3>1. stdin'[s] = Append(q, l)
      BY <1>7, <2>1
    <3> QED BY <1>4, <2>1, <3>1
  <2>2. CASE s # session
    BY <1>7, <1>12, <2>2
  <2> QED BY <2>1, <2>2
<1>13. \A m \in Calls : Queued(m)' => Queued(m) \/ m = n
    BY <1>6, <1>12 DEF Queued
<1>14. ~Queued(n) /\ served[n] = 0
    BY <1>2 DEF QueuedInv, OnceInv
<1>15. OnceInv'
  <2>1. \A m \in Calls : Answered(m)' => Answered(m)
    BY <1>8 DEF Answered
  <2> QED BY <1>8, <1>11, <1>13, <1>14, <2>1 DEF OnceInv
<1>16. QueuedInv'
  <2>1. \A m \in Calls : Queued(m)' => m <= calls' /\ ~Unsent(m)'
    BY <1>2, <1>8, <1>10, <1>11, <1>13 DEF QueuedInv
  <2>2. ASSUME NEW r \in Sessions, NEW s \in Sessions, NEW j \in DOMAIN stdin'[r],
               NEW k \in DOMAIN stdin'[s], stdin'[r][j].call = stdin'[s][k].call
        PROVE  r = s /\ j = k
    <3>1. CASE stdin'[r][j] = stdin[r][j] /\ j \in DOMAIN stdin[r]
      <4>1. stdin'[s][k] # l
        BY <1>6, <1>14, <2>2, <3>1 DEF Queued
      <4>2. stdin'[s][k] = stdin[s][k] /\ k \in DOMAIN stdin[s]
        BY <1>12, <4>1
      <4> QED BY <2>2, <3>1, <4>2 DEF QueuedInv
    <3>2. CASE r = session /\ j = Len(q) + 1 /\ stdin'[r][j] = l
      <4>1. stdin'[s][k].call = n
        BY <1>6, <2>2, <3>2
      <4> QED BY <1>12, <1>14, <3>2, <4>1 DEF Queued
    <3> QED BY <1>12, <3>1, <3>2
  <2> QED BY <2>1, <2>2 DEF QueuedInv
<1> QED BY <1>15, <1>16

(* What a server takes up. *)
LEMMA SessionTakes ==
  ASSUME StdioInv, NEW s \in Sessions, SessionStep(s)
  PROVE  /\ stdin[s] \in Seq(Line) /\ stdin[s] # <<>> /\ UNCHANGED <<clientVars, callVars>>
         /\ stdin' = [stdin EXCEPT ![s] = Tail(stdin[s])] /\ stdin'[s] # stdin[s]
         /\ stdout' \in {stdout, [stdout EXCEPT ![s] = Append(stdout[s], Head(stdin[s]))]}
         /\ UNCHANGED readVars
         /\ \A r \in Sessions : SessionStep(r) => r = s
<1>1. stdin[s] \in Seq(Line) /\ stdin[s] # <<>> /\ stdin' = [stdin EXCEPT ![s] = Tail(stdin[s])]
    BY DEF SessionStep, Serve, GetsStuck, StdioInv, StdioTypeOK
<1>2. \A q \in Seq(Line) : q # <<>> => Tail(q) # q
  <2>1. ASSUME NEW q \in Seq(Line), q # <<>> PROVE Tail(q) # q
    <3>1. Len(Tail(q)) = Len(q) - 1 /\ Len(q) \in Nat
      BY <2>1
    <3> QED BY <3>1
  <2> QED BY <2>1
<1>3. stdin \in [Sessions -> Seq(Line)]
    BY DEF StdioInv, StdioTypeOK
<1>4. stdin'[s] # stdin[s]
    BY <1>1, <1>2, <1>3
<1>5. ASSUME NEW r \in Sessions, SessionStep(r) PROVE r = s
  <2>1. stdin' = [stdin EXCEPT ![r] = Tail(stdin[r])]
    BY <1>5 DEF SessionStep, Serve, GetsStuck
  <2> QED BY <1>3, <1>4, <2>1
<1>6. /\ UNCHANGED <<clientVars, callVars, readVars>>
      /\ stdout' \in {stdout, [stdout EXCEPT ![s] = Append(stdout[s], Head(stdin[s]))]}
    BY DEF SessionStep, Serve, GetsStuck
<1> QED BY <1>1, <1>4, <1>5, <1>6

LEMMA SessionServed ==
  ASSUME StdioInv, ServedInv, ServedNext, NEW s \in Sessions, SessionStep(s)
  PROVE  /\ ServedInv'
         /\ \E n \in Calls : n <= calls /\ served[n] = 0 /\ served' = [served EXCEPT ![n] = 1]
<1> USE DEF ServedInv
<1>1. PICK q \in Seq(Line) : q = stdin[s] /\ q # <<>>
    BY SessionTakes
<1>2. PICK l \in Line : l = Head(q) /\ l = q[1]
    BY <1>1
<1>3. PICK n \in Calls : n = l.call
    BY <1>2 DEF Line
<1>4. 1 \in DOMAIN stdin[s] /\ stdin[s][1] = l
    BY <1>1, <1>2
<1>5. Queued(n) /\ n <= calls /\ ~Unsent(n) /\ served[n] = 0
    BY <1>3, <1>4 DEF Queued, QueuedInv, OnceInv
<1>6. \A m \in Calls : TakenUp(m) <=> m = n
    BY <1>1, <1>2, <1>3, SessionTakes DEF TakenUp
<1>7. served' = [served EXCEPT ![n] = 1]
  <2>1. served' = [m \in Calls |-> IF TakenUp(m) THEN served[m] + 1 ELSE served[m]]
    BY DEF ServedNext
  <2>2. \A m \in Calls : served'[m] = IF m = n THEN 1 ELSE served[m]
    BY <1>5, <1>6, <2>1
  <2>3. served' = [m \in Calls |-> served'[m]] /\ served \in [Calls -> {0, 1}]
    BY <2>1 DEF OnceInv
  <2> QED BY <2>2, <2>3
<1>8. UNCHANGED <<clientVars, callVars, readVars>>
    BY SessionTakes
<1>9. \A m : Unsent(m)' <=> Unsent(m)
    BY <1>8 DEF Unsent
<1>10. ASSUME NEW r \in Sessions, NEW k \in DOMAIN stdin'[r]
       PROVE  \E j \in DOMAIN stdin[r] :
                /\ stdin'[r][k] = stdin[r][j] /\ stdin[r][j].call # n
                /\ k \in Nat /\ j = IF r = s THEN k + 1 ELSE k
  <2>1. stdin[r] \in Seq(Line)
    BY DEF StdioInv, StdioTypeOK
  <2>2. CASE r = s
    <3>1. stdin'[r] = Tail(q)
      BY <1>1, <2>2, SessionTakes DEF StdioInv, StdioTypeOK
    <3>2. k \in Nat /\ k + 1 \in DOMAIN q /\ stdin'[r][k] = q[k + 1] /\ k + 1 # 1
      <4>1. k \in 1..Len(Tail(q)) /\ Len(Tail(q)) = Len(q) - 1
        BY <1>1, <1>10, <3>1
      <4> QED BY <1>1, <3>1, <4>1
    <3>3. q[k + 1].call # n
      BY <1>1, <1>3, <1>4, <2>2, <3>2 DEF QueuedInv
    <3> QED BY <1>1, <2>2, <3>2, <3>3
  <2>3. CASE r # s
    <3>1. stdin'[r] = stdin[r]
      BY <2>3, SessionTakes DEF StdioInv, StdioTypeOK
    <3>2. stdin[r][k].call # n
      BY <1>3, <1>4, <1>10, <2>3, <3>1 DEF QueuedInv
    <3>3. k \in Nat
      BY <1>10, <2>1, <3>1, LineAt
    <3> QED BY <1>10, <2>3, <3>1, <3>2, <3>3
  <2> QED BY <2>2, <2>3
<1>11. \A m \in Calls : Queued(m)' => Queued(m) /\ m # n
    BY <1>10 DEF Queued
<1>12. \A m \in Calls : Answered(m)' => Answered(m) \/ m = n
  <2>1. SUFFICES ASSUME NEW m \in Calls, Answered(m)', ~Answered(m) PROVE m = n
    OBVIOUS
  <2>2. PICK r \in Sessions : \E j \in DOMAIN stdout'[r] : stdout'[r][j].call = m
    BY <1>8, <2>1 DEF Answered
  <2>3. PICK j \in DOMAIN stdout'[r] : stdout'[r][j].call = m
    BY <2>2
  <2>4. stdout[r] \in Seq(Line)
    BY DEF StdioInv, StdioTypeOK
  <2>5. stdout'[r] # stdout[r]
    BY <2>1, <2>3 DEF Answered
  <2>6. stdout' \in {stdout, [stdout EXCEPT ![s] = Append(stdout[s], l)]}
    BY <1>1, <1>2, SessionTakes
  <2>7. stdout'[r] = Append(stdout[r], l)
    BY <2>5, <2>6 DEF StdioInv, StdioTypeOK
  <2>8. \/ j \in DOMAIN stdout[r] /\ stdout'[r][j] = stdout[r][j]
        \/ stdout'[r][j] = l
    BY <2>3, <2>4, <2>7
  <2> QED BY <1>3, <2>1, <2>3, <2>8 DEF Answered
<1>13. OnceInv'
  <2>1. served' \in [Calls -> {0, 1}]
    BY <1>7 DEF OnceInv
  <2>2. \A m \in Calls : m > calls' => m # n
    BY <1>5, <1>8 DEF StdioInv, StdioTypeOK, Calls
  <2>3. \A m \in Calls : m > calls' \/ Unsent(m)' \/ Queued(m)' => served'[m] = 0
    BY <1>5, <1>7, <1>8, <1>9, <1>11, <2>2 DEF OnceInv
  <2>4. \A m \in Calls : Answered(m)' => served'[m] = 1
    BY <1>5, <1>7, <1>12 DEF OnceInv
  <2> QED BY <2>1, <2>3, <2>4 DEF OnceInv
<1>14. QueuedInv'
  <2>1. \A m \in Calls : Queued(m)' => m <= calls' /\ ~Unsent(m)'
    BY <1>8, <1>9, <1>11 DEF QueuedInv
  <2>2. ASSUME NEW r \in Sessions, NEW u \in Sessions, NEW j \in DOMAIN stdin'[r],
               NEW k \in DOMAIN stdin'[u], stdin'[r][j].call = stdin'[u][k].call
        PROVE  r = u /\ j = k
    <3>1. PICK a \in DOMAIN stdin[r] :
             stdin'[r][j] = stdin[r][a] /\ j \in Nat /\ a = IF r = s THEN j + 1 ELSE j
      BY <1>10
    <3>2. PICK b \in DOMAIN stdin[u] :
             stdin'[u][k] = stdin[u][b] /\ k \in Nat /\ b = IF u = s THEN k + 1 ELSE k
      BY <1>10
    <3>3. r = u /\ a = b
      BY <2>2, <3>1, <3>2 DEF QueuedInv
    <3> QED BY <3>1, <3>2, <3>3
  <2> QED BY <2>1, <2>2 DEF QueuedInv
<1> QED BY <1>5, <1>7, <1>13, <1>14

(* The other steps. *)
LEMMA OthersServed ==
  ASSUME StdioInv, ServedInv, ServedNext, \A s \in Sessions : ~SessionStep(s)
  PROVE  ServedInv' /\ UNCHANGED served
<1> DEFINE At == {"idle", "track", "write", "wait"}
<1> DEFINE Got == Calls \cup {Unset, ErrorReply}
<1>0. /\ thread \in [Threads -> [at : At, call : Calls \cup {NoCall}, id : Ids, got : Got]]
      /\ stdin \in [Sessions -> Seq(Line)] /\ stdout \in [Sessions -> Seq(Line)]
      /\ responses \in Seq(Line) /\ calls \in Nat
    BY DEF StdioInv, StdioTypeOK
<1> HIDE DEF At, Got
<1>1. calls \in Nat /\ UNCHANGED served
  <2>1. \A n \in Calls : ~TakenUp(n)
    BY DEF TakenUp
  <2> QED BY <1>0, <2>1 DEF ServedNext, ServedInv, OnceInv
<1>2. CASE \E t \in Threads : Write(t)
    BY <1>1, <1>2, WriteServed
(* Calls: the new one was not made before. *)
<1>3. ASSUME NEW t \in Threads, thread' = [thread EXCEPT ![t] = NewCall], calls' = calls + 1,
             UNCHANGED <<stdin, stdout, responses>>
      PROVE  ServedInv'
  <2>1. \A n \in Calls : Unsent(n)' => Unsent(n) \/ n > calls
    <3>1. \A u \in Threads : thread'[u] = IF u = t THEN NewCall ELSE thread[u]
      BY <1>0, <1>3
    <3>2. NewCall.call > calls
      BY <1>0 DEF NewCall
    <3> QED BY <3>1, <3>2 DEF Unsent
  <2>2. \A n \in Calls : Answered(n)' => Answered(n)
    BY <1>3 DEF Answered
  <2>3. calls' \in Nat /\ calls <= calls'
    BY <1>1, <1>3
  <2> QED BY <1>1, <1>3, <2>1, <2>2, <2>3, NoLineMoves
(* Steps of a call already made. *)
<1>4. ASSUME UNCHANGED <<calls, stdin, stdout>>, responses' \in {responses, Tail(responses)},
             responses' # responses => responses # <<>>,
             \A u \in Threads : thread'[u].at \in {"track", "write"} =>
                                  /\ thread[u].at \in {"track", "write"}
                                  /\ thread'[u].call = thread[u].call
      PROVE  ServedInv'
  <2>1. \A n \in Calls : Unsent(n)' => Unsent(n) \/ n > calls
    BY <1>4 DEF Unsent
  <2>2. \A n \in Calls : Answered(n)' => Answered(n)
    <3>1. \A k \in DOMAIN responses' : \E j \in DOMAIN responses : responses'[k] = responses[j]
      <4>1. CASE responses' = responses
        BY <4>1
      <4>2. CASE responses' = Tail(responses) /\ responses # <<>>
        <5>1. ASSUME NEW k \in DOMAIN responses'
              PROVE  k + 1 \in DOMAIN responses /\ responses'[k] = responses[k + 1]
          <6>1. k \in 1..Len(Tail(responses)) /\ Len(Tail(responses)) = Len(responses) - 1
            BY <1>0, <4>2, <5>1
          <6> QED BY <1>0, <4>2, <6>1
        <5> QED BY <5>1
      <4> QED BY <1>4, <4>1, <4>2
    <3> QED BY <1>4, <3>1 DEF Answered
  <2> QED BY <1>1, <1>4, <2>1, <2>2, NoLineMoves
(* Steps that leave the callers alone. *)
<1>5. ASSUME UNCHANGED <<calls, thread>>, \A s \in Sessions : stdin'[s] \in {stdin[s], <<>>},
             \A n \in Calls : Answered(n)' => Answered(n)
      PROVE  ServedInv'
  <2>1. \A n \in Calls : Unsent(n)' => Unsent(n) \/ n > calls
    BY <1>5 DEF Unsent
  <2> QED BY <1>1, <1>5, <2>1, NoLineMoves
<1>6. ASSUME NEW ids \in SUBSET Ids, FailPending(ids), UNCHANGED <<calls, serverVars, readVars>>
      PROVE  ServedInv'
  <2>1. \A u \in Threads : thread'[u].at = thread[u].at /\ thread'[u].call = thread[u].call
    <3>1. \A u \in Threads :
            thread'[u] = thread[u] \/ thread'[u] = [thread[u] EXCEPT !.got = ErrorReply]
      BY <1>6 DEF FailPending
    <3> QED BY <1>0, <3>1
  <2> QED BY <1>4, <1>6, <2>1
<1>7. ASSUME NEW t \in Callers, CallerCalls(t) PROVE ServedInv'
  <2>1. /\ t \in Threads /\ thread' = [thread EXCEPT ![t] = NewCall] /\ calls' = calls + 1
        /\ UNCHANGED <<stdin, stdout, responses>>
    BY <1>7 DEF CallerCalls, Call, Threads
  <2> QED BY <1>3, <2>1
<1>8. CASE StartClient
  <2>1. /\ Main \in Threads /\ thread' = [thread EXCEPT ![Main] = NewCall]
        /\ calls' = calls + 1 /\ UNCHANGED <<stdin, stdout, responses>>
    BY <1>8 DEF StartClient, Threads
  <2> QED BY <1>1, <1>3, <2>1
<1>9. ASSUME NEW t \in Threads, Track(t) \/ BrokenPipe(t) \/ Return(t) \/ Timeout(t)
      PROVE  ServedInv'
  <2>1. thread' = [thread EXCEPT ![t] = Idle] \/ Track(t)
    BY <1>9 DEF BrokenPipe, Return, Timeout, Raise
  <2>2. \A u \in Threads : thread'[u].at \in {"track", "write"} =>
          thread[u].at \in {"track", "write"} /\ thread'[u].call = thread[u].call
    <3>1. CASE thread' = [thread EXCEPT ![t] = Idle]
      <4>1. \A u \in Threads : thread'[u] = IF u = t THEN Idle ELSE thread[u]
        BY <1>0, <3>1
      <4>2. \A u \in Threads : thread'[u].at \in {"track", "write"} => u # t
        BY <4>1 DEF Idle
      <4> QED BY <4>1, <4>2
    <3>2. CASE Track(t)
      <4>1. \A u \in Threads :
              thread'[u] = IF u = t THEN [thread[t] EXCEPT !.at = "write"] ELSE thread[u]
        BY <1>0, <3>2 DEF Track
      <4> QED BY <1>0, <3>2, <4>1 DEF Track
    <3> QED BY <2>1, <3>1, <3>2
  <2>3. UNCHANGED <<calls, stdin, stdout, responses>>
    BY <1>9 DEF Track, BrokenPipe, Return, Timeout
  <2> QED BY <1>4, <2>2, <2>3
<1>10. CASE CleanupStaleRequests
  <2>1. PICK ids \in SUBSET Ids : FailPending(ids)
    BY <1>10 DEF CleanupStaleRequests
  <2>2. UNCHANGED <<calls, serverVars, readVars>>
    BY <1>10 DEF CleanupStaleRequests
  <2> QED BY <1>1, <1>6, <2>1, <2>2
<1>11. CASE StopClears
  <2>1. FailPending(Ids) /\ UNCHANGED <<calls, serverVars, readVars>>
    BY <1>11 DEF StopClears
  <2> QED BY <1>1, <1>6, <2>1
<1>12. CASE StopClient
  <2>1. UNCHANGED <<calls, thread, stdin, stdout, responses>>
    BY <1>12 DEF StopClient
  <2>2. \A n \in Calls : Answered(n)' => Answered(n)
    BY <2>1 DEF Answered
  <2> QED BY <1>1, <1>5, <2>1, <2>2
<1>13. CASE StopTerminates
  <2>1. UNCHANGED <<calls, thread, stdout, responses>>
    BY <1>13 DEF StopTerminates
  <2>2. \A s \in Sessions : stdin'[s] \in {stdin[s], <<>>}
    BY <1>0, <1>13 DEF StopTerminates
  <2>3. \A n \in Calls : Answered(n)' => Answered(n)
    BY <2>1 DEF Answered
  <2> QED BY <1>1, <1>5, <2>1, <2>2, <2>3
<1>14. ASSUME NEW s \in Sessions, Dies(s) PROVE ServedInv'
    BY <1>5, <1>14 DEF Dies, Answered
<1>15. ASSUME NEW s \in Sessions, Read(s) PROVE ServedInv'
  <2>1. UNCHANGED <<calls, thread, stdin>>
    BY <1>15 DEF Read
  <2>2. /\ stdout[s] \in Seq(Line) /\ stdout[s] # <<>> /\ responses \in Seq(Line)
        /\ stdout \in [Sessions -> Seq(Line)]
    BY <1>0, <1>15 DEF Read
  <2>3. ASSUME NEW r \in Sessions, NEW k \in DOMAIN stdout'[r]
        PROVE  \E j \in DOMAIN stdout[r] : stdout'[r][k] = stdout[r][j]
    <3>1. CASE stdout'[r] = stdout[r]
      BY <2>3, <3>1
    <3>2. CASE stdout'[r] = <<>>
      BY <2>3, <3>2
    <3>3. CASE r = s /\ stdout'[r] = Tail(stdout[r])
      <4>1. k \in 1..Len(Tail(stdout[r])) /\ Len(Tail(stdout[r])) = Len(stdout[r]) - 1
        BY <2>2, <2>3, <3>3
      <4>2. k + 1 \in DOMAIN stdout[r] /\ stdout'[r][k] = stdout[r][k + 1]
        BY <2>2, <3>3, <4>1
      <4> QED BY <4>2
    <3> QED BY <1>15, <2>2, <3>1, <3>2, <3>3 DEF Read
  <2>4. ASSUME NEW k \in DOMAIN responses'
        PROVE  \/ k \in DOMAIN responses /\ responses'[k] = responses[k]
               \/ responses'[k] = stdout[s][1] /\ 1 \in DOMAIN stdout[s]
    <3>1. CASE responses' = responses
      BY <2>4, <3>1
    <3>2. CASE responses' = Append(responses, Head(stdout[s]))
      BY <2>2, <2>4, <3>2
    <3> QED BY <1>15, <3>1, <3>2 DEF Read
  <2>5. \A n \in Calls : Answered(n)' => Answered(n)
    BY <2>3, <2>4 DEF Answered
  <2> QED BY <1>5, <2>1, <2>5
<1>16. ASSUME NEW s \in Sessions, ReaderEnds(s) \/ HandlerEnds(s) PROVE ServedInv'
    BY <1>5, <1>16 DEF ReaderEnds, HandlerEnds, Answered
<1>17. CASE Handle
  <2>1. /\ UNCHANGED <<calls, stdin, stdout>> /\ responses # <<>>
        /\ responses' = Tail(responses) /\ CompleteRequest(Head(responses))
    BY <1>17 DEF Handle
  <2>2. \/ UNCHANGED thread
        \/ \E i, n : SetResult(i, n)
    BY <2>1 DEF CompleteRequest
  <2>3. \A u \in Threads : thread'[u].at = thread[u].at /\ thread'[u].call = thread[u].call
    <3>1. CASE \E i, n : SetResult(i, n)
      <4>1. PICK i, n : SetResult(i, n)
        BY <3>1
      <4>2. \A u \in Threads : thread'[u] = thread[u] \/ thread'[u] = [thread[u] EXCEPT !.got = n]
        BY <4>1 DEF SetResult
      <4> QED BY <1>0, <4>2
    <3> QED BY <2>2, <3>1
  <2> QED BY <1>1, <1>4, <2>1, <2>3
<1> QED
  BY <1>1, <1>2, <1>7, <1>8, <1>9, <1>10, <1>11, <1>12, <1>13, <1>14, <1>15, <1>16, <1>17
  DEF ServedNext, StdioNext, Request, StopStep, ReaderStep

LEMMA ServedStep == StdioInv /\ ServedInv /\ [ServedNext]_servedVars => ServedInv'
<1> SUFFICES ASSUME StdioInv, ServedInv, [ServedNext]_servedVars PROVE ServedInv'
    OBVIOUS
<1>1. CASE ServedNext
    BY <1>1, SessionServed, OthersServed
<1>2. CASE UNCHANGED servedVars
    BY <1>2 DEF ServedInv, OnceInv, QueuedInv, Unsent, Queued, Answered
<1> QED BY <1>1, <1>2

-----------------------------------------------------------------------------
(* The refinement of RequestPromise.                                         *)

LEMMA WhatIsTold ==
  ASSUME NEW request, request.call \in Calls \cup {NoCall}
  PROVE  /\ request.got = Unset => Told(request) = "nothing"
         /\ request.got = ErrorReply => Told(request) = "error"
         /\ request.got \in Calls /\ request.got = request.call => Told(request) = "answer"
<1>1. request.call # Unset /\ request.call # ErrorReply
    BY StdioAssumption DEF NoCall, Unset, ErrorReply, Calls
<1>2. request.got = Unset => Told(request) = "nothing"
    BY <1>1, NotACall DEF Told
<1>3. request.got = ErrorReply => Told(request) = "error"
    BY <1>1, NotACall DEF Told
<1>4. request.got \in Calls /\ request.got = request.call => Told(request) = "answer"
    BY <1>1, NotACall DEF Told
<1> QED BY <1>2, <1>3, <1>4

(* What a caller was told depends on its request only. *)
LEMMA SameRequestSameTold ==
  ASSUME NEW a, NEW b, a.call = b.call, a.got = b.got
  PROVE  Told(a) = Told(b)
BY DEF Told

LEMMA CallOf ==
  ASSUME StdioInv, NEW t \in Threads
  PROVE  thread[t].call \in Calls \cup {NoCall}
BY DEF StdioInv, StdioTypeOK

LEMMA AskRefines ==
  ASSUME StdioInv, NEW t \in Threads, thread[t].at = "idle", calls < MaxCalls,
         calls' = calls + 1, thread' = [thread EXCEPT ![t] = NewCall], UNCHANGED served
  PROVE  Requests!Ask(t)
<1>1. thread[t] = Idle
    BY DEF StdioInv, ThreadInv
<1>2. \A u \in Threads : thread'[u] = IF u = t THEN NewCall ELSE thread[u]
    BY DEF StdioInv, StdioTypeOK
<1>3. \A u \in Threads : thread'[u].call = IF u = t THEN calls + 1 ELSE thread[u].call
    BY <1>2 DEF NewCall
<1>4. \A u \in Threads : Told(thread'[u]) = Told(thread[u])
  <2>1. calls + 1 \in Calls
    BY StdioAssumption DEF StdioInv, StdioTypeOK, Calls
  <2>2. Told(Idle) = "nothing"
    BY WhatIsTold DEF Idle
  <2>3. Told(NewCall) = "nothing"
    BY <2>1, WhatIsTold DEF NewCall
  <2> QED BY <1>1, <1>2, <2>2, <2>3
<1>5. thread[t].call = 0
    BY <1>1 DEF Idle, NoCall
<1> QED BY <1>3, <1>4, <1>5 DEF Requests!Ask

LEMMA LeaveRefines ==
  ASSUME StdioInv, NEW t \in Threads, thread[t].at \in {"write", "wait"},
         thread' = [thread EXCEPT ![t] = Idle], UNCHANGED <<calls, served>>
  PROVE  Requests!Leave(t)
<1>1. \A u \in Threads : thread'[u] = IF u = t THEN Idle ELSE thread[u]
    BY DEF StdioInv, StdioTypeOK
<1>2. \A u \in Threads : thread'[u].call = IF u = t THEN 0 ELSE thread[u].call
    BY <1>1 DEF Idle, NoCall
<1>3. Told(thread'[t]) = "nothing"
  <2>1. Told(Idle) = "nothing"
    BY WhatIsTold DEF Idle
  <2> QED BY <1>1, <2>1
<1>4. \A u \in Threads : u # t => Told(thread'[u]) = Told(thread[u])
    BY <1>1
<1>5. thread[t].call # 0
    BY ActiveCall DEF NoCall
<1> QED BY <1>2, <1>3, <1>4, <1>5 DEF Requests!Leave

LEMMA FailRefines ==
  ASSUME StdioInv, NEW ids \in SUBSET Ids, FailPending(ids), UNCHANGED <<calls, served>>
  PROVE  \E T \in SUBSET Threads : Requests!Fail(T)
<1> DEFINE hit == {t \in Threads :
                     thread[t].got = Unset /\ \E i \in ids : Waits(t, pending[i])}
<1>1. \A t \in Threads :
        thread'[t] = IF t \in hit THEN [thread[t] EXCEPT !.got = ErrorReply] ELSE thread[t]
    BY DEF FailPending
<1>2. \A t \in hit : thread[t].got = Unset /\ thread[t].call # 0
    BY DEF Waits, NoCall
<1>3. PICK T \in SUBSET Threads : T = hit
    OBVIOUS
<1> HIDE DEF hit
<1>4. thread \in [Threads -> [at : {"idle", "track", "write", "wait"},
                             call : Calls \cup {NoCall}, id : Ids,
                             got : Calls \cup {Unset, ErrorReply}]]
    BY DEF StdioInv, StdioTypeOK
<1>5. \A t \in Threads : /\ thread'[t].call = thread[t].call
                         /\ thread'[t].got = IF t \in T THEN ErrorReply ELSE thread[t].got
    BY <1>1, <1>3, <1>4
<1>6. \A t \in Threads : Told(thread'[t]) = IF t \in T THEN "error" ELSE Told(thread[t])
  <2>1. \A t \in T : Told(thread'[t]) = "error"
    BY <1>5, CallOf, WhatIsTold
  <2>2. \A t \in Threads \ T : Told(thread'[t]) = Told(thread[t])
    BY <1>5, SameRequestSameTold
  <2> QED BY <2>1, <2>2
<1>7. \A t \in T : thread[t].call # 0 /\ Told(thread[t]) = "nothing"
    BY <1>2, <1>3, CallOf, WhatIsTold
<1>8. Requests!Fail(T)
    BY <1>5, <1>6, <1>7 DEF Requests!Fail
<1> QED BY <1>8

LEMMA HandleRefines ==
  ASSUME StdioInv, ServedInv, Handle, UNCHANGED served
  PROVE  UNCHANGED Requests!promiseVars \/ \E t \in Threads : Requests!Answer(t)
<1>1. PICK q \in Seq(Line) : q = responses
    BY DEF StdioInv, StdioTypeOK
<1>2. PICK line \in Line : line = Head(q) /\ line = q[1] /\ 1 \in DOMAIN q
    BY <1>1 DEF Handle
<1>3. CompleteRequest(line) /\ UNCHANGED calls
    BY <1>1, <1>2 DEF Handle
<1>4. line.id \in Ids /\ line.call \in Calls /\ line.id = IdOf(line.call)
  <2>1. line \in Genuine
    BY <1>1, <1>2 DEF StdioInv, LineInv
  <2> QED BY <2>1 DEF Genuine, Line
<1>5. CASE pending[line.id] = NoCall
  <2>1. UNCHANGED <<thread, calls, served>>
    BY <1>3, <1>5 DEF CompleteRequest
  <2> QED BY <2>1 DEF Requests!promiseVars
<1>6. CASE pending[line.id] # NoCall
  <2>1. SetResult(line.id, line.call)
    BY <1>3, <1>6 DEF CompleteRequest
  <2>2. PICK t \in Threads : Expects(t, line.id) /\ thread[t].call = pending[line.id]
    BY <1>4, <1>6 DEF StdioInv, PendingExact
  <2>3. thread[t].call = line.call /\ pending[line.id] = line.call /\ thread[t].got = Unset
    BY <1>4, <2>2, ActiveCall, IdsAreFresh DEF Expects
  <2>4. \A u \in Threads : u # t => ~Waits(u, pending[line.id])
    BY <2>2 DEF Waits, Expects, StdioInv, ThreadInv
  <2>5. Waits(t, pending[line.id])
    BY <1>6, <2>2 DEF Waits
  <2>6. \A u \in Threads : thread'[u] = IF u = t THEN [thread[t] EXCEPT !.got = line.call] ELSE thread[u]
    BY <2>1, <2>3, <2>4, <2>5 DEF SetResult, StdioInv, StdioTypeOK
  <2>7. \A u \in Threads : thread'[u].call = thread[u].call
    BY <2>6, <1>4 DEF StdioInv, StdioTypeOK
  <2>8. Told(thread'[t]) = "answer" /\ Told(thread[t]) = "nothing"
    <3>1. thread'[t].got = line.call /\ thread'[t].call = line.call
      BY <2>3, <2>6 DEF StdioInv, StdioTypeOK
    <3> QED BY <1>4, <2>3, <3>1, CallOf, WhatIsTold
  <2>9. \A u \in Threads : u # t => Told(thread'[u]) = Told(thread[u])
    BY <2>6
  <2>10. served[thread[t].call] = 1 /\ thread[t].call # 0
    <3>1. Answered(line.call)
      BY <1>1, <1>2 DEF Answered
    <3> QED BY <1>4, <2>3, <3>1, NotACall DEF ServedInv, OnceInv, NoCall
  <2>11. Requests!Answer(t)
    BY <1>3, <2>7, <2>8, <2>9, <2>10 DEF Requests!Answer
  <2> QED BY <2>11
<1> QED BY <1>5, <1>6

(* Steps that no caller sees. *)
LEMMA UnseenRefines ==
  ASSUME UNCHANGED <<calls, served>>,
         \A t \in Threads : thread'[t].call = thread[t].call /\ thread'[t].got = thread[t].got
  PROVE  UNCHANGED Requests!promiseVars
<1>1. \A t \in Threads : Told(thread'[t]) = Told(thread[t])
    BY SameRequestSameTold
<1> QED BY <1>1 DEF Requests!promiseVars

LEMMA RequestsStep ==
  ASSUME StdioInv, ServedInv, [ServedNext]_servedVars
  PROVE  [Requests!PromiseNext]_Requests!promiseVars
<1>1. CASE UNCHANGED servedVars
    BY <1>1, UnseenRefines
<1>2. ASSUME NEW s \in Sessions, SessionStep(s), ServedNext PROVE Requests!PromiseNext
  <2>1. PICK n \in Calls : n <= calls /\ served[n] = 0 /\ served' = [served EXCEPT ![n] = 1]
    BY <1>2, SessionServed
  <2>2. UNCHANGED callVars
    BY <1>2, SessionTakes
  <2>3. Requests!Execute(n)
    BY <2>1, <2>2 DEF Requests!Execute
  <2> QED BY <2>3 DEF Requests!PromiseNext, Calls
<1>3. CASE ServedNext /\ \A s \in Sessions : ~SessionStep(s)
  <2>1. UNCHANGED served
    BY <1>3, OthersServed
  <2>2. ASSUME NEW t \in Callers, CallerCalls(t) PROVE Requests!PromiseNext
    <3>1. t \in Threads
      BY DEF Threads
    <3>2. Requests!Ask(t)
      BY <2>1, <2>2, <3>1, AskRefines DEF CallerCalls, Call
    <3> QED BY <3>1, <3>2 DEF Requests!PromiseNext
  <2>3. CASE StartClient
    <3>1. Main \in Threads
      BY DEF Threads
    <3>2. Requests!Ask(Main)
      BY <2>1, <2>3, <3>1, AskRefines DEF StartClient
    <3> QED BY <3>1, <3>2 DEF Requests!PromiseNext
  <2>4. ASSUME NEW t \in Threads, Track(t) \/ Write(t)
        PROVE  UNCHANGED Requests!promiseVars
    <3>1. UNCHANGED calls
      BY <2>4 DEF Track, Write
    <3>2. \A u \in Threads : thread'[u].call = thread[u].call /\ thread'[u].got = thread[u].got
      <4>1. \E at \in {"write", "wait"} : thread' = [thread EXCEPT ![t].at = at]
        BY <2>4 DEF Track, Write
      <4>2. PICK at \in {"write", "wait"} : thread' = [thread EXCEPT ![t].at = at]
        BY <4>1
      <4> QED BY <4>2 DEF StdioInv, StdioTypeOK
    <3> QED BY <2>1, <3>1, <3>2, UnseenRefines
  <2>5. ASSUME NEW t \in Threads, BrokenPipe(t) \/ Return(t) \/ Timeout(t)
        PROVE  Requests!PromiseNext
    <3>1. Requests!Leave(t)
      BY <2>1, <2>5, LeaveRefines DEF BrokenPipe, Return, Timeout, Raise
    <3> QED BY <3>1 DEF Requests!PromiseNext
  <2>6. CASE CleanupStaleRequests \/ StopClears
    <3>1. PICK ids \in SUBSET Ids : FailPending(ids)
      BY <2>6 DEF CleanupStaleRequests, StopClears
    <3>2. UNCHANGED calls
      BY <2>6 DEF CleanupStaleRequests, StopClears
    <3> QED BY <2>1, <3>1, <3>2, FailRefines DEF Requests!PromiseNext
  <2>7. CASE Handle
    BY <2>1, <2>7, HandleRefines DEF Requests!PromiseNext
  <2>8. CASE StopClient \/ StopTerminates
    <3>1. UNCHANGED callVars
      BY <2>8 DEF StopClient, StopTerminates
    <3> QED BY <2>1, <3>1, UnseenRefines
  <2>9. ASSUME NEW s \in Sessions, Dies(s) \/ ReaderStep(s) \/ HandlerEnds(s)
        PROVE  UNCHANGED Requests!promiseVars
    <3>1. UNCHANGED callVars
      BY <2>9 DEF Dies, ReaderStep, Read, ReaderEnds, HandlerEnds
    <3> QED BY <2>1, <3>1, UnseenRefines
  <2> QED BY <1>3, <2>2, <2>3, <2>4, <2>5, <2>6, <2>7, <2>8, <2>9
          DEF ServedNext, StdioNext, Request, StopStep
<1> QED BY <1>1, <1>2, <1>3

LEMMA RequestsInit == ServedInit => Requests!PromiseInit
<1> SUFFICES ASSUME ServedInit PROVE Requests!PromiseInit
    OBVIOUS
<1>1. calls = 0 /\ served = [n \in Calls |-> 0] /\ \A t \in Threads : thread[t] = Idle
    BY DEF ServedInit, StdioInit
<1>2. \A t \in Threads : thread[t].call = 0 /\ Told(thread[t]) = "nothing"
    BY <1>1, WhatIsTold DEF Idle, NoCall
<1> QED BY <1>1, <1>2 DEF Requests!PromiseInit, Calls

(* Whatever times out, breaks, restarts or comes late, a request is executed *)
(* by at most one server and once, and its caller is told once, an error or  *)
(* the answer to a request that was executed: nothing in _send_request,      *)
(* stop, start and run_stdio sends or serves a request again.                *)
THEOREM KeepsRequestPromise == ServedSpec => RequestsAsPromised
<1>1. StdioInv /\ ServedInv /\ [ServedNext]_servedVars => StdioInv' /\ ServedInv'
  <2>1. [ServedNext]_servedVars => [StdioNext]_stdioVars
    BY DEF ServedNext
  <2> QED BY <2>1, StdioStepInv, ServedStep
<1>2. StdioInv /\ ServedInv /\ [ServedNext]_servedVars
        => [Requests!PromiseNext]_Requests!promiseVars
    BY RequestsStep
<1>3. ServedInit => StdioInv /\ ServedInv /\ Requests!PromiseInit
    BY StdioInitInv, ServedInitInv, RequestsInit DEF ServedInit
<1> QED BY <1>1, <1>2, <1>3, PTL DEF ServedSpec, RequestsAsPromised, Requests!PromiseSpec
=============================================================================
