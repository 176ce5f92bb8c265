-------------------------- MODULE EvalSuiteProofs ---------------------------
(* The queue lock, the ledger and the verdict of the evaluation suite, for   *)
(* any number of suites, steps and attempts.                                 *)
EXTENDS EvalSuite, WellFoundedInduction, TLAPS

USE DEF ledgerVars, evalVars

Busy(s) == suite[s].at \notin {"idle", "over"}
Done(k) == \E r \in runs : r.step = k /\ r.end = "ok"
HasRow(r) == \E w \in rows : w.by = r.by /\ w.step = r.step /\ w.try = r.try

(* The lock is the suite's from its first step to its release, and its       *)
(* child's after that.                                                       *)
LockInv ==
  /\ StepsHoldLock
  /\ \A s \in Suites : Busy(s) => lock = s

(* Where a shell is tells what its child does and what is recorded.          *)
ShellInv ==
  \A s \in Suites :
    /\ suite[s].at = "idle" =>
         suite[s] = Idle /\ child[s] = "none" /\ \A r \in runs : r.by # s
    /\ suite[s].at = "ready" => child[s] = "none" /\ suite[s].recorded
    /\ suite[s].at = "running" => child[s] \in {"none", "step"} /\ ~suite[s].recorded
    /\ suite[s].at = "writing" => child[s] # "step" /\ ~suite[s].recorded
    /\ suite[s].at = "exiting" => child[s] = "none"
    /\ suite[s].at = "noting" => child[s] \in {"none", "failRow"} /\ suite[s].recorded
    /\ suite[s].at = "over" /\ suite[s].verdict # "killed" => child[s] = "none"
    /\ suite[s].verdict = "killed" => suite[s].at = "over"
    /\ child[s] # "none" \/ ~suite[s].recorded => suite[s].todo # {}

(* The runs of a suite are of steps it has left behind, or attempts of the   *)
(* one it is at.                                                             *)
RunsInv ==
  \A s \in Suites :
    /\ \A r \in runs : r.by = s /\ r.step \in suite[s].todo =>
         /\ r.step = Current(s) /\ r.try <= suite[s].try
         /\ suite[s].at = "ready" => r.try < suite[s].try
         /\ child[s] = "step" /\ r.try = suite[s].try => r.end = "running"
    /\ child[s] = "step" => \E r \in runs : Present(s, r)

(* A row with exit code 0, and a step left behind without a failure, stand   *)
(* for an execution that ended with 0.                                       *)
DoneInv ==
  /\ \A w \in rows : w.ok => Done(w.step)
  /\ \A s \in Suites :
       /\ Busy(s) => \A k \in Plan(s) \ suite[s].todo : suite[s].fail \/ Done(k)
       /\ suite[s].at \in {"running", "writing"} /\ child[s] # "step" /\ suite[s].rc = "ok"
            => Done(Current(s))
       /\ child[s] = "okRow" => Done(Current(s))
       /\ suite[s].at = "exiting" /\ suite[s].verdict = "ok" =>
            suite[s].todo = {} /\ ~suite[s].fail

(* As long as no write is cut off, no row is lost.                           *)
LedgerInv ==
  /\ torn => spoiled \/ \E s \in Suites : Writer(s)
  /\ ~spoiled => \A r \in runs : r.shown => \E w \in rows : w.ok /\ w.step = r.step
  /\ ~spoiled => \A r \in runs, s \in Suites :
       r.by = s /\ suite[s].verdict # "killed" =>
         \/ HasRow(r)
         \/ /\ Present(s, r)
            /\ \/ suite[s].at \in {"running", "exiting"} /\ ~suite[s].recorded
               \/ Writer(s)

EvalInv == SuiteTypeOK /\ LockInv /\ ShellInv /\ RunsInv /\ DoneInv /\ LedgerInv

ShellType ==
  [at : {"idle", "ready", "running", "writing", "exiting", "noting", "over"},
   todo : SUBSET Steps, try : Tries, rc : {"ok", "partial", "failed"},
   fail : BOOLEAN, recorded : BOOLEAN, signal : BOOLEAN,
   verdict : {"none", "ok", "failed", "partial", "signal", "killed"}]

(* A set of steps has a first one. *)
LEMMA FirstStep ==
  ASSUME NEW T \in SUBSET Steps, T # {}
  PROVE  Min(T) \in T
<1>1. IsWellFoundedOn(OpToRel(<, Nat), Nat)
    BY NatLessThanWellFounded
<1>2. T \subseteq Nat
    BY EvalAssumption
<1>3. PICK x \in T : \A y \in T : ~(<<y, x>> \in OpToRel(<, Nat))
    BY <1>1, <1>2, WFMin
<1>4. \A y \in T : ~(<<y, x>> \in {ss \in Nat \X Nat : ss[1] < ss[2]})
    BY <1>3, Zenon DEF OpToRel
<1>5. \A y \in T : x =< y
  <2> TAKE y \in T
  <2>1. ~(<<y, x>> \in {ss \in Nat \X Nat : ss[1] < ss[2]})
    BY <1>4
  <2> QED BY <1>2, <2>1
<1> QED BY <1>5 DEF Min

LEMMA EvalInitInv == EvalInit => EvalInv
<1> SUFFICES ASSUME EvalInit PROVE EvalInv
    OBVIOUS
<1>1. Idle \in ShellType
    BY EvalAssumption DEF Idle, ShellType, Tries
<1>2. SuiteTypeOK
  <2>1. suite \in [Suites -> ShellType]
      BY <1>1 DEF EvalInit
  <2>2. lock \in Suites \cup {Free, Other}
      BY DEF EvalInit
  <2>3. child \in [Suites -> {"none", "step", "okRow", "failRow"}]
      BY DEF EvalInit
  <2>4. rows \in SUBSET Row /\ torn \in BOOLEAN /\ runs \in SUBSET Run /\ spoiled \in BOOLEAN
      BY DEF EvalInit
  <2> QED BY ONLY <2>1, <2>2, <2>3, <2>4 DEF SuiteTypeOK, ShellType
<1>3. LockInv
    BY DEF EvalInit, LockInv, StepsHoldLock, Busy, Idle
<1>4. ShellInv /\ RunsInv
    BY DEF EvalInit, ShellInv, RunsInv, Idle
<1>5. DoneInv /\ LedgerInv
    BY DEF EvalInit, DoneInv, LedgerInv, Busy, Idle
<1> QED BY <1>2, <1>3, <1>4, <1>5 DEF EvalInv

LEMMA CurrentStep ==
  ASSUME EvalInv, NEW s \in Suites, suite[s].todo # {}
  PROVE  Current(s) \in suite[s].todo /\ Current(s) \in Steps
<1>1. suite[s].todo \in SUBSET Steps
    BY DEF EvalInv, SuiteTypeOK
<1> QED BY <1>1, FirstStep DEF Current

(* Steps of a shell that touch nothing but the shell: what is left to show    *)
(* is what the invariants say of that shell.                                 *)
LEMMA ShellOnly ==
  ASSUME EvalInv, NEW s \in Suites, NEW X \in ShellType,
         suite' = [suite EXCEPT ![s] = X],
         UNCHANGED <<lock, child, ledgerVars>>,
         X.at # "idle", suite[s].at = "idle" => X.at = "over",
         X.at \notin {"idle", "over"} => Busy(s),
         child[s] # "none" => X.at = suite[s].at /\ X.todo = suite[s].todo
                              /\ X.try = suite[s].try
                              /\ X.recorded = suite[s].recorded /\ X.rc = suite[s].rc
  PROVE  SuiteTypeOK' /\ LockInv'
<1>1. SuiteTypeOK'
    BY DEF EvalInv, SuiteTypeOK, ShellType
<1>2. \A u \in Suites : suite'[u] = IF u = s THEN X ELSE suite[u]
    BY DEF EvalInv, SuiteTypeOK
<1>3. LockInv'
    BY <1>2 DEF EvalInv, LockInv, StepsHoldLock, Busy
<1> QED BY <1>1, <1>3

(* A shell that another shell record replaces. *)
LEMMA Replaced ==
  ASSUME EvalInv, NEW s \in Suites, NEW X, suite' = [suite EXCEPT ![s] = X]
  PROVE  /\ suite[s] \in ShellType
         /\ \A u \in Suites : suite'[u] = IF u = s THEN X ELSE suite[u]
         /\ \A u \in Suites : u # s => Current(u)' = Current(u)
         /\ X.todo = suite[s].todo => \A u \in Suites : Current(u)' = Current(u)
<1>1. suite[s] \in ShellType
    BY DEF EvalInv, SuiteTypeOK, ShellType
<1>2. \A u \in Suites : suite'[u] = IF u = s THEN X ELSE suite[u]
    BY DEF EvalInv, SuiteTypeOK
<1> HIDE DEF Min
<1>3. \A u \in Suites : suite'[u].todo = suite[u].todo => Current(u)' = Current(u)
    BY DEF Current
<1> QED BY <1>1, <1>2, <1>3

LEMMA SignalKeeps ==
  ASSUME EvalInv, NEW s \in Suites, Signal(s)
  PROVE  EvalInv'
<1> DEFINE X == [suite[s] EXCEPT !.signal = TRUE]
<1>1. suite[s] \in ShellType /\ suite' = [suite EXCEPT ![s] = X]
    BY DEF EvalInv, SuiteTypeOK, ShellType, Signal
<1>2. /\ X \in ShellType /\ X.at = suite[s].at /\ X.todo = suite[s].todo
      /\ X.try = suite[s].try /\ X.rc = suite[s].rc /\ X.fail = suite[s].fail
      /\ X.recorded = suite[s].recorded /\ X.verdict = suite[s].verdict
    BY <1>1 DEF ShellType
<1> HIDE DEF X
<1>3. /\ \A u \in Suites : suite'[u] = IF u = s THEN X ELSE suite[u]
      /\ \A u \in Suites : Current(u)' = Current(u)
    BY <1>1, <1>2, Replaced
<1>4. SuiteTypeOK' /\ LockInv'
    BY <1>1, <1>2, ShellOnly DEF Signal, Started, Busy
<1>5. ShellInv'
    BY <1>2, <1>3 DEF EvalInv, ShellInv, Signal, Started
<1>6. RunsInv'
    BY <1>2, <1>3 DEF EvalInv, RunsInv, Present, Signal
<1>7. DoneInv'
    BY <1>2, <1>3 DEF EvalInv, DoneInv, Signal, Done, Busy
<1>8. LedgerInv'
    BY <1>2, <1>3 DEF EvalInv, LedgerInv, Signal, Writer, Present, HasRow
<1> QED BY <1>4, <1>5, <1>6, <1>7, <1>8 DEF EvalInv

LEMMA HeedKeeps ==
  ASSUME EvalInv, NEW s \in Suites, Heed(s)
  PROVE  EvalInv'
<1> DEFINE X == [suite[s] EXCEPT !.at = "exiting", !.verdict = "signal"]
<1>1. suite[s] \in ShellType /\ suite' = [suite EXCEPT ![s] = X]
    BY DEF EvalInv, SuiteTypeOK, ShellType, Heed
<1>2. /\ X \in ShellType /\ X.at = "exiting" /\ X.todo = suite[s].todo
      /\ X.try = suite[s].try /\ X.rc = suite[s].rc /\ X.fail = suite[s].fail
      /\ X.recorded = suite[s].recorded /\ X.verdict = "signal"
    BY <1>1 DEF ShellType
<1>0. /\ suite[s].at \in {"ready", "running", "writing"} /\ child[s] = "none"
      /\ UNCHANGED <<lock, child, rows, torn, runs, spoiled>>
    BY DEF Heed, Started
<1> HIDE DEF X
<1>3. /\ \A u \in Suites : suite'[u] = IF u = s THEN X ELSE suite[u]
      /\ \A u \in Suites : Current(u)' = Current(u)
    BY <1>1, <1>2, Replaced
<1>4. SuiteTypeOK' /\ LockInv'
    BY <1>1, <1>2, <1>0, ShellOnly DEF Busy
<1>5. ShellInv'
    BY <1>2, <1>3, <1>0 DEF EvalInv, ShellInv
<1>6. RunsInv'
    BY <1>2, <1>3, <1>0 DEF EvalInv, RunsInv, Present
<1>7. DoneInv'
    BY <1>2, <1>3, <1>0 DEF EvalInv, DoneInv, Done, Busy
<1>8. LedgerInv'
    BY <1>2, <1>3, <1>0 DEF EvalInv, ShellInv, LedgerInv, Writer, Present, HasRow
<1> QED BY <1>4, <1>5, <1>6, <1>7, <1>8 DEF EvalInv

LEMMA RefusedKeeps ==
  ASSUME EvalInv, NEW s \in Suites, Refused(s)
  PROVE  EvalInv'
<1> DEFINE X == [suite[s] EXCEPT !.at = "over", !.verdict = "failed"]
<1>0. /\ suite[s].at = "idle" /\ child[s] = "none"
      /\ UNCHANGED <<lock, child, rows, torn, runs, spoiled>>
    BY DEF Refused, EvalInv, ShellInv
<1>1. suite[s] \in ShellType /\ suite' = [suite EXCEPT ![s] = X]
    BY DEF EvalInv, SuiteTypeOK, ShellType, Refused
<1>2. /\ X \in ShellType /\ X.at = "over" /\ X.todo = suite[s].todo
      /\ X.try = suite[s].try /\ X.rc = suite[s].rc /\ X.fail = suite[s].fail
      /\ X.recorded = suite[s].recorded /\ X.verdict = "failed"
    BY <1>0, <1>1 DEF ShellType, Tries
<1> HIDE DEF X
<1>3. /\ \A u \in Suites : suite'[u] = IF u = s THEN X ELSE suite[u]
      /\ \A u \in Suites : Current(u)' = Current(u)
    BY <1>1, <1>2, Replaced
<1>4. SuiteTypeOK' /\ LockInv'
    BY <1>0, <1>1, <1>2, ShellOnly DEF Busy
<1>5. ShellInv'
    BY <1>0, <1>2, <1>3 DEF EvalInv, ShellInv
<1>6. RunsInv'
    BY <1>0, <1>2, <1>3 DEF EvalInv, RunsInv, Present
<1>7. DoneInv'
    BY <1>0, <1>2, <1>3 DEF EvalInv, DoneInv, Done, Busy
<1>8. LedgerInv'
    BY <1>0, <1>2, <1>3 DEF EvalInv, ShellInv, LedgerInv, Writer, Present, HasRow
<1> QED BY <1>4, <1>5, <1>6, <1>7, <1>8 DEF EvalInv

LEMMA SkipKeeps ==
  ASSUME EvalInv, NEW s \in Suites, Skip(s)
  PROVE  EvalInv'
<1> DEFINE X == Following(s)
<1>0. /\ suite[s].at = "ready" /\ child[s] = "none" /\ suite[s].todo # {}
      /\ Done(Current(s))
      /\ UNCHANGED <<lock, child, rows, torn, runs, spoiled>>
    BY DEF Skip, Undisturbed, Skips, CompletedOk, EvalInv, DoneInv
<1>1. suite[s] \in ShellType /\ suite' = [suite EXCEPT ![s] = X]
    BY DEF EvalInv, SuiteTypeOK, ShellType, Skip
<1>a. 1 \in Tries
    BY EvalAssumption DEF Tries
<1>b. suite[s].todo \in SUBSET Steps
    BY <1>1 DEF ShellType
<1>2. /\ X \in ShellType /\ X.at = "ready" /\ X.todo = suite[s].todo \ {Current(s)}
      /\ X.try = 1 /\ X.rc = suite[s].rc /\ X.fail = suite[s].fail
      /\ X.recorded = suite[s].recorded /\ X.verdict = suite[s].verdict
    BY <1>0, <1>1, <1>a, <1>b DEF ShellType, Following
<1> HIDE DEF X
<1>3. /\ \A u \in Suites : suite'[u] = IF u = s THEN X ELSE suite[u]
      /\ \A u \in Suites : u # s => Current(u)' = Current(u)
    BY <1>1, <1>2, Replaced
<1>4. SuiteTypeOK' /\ LockInv'
    BY <1>0, <1>1, <1>2, ShellOnly DEF Busy
<1>5. ShellInv'
    BY <1>0, <1>2, <1>3 DEF EvalInv, ShellInv
<1>6. RunsInv'
    BY <1>0, <1>2, <1>3 DEF EvalInv, RunsInv, Present
<1>7. DoneInv'
    BY <1>0, <1>2, <1>3 DEF EvalInv, DoneInv, Done, Busy
<1>8. LedgerInv'
    BY <1>0, <1>2, <1>3 DEF EvalInv, ShellInv, LedgerInv, Writer, Present, HasRow
<1> QED BY <1>4, <1>5, <1>6, <1>7, <1>8 DEF EvalInv

LEMMA FinishKeeps ==
  ASSUME EvalInv, NEW s \in Suites, Finish(s)
  PROVE  EvalInv'
<1> DEFINE X == Exits(s, IF suite[s].fail THEN "failed" ELSE "ok")
<1>0. /\ suite[s].at = "ready" /\ child[s] = "none" /\ suite[s].todo = {}
      /\ UNCHANGED <<lock, child, rows, torn, runs, spoiled>>
    BY DEF Finish, Undisturbed
<1>1. suite[s] \in ShellType /\ suite' = [suite EXCEPT ![s] = X]
    BY DEF EvalInv, SuiteTypeOK, ShellType, Finish, Exits
<1>2. /\ X \in ShellType /\ X.at = "exiting" /\ X.todo = suite[s].todo
      /\ X.try = suite[s].try /\ X.rc = suite[s].rc /\ X.fail = suite[s].fail
      /\ X.recorded = TRUE /\ X.verdict = IF suite[s].fail THEN "failed" ELSE "ok"
    BY <1>0, <1>1 DEF ShellType, Tries, Exits
<1> HIDE DEF X
<1>3. /\ \A u \in Suites : suite'[u] = IF u = s THEN X ELSE suite[u]
      /\ \A u \in Suites : Current(u)' = Current(u)
    BY <1>1, <1>2, Replaced
<1>4. SuiteTypeOK' /\ LockInv'
    BY <1>0, <1>1, <1>2, ShellOnly DEF Busy
<1>5. ShellInv'
    BY <1>0, <1>2, <1>3 DEF EvalInv, ShellInv
<1>6. RunsInv'
    BY <1>0, <1>2, <1>3 DEF EvalInv, RunsInv, Present
<1>7. DoneInv'
    BY <1>0, <1>2, <1>3 DEF EvalInv, DoneInv, Done, Busy
<1>8. LedgerInv'
    BY <1>0, <1>2, <1>3 DEF EvalInv, ShellInv, LedgerInv, Writer, Present, HasRow
<1> QED BY <1>4, <1>5, <1>6, <1>7, <1>8 DEF EvalInv

(* Judge has three outcomes: the suite ends, ... *)
LEMMA ExitKeeps ==
  ASSUME EvalInv, NEW s \in Suites, Undisturbed(s, "writing"),
         UNCHANGED <<lock, child, ledgerVars>>,
         NEW v \in {"failed", "partial"},
         suite' = [suite EXCEPT ![s] = Exits(s, v)]
  PROVE  EvalInv'
<1> DEFINE X == Exits(s, v)
<1>0. /\ suite[s].at = "writing" /\ child[s] = "none" /\ ~suite[s].recorded
      /\ suite[s].todo # {} /\ UNCHANGED <<lock, child, rows, torn, runs, spoiled>>
    BY DEF Undisturbed, EvalInv, ShellInv
<1>1. suite[s] \in ShellType /\ suite' = [suite EXCEPT ![s] = X]
    BY DEF EvalInv, SuiteTypeOK, ShellType
<1>2. /\ X \in ShellType /\ X.at = "exiting" /\ X.todo = suite[s].todo
      /\ X.try = suite[s].try /\ X.rc = suite[s].rc /\ X.fail = suite[s].fail
      /\ X.recorded = TRUE /\ X.verdict = v
    BY <1>0, <1>1 DEF ShellType, Exits
<1> HIDE DEF X
<1>3. /\ \A u \in Suites : suite'[u] = IF u = s THEN X ELSE suite[u]
      /\ \A u \in Suites : Current(u)' = Current(u)
    BY <1>1, <1>2, Replaced
<1>4. SuiteTypeOK' /\ LockInv'
    BY <1>0, <1>1, <1>2, ShellOnly DEF Busy
<1>5. ShellInv'
    BY <1>0, <1>2, <1>3 DEF EvalInv, ShellInv
<1>6. RunsInv'
    BY <1>0, <1>1, <1>2, <1>3 DEF EvalInv, RunsInv, Present, SuiteTypeOK, Run, Tries, ShellType
<1>7. DoneInv'
    BY <1>0, <1>2, <1>3 DEF EvalInv, DoneInv, Done, Busy
<1>8. LedgerInv'
    BY <1>0, <1>2, <1>3 DEF EvalInv, ShellInv, LedgerInv, Writer, Present, HasRow
<1> QED BY <1>4, <1>5, <1>6, <1>7, <1>8 DEF EvalInv

(* ... the step is tried again, ... *)
LEMMA RetryKeeps ==
  ASSUME EvalInv, NEW s \in Suites, Undisturbed(s, "writing"),
         UNCHANGED <<lock, child, ledgerVars>>,
         suite[s].try < MaxAttempts,
         suite' = [suite EXCEPT ![s] = 
           [suite[s] EXCEPT !.at = "ready", !.recorded = TRUE, !.try = @ + 1]]
  PROVE  EvalInv'
<1> DEFINE X == [suite[s] EXCEPT !.at = "ready", !.recorded = TRUE, !.try = @ + 1]
<1>0. /\ suite[s].at = "writing" /\ child[s] = "none" /\ ~suite[s].recorded
      /\ suite[s].todo # {} /\ UNCHANGED <<lock, child, rows, torn, runs, spoiled>>
    BY DEF Undisturbed, EvalInv, ShellInv
<1>1. suite[s] \in ShellType /\ suite' = [suite EXCEPT ![s] = X]
    BY DEF EvalInv, SuiteTypeOK, ShellType
<1>a. suite[s].try + 1 \in Tries
    BY <1>1, EvalAssumption DEF ShellType, Tries
<1>2. /\ X \in ShellType /\ X.at = "ready" /\ X.todo = suite[s].todo
      /\ X.try = suite[s].try + 1 /\ X.rc = suite[s].rc /\ X.fail = suite[s].fail
      /\ X.recorded = TRUE /\ X.verdict = suite[s].verdict
    BY <1>0, <1>1, <1>a DEF ShellType
<1> HIDE DEF X
<1>3. /\ \A u \in Suites : suite'[u] = IF u = s THEN X ELSE suite[u]
      /\ \A u \in Suites : Current(u)' = Current(u)
    BY <1>1, <1>2, Replaced
<1>4. SuiteTypeOK' /\ LockInv'
    BY <1>0, <1>1, <1>2, ShellOnly DEF Busy
<1>5. ShellInv'
    BY <1>0, <1>2, <1>3 DEF EvalInv, ShellInv
<1>6. RunsInv'
    BY <1>0, <1>1, <1>2, <1>3 DEF EvalInv, RunsInv, Present, SuiteTypeOK, Run, Tries, ShellType
<1>7. DoneInv'
    BY <1>0, <1>2, <1>3 DEF EvalInv, DoneInv, Done, Busy
<1>8. LedgerInv'
    BY <1>0, <1>2, <1>3 DEF EvalInv, ShellInv, LedgerInv, Writer, Present, HasRow
<1> QED BY <1>4, <1>5, <1>6, <1>7, <1>8 DEF EvalInv

(* ... or the suite turns to the next one. *)
LEMMA NextKeeps ==
  ASSUME EvalInv, NEW s \in Suites, Undisturbed(s, "writing"),
         UNCHANGED <<lock, child, ledgerVars>>,
         suite[s].rc \in {"ok", "failed"}, NEW X \in ShellType,
         suite' = [suite EXCEPT ![s] = X], X.at = "ready", X.try = 1,
         X.todo = suite[s].todo \ {Current(s)}, X.rc = suite[s].rc,
         X.fail <=> suite[s].fail \/ suite[s].rc = "failed",
         X.recorded = TRUE, X.verdict = suite[s].verdict
  PROVE  EvalInv'
<1>0. /\ suite[s].at = "writing" /\ child[s] = "none" /\ ~suite[s].recorded
      /\ suite[s].todo # {} /\ UNCHANGED <<lock, child, rows, torn, runs, spoiled>>
    BY DEF Undisturbed, EvalInv, ShellInv
<1>3. /\ \A u \in Suites : suite'[u] = IF u = s THEN X ELSE suite[u]
      /\ \A u \in Suites : u # s => Current(u)' = Current(u)
    BY Replaced
<1>4. SuiteTypeOK' /\ LockInv'
    BY <1>0, ShellOnly DEF Busy
<1>5. ShellInv'
    BY <1>0, <1>3 DEF EvalInv, ShellInv
<1>6. RunsInv'
    BY <1>0, <1>3 DEF EvalInv, RunsInv, Present
<1>7. DoneInv'
    BY <1>0, <1>3 DEF EvalInv, DoneInv, Done, Busy
<1>8. LedgerInv'
    BY <1>0, <1>3 DEF EvalInv, ShellInv, LedgerInv, Writer, Present, HasRow
<1> QED BY <1>4, <1>5, <1>6, <1>7, <1>8 DEF EvalInv

LEMMA JudgeKeeps ==
  ASSUME EvalInv, NEW s \in Suites, Judge(s)
  PROVE  EvalInv'
<1>1. suite[s].try \in Tries /\ MaxAttempts \in Nat
    BY EvalAssumption DEF EvalInv, SuiteTypeOK
<1>2. Undisturbed(s, "writing") /\ UNCHANGED <<lock, child, ledgerVars>>
    BY DEF Judge
<1>3. CASE suite[s].rc = "partial" /\ ~AutoResume
  <2>1. suite' = [suite EXCEPT ![s] = Exits(s, "partial")]
    BY <1>3 DEF Judge
  <2> QED BY <1>2, <2>1, ExitKeeps
<1>4. CASE suite[s].rc = "partial" /\ AutoResume /\ suite[s].try >= MaxAttempts
  <2>1. suite' = [suite EXCEPT ![s] = Exits(s, "failed")]
    BY <1>4 DEF Judge, Retry
  <2> QED BY <1>2, <2>1, ExitKeeps
<1>5. CASE suite[s].rc = "partial" /\ AutoResume /\ ~(suite[s].try >= MaxAttempts)
  <2>1. suite' = [suite EXCEPT ![s] =
          [suite[s] EXCEPT !.at = "ready", !.recorded = TRUE, !.try = @ + 1]]
    BY <1>5 DEF Judge, Retry
  <2>2. suite[s].try < MaxAttempts
    BY <1>1, <1>5 DEF Tries
  <2> QED BY <1>2, <2>1, <2>2, RetryKeeps
<1>6. CASE suite[s].rc # "partial" /\ Current(s) \in Required /\ ~CompletedOk(Current(s))
  <2>1. suite' = [suite EXCEPT ![s] = Exits(s, "failed")]
    BY <1>6 DEF Judge
  <2> QED BY <1>2, <2>1, ExitKeeps
<1>7. CASE suite[s].rc # "partial" /\ ~(Current(s) \in Required /\ ~CompletedOk(Current(s)))
  <2> DEFINE X == [Following(s) EXCEPT !.recorded = TRUE,
                                       !.fail = @ \/ suite[s].rc = "failed"]
  <2>1. suite' = [suite EXCEPT ![s] = X]
    BY <1>7 DEF Judge
  <2>2. suite[s] \in ShellType /\ suite[s].rc \in {"ok", "failed"}
    BY <1>7 DEF EvalInv, SuiteTypeOK, ShellType
  <2>3. 1 \in Tries /\ suite[s].todo \in SUBSET Steps
    BY <2>2, EvalAssumption DEF ShellType, Tries
  <2>4. /\ X \in ShellType /\ X.at = "ready" /\ X.todo = suite[s].todo \ {Current(s)}
        /\ X.try = 1 /\ X.rc = suite[s].rc
        /\ X.recorded = TRUE /\ X.verdict = suite[s].verdict
    BY <2>2, <2>3 DEF ShellType, Following
  <2>5. X.fail <=> suite[s].fail \/ suite[s].rc = "failed"
    BY <2>2, <2>3 DEF ShellType, Following
  <2> HIDE DEF X
  <2> QED BY <1>2, <2>1, <2>2, <2>4, <2>5, NextKeeps
<1> QED BY <1>3, <1>4, <1>5, <1>6, <1>7

(* Nobody runs while the lock is free. *)
LEMMA AcquireKeeps ==
  ASSUME EvalInv, NEW s \in Suites, Acquire(s)
  PROVE  EvalInv'
<1> DEFINE X == [suite[s] EXCEPT !.at = "ready", !.todo = Plan(s)]
<1>0. /\ suite[s].at = "idle" /\ suite[s] = Idle /\ \A r \in runs : r.by # s
      /\ \A u \in Suites : child[u] = "none" /\ ~Busy(u)
      /\ lock' = s /\ child' = child /\ OpenLedger(s)
    BY EvalAssumption DEF Acquire, EvalInv, ShellInv, LockInv, StepsHoldLock, Busy
<1>1. suite[s] \in ShellType /\ suite' = [suite EXCEPT ![s] = X]
    BY DEF EvalInv, SuiteTypeOK, ShellType, Acquire
<1>2. /\ X \in ShellType /\ X.at = "ready" /\ X.todo = Plan(s)
      /\ X.recorded = TRUE /\ X.verdict = "none" /\ X.try = 1
  <2>1. Plan(s) \in SUBSET Steps
    BY DEF Plan
  <2>2. X \in ShellType /\ X.at = "ready" /\ X.todo = Plan(s)
    BY <1>1, <2>1 DEF ShellType
  <2>3. X.recorded = suite[s].recorded /\ X.verdict = suite[s].verdict /\ X.try = suite[s].try
    BY <1>1 DEF ShellType
  <2> QED BY <1>0, <2>2, <2>3 DEF Idle
<1> HIDE DEF X
<1>3. /\ \A u \in Suites : suite'[u] = IF u = s THEN X ELSE suite[u]
      /\ \A u \in Suites : u # s => Current(u)' = Current(u)
    BY <1>1, Replaced
<1>4. LockInv' /\ ShellInv'
  <2>1. runs' = runs \/ runs' = {}
    BY <1>0 DEF OpenLedger
  <2> QED BY <1>0, <1>2, <1>3, <2>1 DEF EvalInv, LockInv, StepsHoldLock, Busy, ShellInv
<1>5. CASE s \in Resumes
  <2>1. UNCHANGED <<rows, torn, runs, spoiled>>
    BY <1>0, <1>5 DEF OpenLedger
  <2>2. SuiteTypeOK'
    BY <1>0, <1>1, <1>2, <2>1 DEF EvalInv, SuiteTypeOK, ShellType
  <2>3. RunsInv'
    BY <1>0, <1>2, <1>3, <2>1 DEF EvalInv, RunsInv, Present
  <2>4. DoneInv'
    BY <1>0, <1>2, <1>3, <2>1 DEF EvalInv, DoneInv, Done, Busy
  <2>5. LedgerInv'
    BY <1>0, <1>2, <1>3, <2>1 DEF EvalInv, LedgerInv, HasRow, Present, Writer
  <2> QED BY <1>4, <2>2, <2>3, <2>4, <2>5 DEF EvalInv
<1>6. CASE s \notin Resumes
  <2>1. rows' = {} /\ torn' = FALSE /\ runs' = {} /\ spoiled' = FALSE
    BY <1>0, <1>6 DEF OpenLedger
  <2>2. SuiteTypeOK'
    BY <1>0, <1>1, <1>2, <2>1 DEF EvalInv, SuiteTypeOK, ShellType
  <2>3. RunsInv' /\ LedgerInv'
    BY <1>0, <2>1 DEF RunsInv, LedgerInv
  <2>4. DoneInv'
    BY <1>0, <1>2, <1>3, <2>1 DEF DoneInv, Busy
  <2> QED BY <1>4, <2>2, <2>3, <2>4 DEF EvalInv
<1> QED BY <1>5, <1>6

LEMMA OtherUserKeeps ==
  ASSUME EvalInv, OtherUser
  PROVE  EvalInv'
<1>1. /\ lock \in {Free, Other} /\ lock' \in {Free, Other}
      /\ UNCHANGED <<suite, child, rows, torn, runs, spoiled>>
    BY DEF OtherUser
<1>2. \A s \in Suites : Current(s)' = Current(s)
    BY <1>1 DEF Current
<1>3. SuiteTypeOK' /\ LockInv'
    BY <1>1, EvalAssumption DEF EvalInv, SuiteTypeOK, LockInv, StepsHoldLock, Busy
<1>4. ShellInv' /\ RunsInv'
    BY <1>1, <1>2 DEF EvalInv, ShellInv, RunsInv, Present
<1>5. DoneInv' /\ LedgerInv'
    BY <1>1, <1>2 DEF EvalInv, DoneInv, LedgerInv, Done, Busy, HasRow, Present, Writer
<1> QED BY <1>3, <1>4, <1>5 DEF EvalInv

LEMMA StartStepKeeps ==
  ASSUME EvalInv, NEW s \in Suites, StartStep(s)
  PROVE  EvalInv'
<1> DEFINE X == Begun(s)
           new == [by |-> s, step |-> Current(s), try |-> suite[s].try,
                   end |-> "running", shown |-> FALSE]
<1>0. /\ suite[s].at = "ready" /\ child[s] = "none" /\ suite[s].todo # {}
      /\ runs' = runs \cup {new} /\ UNCHANGED <<lock, rows, torn, spoiled>>
      /\ child' = [child EXCEPT ![s] = "step"] /\ lock = s
    BY DEF StartStep, Undisturbed, EvalInv, LockInv, Busy
<1>1. suite[s] \in ShellType /\ suite' = [suite EXCEPT ![s] = X]
    BY DEF EvalInv, SuiteTypeOK, ShellType, StartStep
<1>2. /\ X \in ShellType /\ X.at = "running" /\ X.todo = suite[s].todo
      /\ X.try = suite[s].try /\ X.rc = suite[s].rc /\ X.fail = suite[s].fail
      /\ X.recorded = FALSE /\ X.verdict = suite[s].verdict
    BY <1>1 DEF ShellType, Begun
<1>3. /\ \A u \in Suites : suite'[u] = IF u = s THEN X ELSE suite[u]
      /\ \A u \in Suites : Current(u)' = Current(u)
    BY <1>1, <1>2, Replaced
<1>4. \A u \in Suites : child'[u] = IF u = s THEN "step" ELSE child[u]
    BY <1>0 DEF EvalInv, SuiteTypeOK
<1>5. new \in Run /\ Current(s) \in suite[s].todo
    BY <1>0, <1>1, CurrentStep DEF Run, ShellType
<1> HIDE DEF X
<1>6. SuiteTypeOK' /\ LockInv'
  <2>1. SuiteTypeOK'
    BY <1>0, <1>1, <1>2, <1>5 DEF EvalInv, SuiteTypeOK, ShellType
  <2> QED BY <1>0, <1>2, <1>3, <1>4, <2>1 DEF EvalInv, LockInv, StepsHoldLock, Busy
<1>7. ShellInv'
    BY <1>0, <1>2, <1>3, <1>4 DEF EvalInv, ShellInv
<1>8. RunsInv'
  <2>1. \A r \in runs', u \in Suites : r.by = u /\ r.step \in suite'[u].todo =>
          /\ r.step = Current(u)' /\ r.try <= suite'[u].try
          /\ suite'[u].at = "ready" => r.try < suite'[u].try
          /\ child'[u] = "step" /\ r.try = suite'[u].try => r.end = "running"
    BY <1>0, <1>1, <1>2, <1>3, <1>4 DEF EvalInv, RunsInv, ShellType, Tries, SuiteTypeOK, Run
  <2>2. \A r \in runs, u \in Suites : Present(u, r) => r \in runs' /\ Present(u, r)'
    BY <1>0, <1>2, <1>3 DEF Present
  <2>3. new \in runs' /\ new.by = s /\ new.step = Current(s)' /\ new.try = suite'[s].try
    BY <1>0, <1>2, <1>3
  <2>4. \E r \in runs' : Present(s, r)'
    BY <2>3 DEF Present
  <2>5. \A u \in Suites \ {s} : child'[u] = "step" => \E r \in runs' : Present(u, r)'
    BY <1>4, <2>2 DEF EvalInv, RunsInv
  <2> QED BY <2>1, <2>4, <2>5 DEF RunsInv
<1>9. DoneInv'
    BY <1>0, <1>2, <1>3, <1>4 DEF EvalInv, DoneInv, Done, Busy
<1>10. LedgerInv'
    BY <1>0, <1>2, <1>3, <1>4 DEF EvalInv, ShellInv, LedgerInv, HasRow, Present, Writer
<1> QED BY <1>6, <1>7, <1>8, <1>9, <1>10 DEF EvalInv

(* The child of a suite is the only child there is, and the lock stays with  *)
(* the suite when it ends, unless the shell is dead.                         *)
LEMMA ChildAlone ==
  ASSUME EvalInv, NEW s \in Suites, child[s] # "none"
  PROVE  /\ lock = s /\ suite[s].todo # {} /\ suite[s].at # "idle"
         /\ \A u \in Suites \ {s} : child[u] = "none" /\ ~Busy(u)
BY DEF EvalInv, ShellInv, LockInv, StepsHoldLock, Busy

LEMMA ChildGoneKeeps ==
  ASSUME EvalInv, NEW s \in Suites, child[s] # "none", ChildGone(s),
         \A u \in Suites : suite'[u].at = suite[u].at
  PROVE  /\ child' \in [Suites -> {"none", "step", "okRow", "failRow"}]
         /\ lock' \in Suites \cup {Free, Other}
         /\ \A u \in Suites : child'[u] = "none"
         /\ LockInv'
<1>1. /\ lock = s
      /\ \A u \in Suites \ {s} : child[u] = "none" /\ ~Busy(u)
    BY ChildAlone
<1>2. \A u \in Suites : child'[u] = IF u = s THEN "none" ELSE child[u]
    BY DEF ChildGone, EvalInv, SuiteTypeOK
<1>3. lock' = IF suite[s].at = "over" THEN Free ELSE s
    BY <1>1 DEF ChildGone, LockHeldBy
<1>4. LockInv'
    BY <1>1, <1>2, <1>3 DEF EvalInv, LockInv, StepsHoldLock, Busy
<1> QED BY <1>1, <1>2, <1>3, <1>4 DEF ChildGone, EvalInv, SuiteTypeOK

LEMMA StepEndsKeeps ==
  ASSUME EvalInv, NEW s \in Suites, StepEnds(s)
  PROVE  EvalInv'
<1>a. PICK rc \in Outcomes(Current(s)) :
        /\ runs' = {IF Present(s, r) THEN [r EXCEPT !.end = rc] ELSE r : r \in runs}
        /\ suite' = [suite EXCEPT ![s].rc = rc]
    BY DEF StepEnds
<1>b. rc \in {"ok", "partial", "failed"}
    BY DEF Outcomes
<1> DEFINE X == [suite[s] EXCEPT !.rc = rc]
           Ended(r) == IF Present(s, r) THEN [r EXCEPT !.end = rc] ELSE r
<1>c. child[s] = "step" /\ ChildGone(s) /\ UNCHANGED <<rows, torn, spoiled>>
    BY DEF StepEnds
<1>1. suite[s] \in ShellType /\ suite' = [suite EXCEPT ![s] = X]
    BY <1>a DEF EvalInv, SuiteTypeOK, ShellType
<1>0. suite[s].at \in {"running", "over"}
    BY <1>c, <1>1 DEF EvalInv, ShellInv, ShellType
<1>2. /\ X \in ShellType /\ X.at = suite[s].at /\ X.todo = suite[s].todo
      /\ X.try = suite[s].try /\ X.rc = rc /\ X.fail = suite[s].fail
      /\ X.recorded = suite[s].recorded /\ X.verdict = suite[s].verdict
    BY <1>1, <1>b DEF ShellType
<1> HIDE DEF X
<1>3. /\ \A u \in Suites : suite'[u] = IF u = s THEN X ELSE suite[u]
      /\ \A u \in Suites : Current(u)' = Current(u)
    BY <1>1, <1>2, Replaced
<1>4. /\ child' \in [Suites -> {"none", "step", "okRow", "failRow"}]
      /\ lock' \in Suites \cup {Free, Other} /\ LockInv'
      /\ \A u \in Suites : child'[u] = "none"
  <2>1. \A u \in Suites : suite'[u].at = suite[u].at
    BY <1>2, <1>3
  <2> QED BY <1>c, <2>1, ChildGoneKeeps
<1>5. /\ suite[s].todo # {} /\ Current(s) \in suite[s].todo
      /\ \A u \in Suites \ {s} : child[u] = "none" /\ ~Busy(u)
    BY <1>c, ChildAlone, CurrentStep
<1>6. \A r \in runs : Ended(r) \in Run /\ Ended(r).by = r.by /\ Ended(r).step = r.step
        /\ Ended(r).try = r.try /\ Ended(r).shown = r.shown
        /\ Ended(r).end = IF Present(s, r) THEN rc ELSE r.end
    BY <1>b DEF EvalInv, SuiteTypeOK, Run
<1> HIDE DEF Ended
<1>7. /\ \A r \in runs : Ended(r) \in runs'
      /\ \A q \in runs' : \E r \in runs : q = Ended(r)
    BY <1>a DEF Ended
<1>8. SuiteTypeOK'
  <2>1. runs' \in SUBSET Run
    BY <1>6, <1>7
  <2> QED BY <1>1, <1>2, <1>4, <1>c, <2>1 DEF EvalInv, SuiteTypeOK, ShellType
<1>9. ShellInv'
  <2> SUFFICES ASSUME NEW u \in Suites PROVE ShellInv!(u)'
    BY DEF ShellInv
  <2> QED BY <1>0, <1>2, <1>3, <1>4, <1>5, <1>6, <1>7 DEF EvalInv, ShellInv
<1>10. RunsInv'
  <2>1. \A q \in runs', u \in Suites : q.by = u /\ q.step \in suite'[u].todo =>
          /\ q.step = Current(u)' /\ q.try <= suite'[u].try
          /\ suite'[u].at = "ready" => q.try < suite'[u].try
    BY <1>2, <1>3, <1>6, <1>7 DEF EvalInv, RunsInv
  <2> QED BY <1>4, <2>1 DEF RunsInv
<1>11. \A k : Done(k) => Done(k)'
  <2> SUFFICES ASSUME NEW r \in runs, r.end = "ok" PROVE Ended(r).end = "ok"
    BY <1>6, <1>7 DEF Done
  <2>1. ~Present(s, r)
    BY <1>c, <1>5 DEF EvalInv, RunsInv, Present
  <2> QED BY <1>6, <2>1
<1>12. rc = "ok" => Done(Current(s))'
  <2>1. PICK r \in runs : Present(s, r)
    BY <1>c DEF EvalInv, RunsInv
  <2>2. Ended(r).end = rc /\ Ended(r).step = Current(s) /\ Ended(r) \in runs'
    BY <1>6, <1>7, <2>1 DEF Present
  <2> QED BY <1>3, <2>2 DEF Done
<1>13. DoneInv'
    BY <1>0, <1>c, <1>2, <1>3, <1>4, <1>5, <1>11, <1>12 DEF EvalInv, DoneInv, Busy
<1>14. LedgerInv'
  <2>1. \A u \in Suites : ~Writer(u) /\ ~Writer(u)'
    BY <1>c, <1>4, <1>5 DEF Writer
  <2>2. torn' => spoiled'
    BY <1>c, <2>1 DEF EvalInv, LedgerInv
  <2>3. ASSUME ~spoiled', NEW q \in runs'
        PROVE  q.shown => \E w \in rows' : w.ok /\ w.step = q.step
    <3>1. PICK r \in runs : q = Ended(r)
      BY <1>7
    <3>2. r.shown = q.shown /\ r.step = q.step
      BY <1>6, <3>1
    <3> QED BY <1>c, <2>3, <3>2 DEF EvalInv, LedgerInv
  <2>4. ASSUME ~spoiled', NEW q \in runs', NEW u \in Suites,
               q.by = u, suite'[u].verdict # "killed"
        PROVE  \/ HasRow(q)'
               \/ Present(u, q)' /\ suite'[u].at \in {"running", "exiting"} /\ ~suite'[u].recorded
    <3>1. PICK r \in runs : q = Ended(r)
      BY <1>7
    <3>2. r.by = q.by /\ r.step = q.step /\ r.try = q.try
      BY <1>6, <3>1
    <3>a. ~spoiled /\ suite[u].verdict # "killed" /\ r.by = u /\ ~Writer(u)
      BY <1>c, <1>2, <1>3, <2>1, <2>4, <3>2
    <3>3. \/ HasRow(r)
          \/ Present(u, r) /\ suite[u].at \in {"running", "exiting"} /\ ~suite[u].recorded
      BY <3>a DEF EvalInv, LedgerInv
    <3>4. HasRow(r) => HasRow(q)'
      BY <1>c, <3>2 DEF HasRow
    <3>5. Present(u, r) => Present(u, q)'
      BY <1>2, <1>3, <3>2 DEF Present
    <3> QED BY <1>2, <1>3, <3>3, <3>4, <3>5
  <2> QED BY <2>2, <2>3, <2>4 DEF LedgerInv
<1> QED BY <1>4, <1>8, <1>9, <1>10, <1>13, <1>14 DEF EvalInv

(* The start of a write: of a finished step, or in the exit trap. *)
LEMMA StartWriteKeeps ==
  ASSUME EvalInv, NEW s \in Suites, NEW row, StartWrite(s, row),
         NEW X \in ShellType, suite' = [suite EXCEPT ![s] = X],
         Busy(s), child[s] = "none", ~suite[s].recorded,
         X.todo = suite[s].todo, X.try = suite[s].try, X.rc = suite[s].rc,
         X.fail = suite[s].fail, X.verdict = suite[s].verdict,
         \/ /\ suite[s].at = "running" /\ X.at = "writing" /\ X.recorded = FALSE
            /\ row = IF suite[s].rc = "ok" THEN "okRow" ELSE "failRow"
         \/ /\ suite[s].at = "exiting" /\ X.at = "noting" /\ X.recorded = TRUE
            /\ row = "failRow"
  PROVE  EvalInv'
<1>1. /\ lock = s /\ lock' = lock /\ child' = [child EXCEPT ![s] = row]
      /\ rows' = (IF torn THEN {} ELSE rows) /\ torn' = TRUE
      /\ UNCHANGED <<runs, spoiled>>
    BY DEF StartWrite, EvalInv, LockInv
<1>2. /\ \A u \in Suites : suite'[u] = IF u = s THEN X ELSE suite[u]
      /\ \A u \in Suites : Current(u)' = Current(u)
  <2>1. suite' = [suite EXCEPT ![s] = X] /\ X.todo = suite[s].todo
    OBVIOUS
  <2> QED BY <2>1, Replaced, Zenon
<1>3. row \in {"okRow", "failRow"}
    OBVIOUS
<1>4. \A u \in Suites : child'[u] = IF u = s THEN row ELSE child[u]
    BY <1>1 DEF EvalInv, SuiteTypeOK
<1>5. /\ \A u \in Suites : child[u] = "none"
      /\ torn => spoiled
  <2>1. \A u \in Suites : child[u] = "none"
    BY <1>1 DEF EvalInv, LockInv, StepsHoldLock
  <2> QED BY <2>1 DEF EvalInv, LedgerInv, Writer
<1>6. SuiteTypeOK'
    BY <1>1, <1>3 DEF EvalInv, SuiteTypeOK, ShellType
<1>7. LockInv' /\ ShellInv'
    BY <1>1, <1>2, <1>3, <1>4 DEF EvalInv, LockInv, StepsHoldLock, Busy, ShellInv
<1>8. RunsInv'
    BY <1>1, <1>2, <1>3, <1>4 DEF EvalInv, RunsInv, Present
<1>9. DoneInv'
    BY <1>1, <1>2, <1>3, <1>4 DEF EvalInv, DoneInv, Done, Busy
<1>10. LedgerInv'
  <2>1. Writer(s)'
    BY <1>3, <1>4 DEF Writer
  <2>2. ~spoiled => rows' = rows
    BY <1>1, <1>5
  <2>3. ASSUME ~spoiled', NEW r \in runs', r.shown
        PROVE  \E w \in rows' : w.ok /\ w.step = r.step
    BY <1>1, <2>2, <2>3 DEF EvalInv, LedgerInv
  <2>4. ASSUME ~spoiled', NEW r \in runs', NEW u \in Suites, r.by = u,
               suite'[u].verdict # "killed"
        PROVE  HasRow(r)' \/ (Present(u, r)' /\ (\/ suite'[u].at \in {"running", "exiting"}
                                                      /\ ~suite'[u].recorded
                                                 \/ Writer(u)'))
    <3>1. /\ ~spoiled /\ r \in runs /\ suite[u].verdict # "killed" /\ ~Writer(u)
      BY <1>1, <1>2, <1>5, <2>4 DEF Writer
    <3>2. \/ HasRow(r)
          \/ Present(u, r) /\ suite[u].at \in {"running", "exiting"} /\ ~suite[u].recorded
      BY <2>4, <3>1 DEF EvalInv, LedgerInv
    <3>3. HasRow(r) => HasRow(r)'
      BY <2>2, <3>1 DEF HasRow
    <3>4. Present(u, r) => Present(u, r)'
      BY <1>2 DEF Present
    <3> QED BY <1>2, <2>1, <3>2, <3>3, <3>4
  <2> QED BY <1>1, <2>1, <2>3, <2>4 DEF LedgerInv
<1> QED BY <1>6, <1>7, <1>8, <1>9, <1>10 DEF EvalInv

LEMMA RecordKeeps ==
  ASSUME EvalInv, NEW s \in Suites, Record(s)
  PROVE  EvalInv'
<1> DEFINE X == [suite[s] EXCEPT !.at = "writing"]
<1>1. suite[s].at = "running" /\ child[s] = "none" /\ ~suite[s].recorded /\ Busy(s)
    BY DEF Record, Undisturbed, EvalInv, ShellInv, Busy
<1>2. suite[s] \in ShellType /\ suite' = [suite EXCEPT ![s] = X]
    BY DEF EvalInv, SuiteTypeOK, ShellType, Record
<1>3. /\ X \in ShellType /\ X.at = "writing" /\ X.todo = suite[s].todo
      /\ X.try = suite[s].try /\ X.rc = suite[s].rc /\ X.fail = suite[s].fail
      /\ X.recorded = FALSE /\ X.verdict = suite[s].verdict
    BY <1>1, <1>2 DEF ShellType
<1>4. StartWrite(s, IF suite[s].rc = "ok" THEN "okRow" ELSE "failRow")
    BY DEF Record
<1> HIDE DEF X
<1> QED BY <1>1, <1>2, <1>3, <1>4, StartWriteKeeps

LEMMA NoteInFlightKeeps ==
  ASSUME EvalInv, NEW s \in Suites, NoteInFlight(s)
  PROVE  EvalInv'
<1> DEFINE X == [suite[s] EXCEPT !.at = "noting", !.recorded = TRUE]
<1>1. suite[s].at = "exiting" /\ child[s] = "none" /\ ~suite[s].recorded /\ Busy(s)
    BY DEF NoteInFlight, EvalInv, ShellInv, Busy
<1>2. suite[s] \in ShellType /\ suite' = [suite EXCEPT ![s] = X]
    BY DEF EvalInv, SuiteTypeOK, ShellType, NoteInFlight
<1>3. /\ X \in ShellType /\ X.at = "noting" /\ X.todo = suite[s].todo
      /\ X.try = suite[s].try /\ X.rc = suite[s].rc /\ X.fail = suite[s].fail
      /\ X.recorded = TRUE /\ X.verdict = suite[s].verdict
    BY <1>1, <1>2 DEF ShellType
<1>4. StartWrite(s, "failRow")
    BY DEF NoteInFlight
<1> HIDE DEF X
<1> QED BY <1>1, <1>2, <1>3, <1>4, StartWriteKeeps

LEMMA EndWriteKeeps ==
  ASSUME EvalInv, NEW s \in Suites, EndWrite(s)
  PROVE  EvalInv'
<1> DEFINE line == [by |-> s, step |-> Current(s), try |-> suite[s].try,
                    ok |-> child[s] = "okRow"]
           Shown(r) == IF Present(s, r) /\ child[s] = "okRow"
                         THEN [r EXCEPT !.shown = TRUE] ELSE r
<1>1. /\ Writer(s) /\ ChildGone(s) /\ child[s] # "none" /\ child[s] # "step"
      /\ rows' = rows \cup {line} /\ torn' = FALSE
      /\ suite' = suite /\ spoiled' = spoiled
      /\ runs' = {Shown(r) : r \in runs}
    BY DEF EndWrite, Writer
<1>2. \A u \in Suites : Current(u)' = Current(u)
    BY <1>1 DEF Current
<1>3. /\ child' \in [Suites -> {"none", "step", "okRow", "failRow"}]
      /\ lock' \in Suites \cup {Free, Other} /\ LockInv'
      /\ \A u \in Suites : child'[u] = "none"
    BY <1>1, ChildGoneKeeps
<1>4. /\ suite[s].todo # {} /\ Current(s) \in suite[s].todo /\ Current(s) \in Steps
      /\ \A u \in Suites \ {s} : child[u] = "none" /\ ~Busy(u)
    BY <1>1, ChildAlone, CurrentStep
<1>5. suite[s] \in ShellType /\ suite[s].at \in {"writing", "noting", "over"}
  <2>1. suite[s] \in ShellType
    BY DEF EvalInv, SuiteTypeOK, ShellType
  <2> QED BY <1>1, <2>1 DEF EvalInv, ShellInv, ShellType
<1>6. line \in Row
    BY <1>4, <1>5 DEF Row, ShellType
<1>7. \A r \in runs : Shown(r) \in Run /\ Shown(r).by = r.by /\ Shown(r).step = r.step
        /\ Shown(r).try = r.try /\ Shown(r).end = r.end
        /\ (Shown(r).shown <=> r.shown \/ (Present(s, r) /\ child[s] = "okRow"))
    BY DEF EvalInv, SuiteTypeOK, Run
<1>8. /\ line \in rows' /\ line.by = s /\ line.step = Current(s)
      /\ line.try = suite[s].try /\ (line.ok <=> child[s] = "okRow")
    BY <1>1
<1>9. \A w \in rows' : w \in rows \/ w = line
    BY <1>1
<1> HIDE DEF Shown, line
<1>10. /\ \A r \in runs : Shown(r) \in runs'
       /\ \A q \in runs' : \E r \in runs : q = Shown(r)
    BY <1>1
<1>11. SuiteTypeOK'
  <2>1. runs' \in SUBSET Run
    BY <1>7, <1>10
  <2> QED BY <1>1, <1>3, <1>6, <2>1 DEF EvalInv, SuiteTypeOK
<1>12. ShellInv'
  <2> SUFFICES ASSUME NEW u \in Suites PROVE ShellInv!(u)'
    BY DEF ShellInv
  <2> QED BY <1>1, <1>3, <1>4, <1>5, <1>7, <1>10 DEF EvalInv, ShellInv
<1>13. RunsInv'
  <2>1. \A q \in runs', u \in Suites : q.by = u /\ q.step \in suite'[u].todo =>
          /\ q.step = Current(u)' /\ q.try <= suite'[u].try
          /\ suite'[u].at = "ready" => q.try < suite'[u].try
    BY <1>1, <1>2, <1>7, <1>10 DEF EvalInv, RunsInv
  <2> QED BY <1>3, <2>1 DEF RunsInv
<1>14. \A k : Done(k) => Done(k)'
  <2> SUFFICES ASSUME NEW r \in runs, r.end = "ok" PROVE Shown(r).end = "ok"
    BY <1>7, <1>10 DEF Done
  <2> QED BY <1>7
<1>15. DoneInv'
  <2>1. \A w \in rows' : w.ok => Done(w.step)'
    BY <1>8, <1>9, <1>14 DEF EvalInv, DoneInv
  <2>2. \A u \in Suites : Done(Current(u)) => Done(Current(u))'
    BY <1>2, <1>14 DEF Done
  <2>3. \A u \in Suites : Busy(u)' =>
          \A k \in Plan(u) \ suite'[u].todo : suite'[u].fail \/ Done(k)'
    BY <1>1, <1>14 DEF EvalInv, DoneInv, Busy
  <2>4. \A u \in Suites :
          suite'[u].at \in {"running", "writing"} /\ suite'[u].rc = "ok" =>
            (child[u] # "step" => Done(Current(u))')
    BY <1>1, <2>2 DEF EvalInv, DoneInv
  <2>5. \A u \in Suites : suite'[u].at \in {"running", "writing"} => child[u] # "step"
    BY <1>1, <1>4 DEF Busy
  <2>6. \A u \in Suites : suite'[u].at = "exiting" /\ suite'[u].verdict = "ok" =>
          suite'[u].todo = {} /\ ~suite'[u].fail
    BY <1>1 DEF EvalInv, DoneInv
  <2> QED BY <1>3, <2>1, <2>3, <2>4, <2>5, <2>6 DEF DoneInv
<1>16. LedgerInv'
  <2>1. ASSUME ~spoiled', NEW q \in runs', q.shown
        PROVE  \E w \in rows' : w.ok /\ w.step = q.step
    <3>1. PICK r \in runs : q = Shown(r)
      BY <1>10
    <3>2. CASE r.shown
      BY <1>1, <1>7, <2>1, <3>1, <3>2 DEF EvalInv, LedgerInv
    <3>3. CASE Present(s, r) /\ child[s] = "okRow"
      BY <1>7, <1>8, <3>1, <3>3 DEF Present
    <3> QED BY <1>7, <2>1, <3>1, <3>2, <3>3
  <2>2. ASSUME ~spoiled', NEW q \in runs', NEW u \in Suites, q.by = u,
               suite'[u].verdict # "killed"
        PROVE  HasRow(q)' \/ (Present(u, q)' /\ suite'[u].at \in {"running", "exiting"}
                                             /\ ~suite'[u].recorded)
    <3>1. PICK r \in runs : q = Shown(r)
      BY <1>10
    <3>2. r.by = q.by /\ r.step = q.step /\ r.try = q.try
      BY <1>7, <3>1
    <3>3. Present(s, r) => HasRow(q)'
      BY <1>8, <3>2 DEF Present, HasRow
    <3>4. HasRow(r) => HasRow(q)'
      BY <1>1, <3>2 DEF HasRow
    <3>5. Present(u, r) => Present(u, q)'
      BY <1>1, <1>2, <3>2 DEF Present
    <3>6. /\ ~spoiled /\ suite[u].verdict # "killed" /\ r.by = u
          /\ Writer(u) => u = s
      BY <1>1, <1>4, <2>2, <3>2 DEF Writer
    <3>7. \/ HasRow(r) \/ (Present(u, r) /\ u = s)
          \/ Present(u, r) /\ suite[u].at \in {"running", "exiting"} /\ ~suite[u].recorded
      BY <3>6 DEF EvalInv, LedgerInv
    <3> QED BY <1>1, <3>3, <3>4, <3>5, <3>7
  <2> QED BY <1>1, <2>1, <2>2 DEF LedgerInv
<1> QED BY <1>3, <1>11, <1>12, <1>13, <1>15, <1>16 DEF EvalInv

LEMMA WriterKilledKeeps ==
  ASSUME EvalInv, NEW s \in Suites, WriterKilled(s)
  PROVE  EvalInv'
<1>1. /\ Writer(s) /\ ChildGone(s) /\ child[s] # "none" /\ child[s] # "step"
      /\ spoiled' = TRUE /\ UNCHANGED <<suite, rows, torn, runs>>
    BY DEF WriterKilled, Writer
<1>2. \A u \in Suites : Current(u)' = Current(u)
    BY <1>1 DEF Current
<1>3. /\ child' \in [Suites -> {"none", "step", "okRow", "failRow"}]
      /\ lock' \in Suites \cup {Free, Other} /\ LockInv'
      /\ \A u \in Suites : child'[u] = "none"
    BY <1>1, ChildGoneKeeps
<1>4. SuiteTypeOK' /\ ShellInv' /\ LedgerInv'
  <2>1. \A u \in Suites \ {s} : child[u] = "none"
    BY <1>1, ChildAlone
  <2> QED BY <1>1, <1>3, <2>1 DEF EvalInv, SuiteTypeOK, ShellInv, LedgerInv
<1>5. RunsInv' /\ DoneInv'
  <2>1. \A u \in Suites \ {s} : child[u] = "none"
    BY <1>1, ChildAlone
  <2> QED BY <1>1, <1>2, <1>3, <2>1 DEF EvalInv, RunsInv, DoneInv, Done, Busy
<1> QED BY <1>3, <1>4, <1>5 DEF EvalInv

LEMMA ReleaseKeeps ==
  ASSUME EvalInv, NEW s \in Suites, Release(s)
  PROVE  EvalInv'
<1> DEFINE X == [suite[s] EXCEPT !.at = "over"]
<1>0. /\ suite[s].at \in {"exiting", "noting"} /\ suite[s].recorded /\ child[s] = "none"
      /\ lock' = Free /\ UNCHANGED <<child, rows, torn, runs, spoiled>>
    BY DEF Release
<1>1. suite[s] \in ShellType /\ suite' = [suite EXCEPT ![s] = X]
    BY DEF EvalInv, SuiteTypeOK, ShellType, Release
<1>2. /\ X \in ShellType /\ X.at = "over" /\ X.todo = suite[s].todo
      /\ X.try = suite[s].try /\ X.rc = suite[s].rc /\ X.fail = suite[s].fail
      /\ X.recorded = TRUE /\ X.verdict = suite[s].verdict
    BY <1>0, <1>1 DEF ShellType, EvalInv, SuiteTypeOK
<1> HIDE DEF X
<1>3. /\ \A u \in Suites : suite'[u] = IF u = s THEN X ELSE suite[u]
      /\ \A u \in Suites : Current(u)' = Current(u)
    BY <1>1, <1>2, Replaced
<1>4. \A u \in Suites : child[u] = "none" /\ (u # s => ~Busy(u))
    BY <1>0 DEF EvalInv, LockInv, StepsHoldLock, Busy
<1>5. SuiteTypeOK'
    BY <1>0, <1>1, <1>2 DEF EvalInv, SuiteTypeOK, ShellType
<1>6. LockInv' /\ ShellInv'
    BY <1>0, <1>2, <1>3, <1>4 DEF EvalInv, LockInv, StepsHoldLock, Busy, ShellInv
<1>7. RunsInv'
    BY <1>0, <1>2, <1>3 DEF EvalInv, RunsInv, Present
<1>8. DoneInv'
    BY <1>0, <1>2, <1>3, <1>4 DEF EvalInv, DoneInv, Done, Busy
<1>9. LedgerInv'
    BY <1>0, <1>2, <1>3 DEF EvalInv, ShellInv, LedgerInv, Writer, Present, HasRow
<1> QED BY <1>5, <1>6, <1>7, <1>8, <1>9 DEF EvalInv

LEMMA KillKeeps ==
  ASSUME EvalInv, NEW s \in Suites, Kill(s)
  PROVE  EvalInv'
<1> DEFINE X == [suite[s] EXCEPT !.at = "over", !.verdict = "killed"]
<1>1. PICK left \in {"none", child[s]} :
        /\ child' = [child EXCEPT ![s] = left]
        /\ lock' = LockHeldBy(s, left)
        /\ spoiled' = (spoiled \/ (Writer(s) /\ left = "none"))
    BY DEF Kill
<1>2. Busy(s) /\ lock = s /\ UNCHANGED <<rows, torn, runs>>
    BY DEF Kill, Busy, EvalInv, LockInv
<1>3. suite[s] \in ShellType /\ suite' = [suite EXCEPT ![s] = X]
    BY DEF EvalInv, SuiteTypeOK, ShellType, Kill
<1>4. /\ X \in ShellType /\ X.at = "over" /\ X.todo = suite[s].todo
      /\ X.try = suite[s].try /\ X.rc = suite[s].rc /\ X.fail = suite[s].fail
      /\ X.recorded = suite[s].recorded /\ X.verdict = "killed"
    BY <1>3 DEF ShellType
<1> HIDE DEF X
<1>5. /\ \A u \in Suites : suite'[u] = IF u = s THEN X ELSE suite[u]
      /\ \A u \in Suites : Current(u)' = Current(u)
    BY <1>3, <1>4, Replaced
<1>6. /\ \A u \in Suites : child'[u] = IF u = s THEN left ELSE child[u]
      /\ child[s] \in {"none", "step", "okRow", "failRow"}
    BY <1>1 DEF EvalInv, SuiteTypeOK
<1>7. \A u \in Suites \ {s} : child[u] = "none" /\ ~Busy(u)
    BY <1>2 DEF EvalInv, LockInv, StepsHoldLock
<1>8. SuiteTypeOK'
  <2>1. spoiled' \in BOOLEAN
    BY <1>1
  <2>2. child' \in [Suites -> {"none", "step", "okRow", "failRow"}]
    BY <1>1, <1>6 DEF EvalInv, SuiteTypeOK
  <2>3. lock' \in Suites \cup {Free, Other}
    BY <1>1 DEF LockHeldBy
  <2> QED BY <1>2, <1>3, <1>4, <2>1, <2>2, <2>3 DEF EvalInv, SuiteTypeOK, ShellType
<1>9. LockInv'
    BY <1>1, <1>4, <1>5, <1>6, <1>7 DEF LockInv, StepsHoldLock, Busy, LockHeldBy
<1>10. ShellInv'
    BY <1>1, <1>2, <1>4, <1>5, <1>6 DEF EvalInv, ShellInv
<1>11. RunsInv'
    BY <1>1, <1>2, <1>4, <1>5, <1>6 DEF EvalInv, RunsInv, Present
<1>12. DoneInv'
    BY <1>1, <1>2, <1>4, <1>5, <1>6 DEF EvalInv, DoneInv, Done, Busy
<1>13. LedgerInv'
  <2>1. torn' => spoiled' \/ \E u \in Suites : Writer(u)'
    BY <1>1, <1>2, <1>6 DEF EvalInv, LedgerInv, Writer
  <2>2. spoiled => spoiled'
    BY <1>1
  <2>3. \A r \in runs : HasRow(r) => HasRow(r)'
    BY <1>2 DEF HasRow
  <2>4. ASSUME ~spoiled', NEW r \in runs', NEW u \in Suites, r.by = u,
               suite'[u].verdict # "killed"
        PROVE  HasRow(r)' \/ (Present(u, r)' /\ suite'[u].at \in {"running", "exiting"}
                                             /\ ~suite'[u].recorded)
    <3>1. u # s /\ ~Writer(u) /\ suite'[u] = suite[u] /\ r \in runs
      BY <1>2, <1>4, <1>5, <1>7, <2>4 DEF Writer
    <3>2. \/ HasRow(r)
          \/ Present(u, r) /\ suite[u].at \in {"running", "exiting"} /\ ~suite[u].recorded
      BY <2>2, <2>4, <3>1 DEF EvalInv, LedgerInv
    <3>3. Present(u, r) => Present(u, r)'
      BY <1>5, <3>1 DEF Present
    <3> QED BY <2>3, <3>1, <3>2, <3>3
  <2> QED BY <1>2, <2>1, <2>2, <2>4 DEF EvalInv, LedgerInv
<1> QED BY <1>8, <1>9, <1>10, <1>11, <1>12, <1>13 DEF EvalInv

(* No step of a suite, of its children or of others, and no signal or kill,  *)
(* breaks the invariant.                                                     *)
THEOREM SuiteInvariant == EvalSpec => []EvalInv
<1>1. EvalInv /\ [EvalNext]_evalVars => EvalInv'
  <2> SUFFICES ASSUME EvalInv, [EvalNext]_evalVars PROVE EvalInv'
    OBVIOUS
  <2>1. ASSUME NEW s \in Suites, ShellStep(s) PROVE EvalInv'
    BY <2>1, SkipKeeps, StartStepKeeps, RecordKeeps, JudgeKeeps, FinishKeeps,
       HeedKeeps, NoteInFlightKeeps, ReleaseKeeps DEF ShellStep
  <2>2. ASSUME NEW s \in Suites, ChildStep(s) PROVE EvalInv'
    BY <2>2, StepEndsKeeps, EndWriteKeeps DEF ChildStep
  <2>3. CASE UNCHANGED evalVars
    BY <2>3 DEF EvalInv, SuiteTypeOK, LockInv, StepsHoldLock, ShellInv, RunsInv, DoneInv,
         LedgerInv, Busy, Done, HasRow, Writer, Present, Current
  <2> QED BY <2>1, <2>2, <2>3, AcquireKeeps, RefusedKeeps, SignalKeeps, KillKeeps,
             WriterKilledKeeps, OtherUserKeeps DEF EvalNext
<1> QED BY EvalInitInv, <1>1, PTL DEF EvalSpec

(* Type correctness of suites, lock and ledger. *)
THEOREM SuiteTypeCorrect == EvalSpec => []SuiteTypeOK
<1>1. EvalInv => SuiteTypeOK
    BY DEF EvalInv
<1> QED BY <1>1, SuiteInvariant, PTL

(* A step or a write of the ledger only ever runs under the queue lock.      *)
THEOREM StepsUnderLock == EvalSpec => []StepsHoldLock
<1>1. EvalInv => StepsHoldLock
    BY DEF EvalInv, LockInv
<1> QED BY <1>1, SuiteInvariant, PTL

(* A suite that exits with 0 has every step of its plan behind it.           *)
THEOREM OkVerdictSound == EvalSpec => []OkMeansDone
<1>1. EvalInv => OkMeansDone
  <2> SUFFICES ASSUME EvalInv, NEW s \in Suites, suite[s].at = "exiting",
                      suite[s].verdict = "ok", NEW k \in Plan(s)
               PROVE  Done(k)
    BY DEF OkMeansDone, Done
  <2>1. suite[s].todo = {} /\ ~suite[s].fail /\ Busy(s)
    BY DEF EvalInv, DoneInv, Busy
  <2> QED BY <2>1 DEF EvalInv, DoneInv
<1> QED BY <1>1, SuiteInvariant, PTL

(* A suite that ended by itself or by a signal leaves a row for each step it *)
(* started.                                                                  *)
THEOREM ExecutionsRecorded == EvalSpec => []EveryExecutionRecorded
<1>1. EvalInv => EveryExecutionRecorded
  <2> SUFFICES ASSUME EvalInv, NEW s \in Suites, suite[s].at = "over",
                      suite[s].verdict # "killed", ~spoiled, NEW r \in runs, r.by = s
               PROVE  HasRow(r)
    BY DEF EveryExecutionRecorded, HasRow
  <2>1. ~Writer(s)
    BY DEF EvalInv, ShellInv, Writer
  <2> QED BY <2>1 DEF EvalInv, LedgerInv
<1> QED BY <1>1, SuiteInvariant, PTL

(* A resumed suite does not run a step again that is written down as         *)
(* completed, unless a write of the ledger was cut off.                      *)
THEOREM ResumeSkipsCompleted == EvalSpec => CompletedNotRerun
<1>1. EvalInv /\ [EvalNext]_evalVars =>
        [\A s \in Resumes :
           /\ suite[s].at = "ready" /\ suite[s].try = 1 /\ suite'[s].at = "running"
           /\ ~spoiled
           => \A r \in runs : r.step = Current(s) => ~r.shown]_evalVars
  <2> SUFFICES ASSUME EvalInv, EvalNext, NEW s \in Resumes, suite[s].at = "ready",
                      suite[s].try = 1, suite'[s].at = "running", ~spoiled,
                      NEW r \in runs, r.step = Current(s), r.shown
               PROVE  FALSE
    OBVIOUS
  <2>1. s \in Suites /\ lock = s
    BY EvalAssumption DEF EvalInv, LockInv, Busy
  <2>2. ~torn
    BY <2>1 DEF EvalInv, LockInv, ShellInv, StepsHoldLock, LedgerInv, Writer
  <2>3. Skips(s)
    BY <2>1, <2>2 DEF Skips, CompletedOk, EvalInv, LedgerInv
  <2> DEFINE Unstarted == suite'[s].at # "running"
  <2>a. suite \in [Suites -> ShellType] /\ DOMAIN suite = Suites
    BY DEF EvalInv, SuiteTypeOK, ShellType
  <2>b. suite[s].at = "ready" /\ suite'[s].at = "running"
    OBVIOUS
  <2>5. \A u \in Suites : suite[u] \in ShellType
    BY <2>a
  <2>6. ASSUME NEW u \in Suites, Acquire(u) \/ Refused(u) PROVE Unstarted
    BY <2>1, <2>a, <2>5, <2>6 DEF Acquire, Refused, ShellType
  <2>7. ASSUME NEW u \in Suites, StartStep(u) PROVE Unstarted
    BY <2>1, <2>3, <2>a, <2>7 DEF StartStep
  <2>8. ASSUME NEW u \in Suites, Skip(u) \/ Finish(u) PROVE Unstarted
    <3>1. Following(u).at = "ready" /\ \A v : Exits(u, v).at = "exiting"
      BY <2>5 DEF Following, Exits, ShellType
    <3>2. CASE Skip(u)
      BY <2>1, <2>a, <2>b, <3>1, <3>2 DEF Skip
    <3>3. CASE Finish(u)
      BY <2>1, <2>a, <2>b, <3>1, <3>3 DEF Finish
    <3> QED BY <2>8, <3>2, <3>3
  <2>9. ASSUME NEW u \in Suites, Record(u) \/ Heed(u) \/ NoteInFlight(u) \/ Release(u)
        PROVE Unstarted
    BY <2>1, <2>a, <2>5, <2>9 DEF Record, Heed, NoteInFlight, Release, ShellType
  <2>10. ASSUME NEW u \in Suites, Judge(u) PROVE Unstarted
    BY <2>1, <2>a, <2>10 DEF Judge, Undisturbed
  <2>11. ASSUME NEW u \in Suites, StepEnds(u) \/ Signal(u) \/ Kill(u) PROVE Unstarted
    BY <2>1, <2>a, <2>5, <2>11 DEF StepEnds, Signal, Kill, ShellType
  <2>12. ASSUME NEW u \in Suites, EndWrite(u) \/ WriterKilled(u) PROVE Unstarted
    BY <2>12 DEF EndWrite, WriterKilled
  <2>13. ASSUME OtherUser PROVE Unstarted
    BY <2>13 DEF OtherUser
  <2> HIDE DEF Unstarted
  <2>14. Unstarted
    BY <2>6, <2>7, <2>8, <2>9, <2>10, <2>11, <2>12, <2>13
       DEF EvalNext, ShellStep, ChildStep
  <2> QED BY <2>b, <2>14 DEF Unstarted
<1> QED BY <1>1, SuiteInvariant, PTL DEF EvalSpec, CompletedNotRerun
=============================================================================
