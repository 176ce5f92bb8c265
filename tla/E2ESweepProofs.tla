--------------------------- MODULE E2ESweepProofs ---------------------------
(* Proofs about the end-to-end sweep, for any host plan, any number of       *)
(* resumes and faults: the types; that the verdict of a completed run covers *)
(* its plan, whatever was killed, aborted and resumed on the way; that an    *)
(* unfinished run is offered for a resume; that no resume repeats a unit     *)
(* that ended; and that the whole implements SweepPromise.                   *)
EXTENDS E2ESweep, SequenceTheorems, FiniteSetTheorems, WellFoundedInduction, TLAPS

-----------------------------------------------------------------------------
(* The inductive invariant                                                   *)

LabelOf(c) == IF c.at \in Writing THEN c.then ELSE c.at
Sweeping(c) == LabelOf(c) \in {"bucket", "lock", "units"}

(* What a copy of the run says of the full sweep is so: an attempt counts    *)
(* only units that some child run ended, and success means the whole plan.   *)
SoundAttempts(q) == \A i \in DOMAIN q : \A u \in q[i].done : Ran(q[i].lane, u)

Sound(r) ==
  /\ SoundAttempts(r.attempts["full_sweep"])
  /\ r.status["full_sweep"] = "succeeded" => \A b \in Range(Buckets) : Covered(b)
  /\ "full_sweep" \notin Enabled => r.status["full_sweep"] = "skipped"

(* The verdict on the full sweep is there and covers the plan.               *)
Covers(r) ==
  /\ r.status["full_sweep"] \in Final
  /\ \A b \in Range(Buckets) :
       \/ r.status["full_sweep"] \notin {"succeeded", "partial"}
       \/ Covered(b)
       \/ Gated(b) /\ r.status["full_sweep"] = "partial"

(* A copy between two buckets: the last attempt of a running sweep succeeded. *)
Between(r) ==
  /\ r.status["full_sweep"] = "running" /\ r.attempts["full_sweep"] # <<>>
  /\ Last(r.attempts["full_sweep"]).status = "succeeded"

(* Where a process is in its run.                                            *)
Placed(c) ==
  /\ c.at \in Writing =>
       c.then \in {"arm", "signals", "next", "invoke", "bucket", "lock", "finish", "dead"}
  /\ c.at \in {"new", "load"} => c.pos = 1 /\ c.run.state # "completed"
  /\ LabelOf(c) = "invoke" => c.pos \in {1, 3, 4}
  /\ Sweeping(c) => c.pos = 2 /\ "full_sweep" \in Enabled
  /\ LabelOf(c) \in {"lock", "units"} => c.bucket <= Len(Buckets)
  /\ c.run.state = "completed" => c.pos > Len(Order)

(* A bucket that a process has passed, and the units of the one at hand.     *)
Accounted(b, outcomes) ==
  \/ Covered(b)
  \/ outcomes \cap {"aborted", "failed"} # {}
  \/ Gated(b) /\ "partial" \in outcomes

Counted(c) ==
  /\ Sweeping(c) =>
       \A k \in DOMAIN Buckets : k < c.bucket => Accounted(Buckets[k], c.outcomes)
  /\ LabelOf(c) \in {"lock", "units"} =>
       /\ ~Gated(Buckets[c.bucket])
       /\ \A u \in Range(plan.units[Buckets[c.bucket]]) :
            Ran(Buckets[c.bucket], u) \/ u \in Range(c.todo)

(* A process past the full sweep has its verdict; only one in the middle of  *)
(* the sweep has a copy between two buckets.                                 *)
Local(c) ==
  /\ Sound(c.run) /\ Placed(c) /\ Counted(c)
  /\ c.pos > 2 => Covers(c.run)
  /\ Between(c.run) => Sweeping(c)

LogInv ==
  /\ stageLog["full_sweep"] = "succeeded" => \A b \in Range(Buckets) : Covered(b)
  /\ "full_sweep" \notin Enabled =>
       stageLog["full_sweep"] = "planned" /\ \A e \in child : e[1] # "single_gpu"

(* A process that is about to replace the checkpoint.                        *)
Open(c) == Sweeping(c) \/ LabelOf(c) = "finish" \/ c.at \in {"truncate", "write"}

(* The checkpoint. *)
FileInv ==
  /\ Sound(checkpoint)
  /\ checkpoint.state = "completed" => Covers(checkpoint)

(* Processes start one after the other.                                      *)
OrderInv == \A o \in Orchs : o > watcher.count + 1 => orch[o].at = "new"

SweepInv ==
  /\ SweepTypeOK /\ LogInv /\ FileInv /\ OrderInv
  /\ \A o \in Orchs : Local(orch[o])

(* The first process may still be on its way out when the watcher starts the *)
(* next one, since its files say aborted before it is gone; the others wait  *)
(* for each other.                                                           *)
Resumes == Orchs \ {1}
Resumed == \E p \in Resumes : orch[p].at # "new"

Parting(c) == c.run.state = "aborted" => LabelOf(c) \in {"finish", "dead"}
Leaving(c) == c.at = "dead" \/ (c.run.state = "aborted" /\ LabelOf(c) \in {"finish", "dead"})

FirstInv == orch[1].at \notin {"new", "load"} /\ Parting(orch[1])

TurnInv ==
  \A p \in Resumes :
    \/ watcher.at = "wait" /\ p = watcher.count + 1
    \/ orch[p].at \in {"new", "dead"}

(* Before any resume the files are the first process's; once they say that   *)
(* it was aborted, it only leaves, and the checkpoint is not in between.     *)
AloneInv ==
  /\ published.by = 1 /\ watcher.seen.by = 1
  /\ orch[1].at = "publish" => ~torn /\ checkpoint = orch[1].run
  /\ watcher.seen.state = "aborted" => published.state = "aborted"
  /\ published.state = "aborted" => Leaving(orch[1]) /\ ~BetweenBuckets
  /\ BetweenBuckets => Open(orch[1])

(* After that, a checkpoint between two buckets is a resume's, which is about *)
(* to replace it: what the first process writes late is not in between.      *)
OvertakenInv ==
  /\ Leaving(orch[1])
  /\ BetweenBuckets => \E p \in Resumes : Open(orch[p])

OverlapInv ==
  /\ FirstInv /\ TurnInv
  /\ ~Resumed => AloneInv
  /\ Resumed => OvertakenInv

-----------------------------------------------------------------------------
(* Stages, buckets and plans                                                 *)

LEMMA Names ==
  /\ Stages = {"tier1", "full_sweep", "cluster", "fabric"} /\ Len(Order) = 4
  /\ Order[1] = "tier1" /\ Order[2] = "full_sweep" /\ Order[3] = "cluster" /\ Order[4] = "fabric"
  /\ Range(Buckets) = {"single_gpu", "multi_gpu"} /\ Len(Buckets) = 2 /\ DOMAIN Buckets = {1, 2}
  /\ Buckets[1] = "single_gpu" /\ Buckets[2] = "multi_gpu"
BY DEF Stages, Order, Buckets, Range

LEMMA PlanTypes ==
  ASSUME plan \in Plans
  PROVE  /\ plan.twoGpus \in BOOLEAN
         /\ \A b \in Range(Buckets) : plan.units[b] \in Seq(Units) /\ Range(plan.units[b]) \subseteq Units
<1>1. ASSUME NEW b \in Range(Buckets)
      PROVE  plan.units[b] \in Seq(Units) /\ Range(plan.units[b]) \subseteq Units
  <2>1. Range(plan.units[b]) \subseteq Units
    BY DEF Units
  <2>2. plan.units[b] \in Seq(Range(plan.units[b]))
    BY SweepAssumption
  <2> QED BY <2>1, <2>2
<1> QED BY <1>1, SweepAssumption

(* Events are only added: what was ended stays ended.                        *)
LEMMA Growth ==
  ASSUME plan' = plan, child \subseteq child'
  PROVE  /\ \A b, u : Ran(b, u) => Ran(b, u)'
         /\ \A b : Covered(b) => Covered(b)'
         /\ \A b : Gated(b)' = Gated(b)
<1>1. \A b, u : Ran(b, u) => Ran(b, u)'
  BY DEF Ran
<1> QED BY <1>1 DEF Covered, Gated

LEMMA GrowthOfCopies ==
  ASSUME plan' = plan, child \subseteq child', NEW r
  PROVE  /\ Sound(r) => Sound(r)'
         /\ Covers(r) => Covers(r)'
<1>1. Sound(r) => Sound(r)'
  BY Growth DEF Sound, SoundAttempts
<1>2. Covers(r) => Covers(r)'
  BY Growth DEF Covers
<1> QED BY <1>1, <1>2

LEMMA GrowthOfControls ==
  ASSUME plan' = plan, child \subseteq child', NEW c, Local(c)
  PROVE  Local(c)'
<1>1. Sound(c.run)' /\ (c.pos > 2 => Covers(c.run)')
  BY GrowthOfCopies DEF Local
<1>2. Counted(c)'
  BY Growth DEF Local, Counted, Accounted, Sweeping, LabelOf
<1> QED BY <1>1, <1>2 DEF Local, Placed, Sweeping, LabelOf, Between

-----------------------------------------------------------------------------
(* Attempts                                                                  *)

LEMMA NewAttemptType ==
  ASSUME NEW lane \in Stages \cup Range(Buckets), NEW index \in Nat, NEW status \in Final \cup {"running"}
  PROVE  NewAttempt(lane, index, status) \in Attempts
BY DEF NewAttempt, Attempts

LEMMA AbortedAttempt ==
  ASSUME NEW a \in Attempts
  PROVE  /\ AbortAttempt(a) \in Attempts /\ AbortAttempt(a).status = "aborted"
         /\ AbortAttempt(a).lane = a.lane
         /\ \A u \in AbortAttempt(a).done : Ran(a.lane, u)
<1>1. EndedBy(a) \subseteq Units /\ \A u \in EndedBy(a) : Ran(a.lane, u)
  BY DEF EndedBy, Ran
<1>2. AbortAttempt(a) \in Attempts
  BY <1>1 DEF AbortAttempt, Attempts, Final
<1>3. /\ AbortAttempt(a).status = "aborted" /\ AbortAttempt(a).lane = a.lane
      /\ AbortAttempt(a).done = EndedBy(a)
  BY DEF AbortAttempt, Attempts
<1> QED BY <1>1, <1>2, <1>3

LEMMA SettledAttempts ==
  ASSUME NEW q \in Seq(Attempts)
  PROVE  /\ Settled(q) \in Seq(Attempts) /\ Len(Settled(q)) = Len(q)
         /\ \A i \in 1..Len(q) :
              Settled(q)[i] = IF q[i].status = "running" THEN AbortAttempt(q[i]) ELSE q[i]
<1>1. Settled(q) = [i \in 1..Len(q) |-> IF q[i].status = "running" THEN AbortAttempt(q[i]) ELSE q[i]]
  BY DEF Settled
<1>2. \A i \in 1..Len(q) : q[i] \in Attempts
  OBVIOUS
<1>3. \A i \in 1..Len(q) : Settled(q)[i] \in Attempts
  BY <1>1, <1>2, AbortedAttempt
<1>4. Len(q) \in Nat
  OBVIOUS
<1> QED BY <1>1, <1>3, <1>4, IsASeq

(* The first unit without an end: of a set of places, one is the least.      *)
LEMMA LeastPlace ==
  ASSUME NEW T \in SUBSET Nat, T # {}
  PROVE  Min(T) \in T /\ \A y \in T : Min(T) <= y
<1>1. IsWellFoundedOn(OpToRel(<, Nat), Nat)
  BY NatLessThanWellFounded
<1>2. PICK x \in T : \A y \in T : ~(<<y, x>> \in OpToRel(<, Nat))
  BY <1>1, WFMin
<1>3. \A y \in T : ~(<<y, x>> \in {ss \in Nat \X Nat : ss[1] < ss[2]})
  BY <1>2, Zenon DEF OpToRel
<1>4. \A y \in T : x =< y
  <2> TAKE y \in T
  <2>1. ~(<<y, x>> \in {ss \in Nat \X Nat : ss[1] < ss[2]})
    BY <1>3
  <2> QED BY <2>1
<1> QED BY <1>4 DEF Min

LEMMA RemainingUnits ==
  ASSUME plan \in Plans, NEW lane \in Range(Buckets), NEW q \in Seq(Attempts)
  PROVE  /\ Remaining(q, lane) \in Seq(Units)
         /\ \A u \in Range(plan.units[lane]) :
              u \in Range(Remaining(q, lane)) \/ \E i \in InLane(q, lane) : u \in q[i].done
<1> DEFINE s == plan.units[lane]
           ended == UNION {q[i].done : i \in InLane(q, lane)}
           places == {i \in DOMAIN s : s[i] \notin ended} \cup {Len(s) + 1}
           first == FirstOpen(q, lane)
<1>1. s \in Seq(Units)
  BY PlanTypes
<1>2. first = Min(places)
  BY DEF FirstOpen
<1>3. first \in places /\ \A y \in places : first <= y
  <2>1. places \in SUBSET Nat /\ places # {}
    <3>1. DOMAIN s \subseteq Nat /\ Len(s) + 1 \in Nat
      BY <1>1
    <3> HIDE DEF ended, s
    <3> QED BY <3>1
  <2> HIDE DEF places
  <2> QED BY <1>2, <2>1, LeastPlace
<1>4. first \in 1..(Len(s) + 1) /\ Len(s) \in Nat /\ DOMAIN s = 1..Len(s)
  BY <1>1, <1>3
<1>5. Remaining(q, lane) = SubSeq(s, first, Len(s))
  BY DEF Remaining, From
<1> HIDE DEF s, first
<1>6. Remaining(q, lane) \in Seq(Units)
  BY <1>1, <1>4, <1>5
<1>7. ASSUME NEW j \in 1..Len(s), s[j] \notin ended PROVE s[j] \in Range(Remaining(q, lane))
  <2>1. first <= j
    BY <1>3, <1>4, <1>7
  <2>2. /\ Len(SubSeq(s, first, Len(s))) = Len(s) - first + 1
        /\ SubSeq(s, first, Len(s))[j - first + 1] = s[j]
    BY <1>1, <1>4, <2>1
  <2>3. j - first + 1 \in DOMAIN Remaining(q, lane)
    BY <1>4, <1>5, <1>6, <2>1, <2>2
  <2> QED BY <1>5, <2>2, <2>3 DEF Range
<1>8. \A u \in Range(s) : \E j \in 1..Len(s) : u = s[j]
  BY <1>4 DEF Range
<1> QED BY <1>6, <1>7, <1>8 DEF s

LEMMA WorstIsFinal ==
  ASSUME NEW S
  PROVE  /\ Worst(S) \in {"aborted", "failed", "partial", "succeeded"}
         /\ Worst(S) \in {"partial", "succeeded"} => S \cap {"aborted", "failed"} = {}
         /\ Worst(S) = "succeeded" => "partial" \notin S
BY DEF Worst

LEMMA AppendedAttempt ==
  ASSUME NEW q \in Seq(Attempts), NEW a \in Attempts
  PROVE  /\ Append(q, a) \in Seq(Attempts) /\ Append(q, a) # <<>> /\ Last(Append(q, a)) = a
         /\ SoundAttempts(q) /\ a.done = {} => SoundAttempts(Append(q, a))
<1>1. /\ Append(q, a) \in Seq(Attempts) /\ Len(Append(q, a)) = Len(q) + 1 /\ Len(q) \in Nat
      /\ DOMAIN Append(q, a) = 1..(Len(q) + 1) /\ DOMAIN q = 1..Len(q)
      /\ \A i \in 1..(Len(q) + 1) : Append(q, a)[i] = IF i = Len(q) + 1 THEN a ELSE q[i]
  OBVIOUS
<1>2. Append(q, a) # <<>> /\ Last(Append(q, a)) = a
  BY <1>1 DEF Last
<1>3. SoundAttempts(q) /\ a.done = {} => SoundAttempts(Append(q, a))
  BY <1>1 DEF SoundAttempts
<1> QED BY <1>1, <1>2, <1>3

LEMMA SettledSound ==
  ASSUME NEW q \in Seq(Attempts)
  PROVE  /\ SoundAttempts(q) => SoundAttempts(Settled(q))
         /\ Settled(q) = <<>> <=> q = <<>>
         /\ q # <<>> => /\ Last(Settled(q)).status \in Final
                        /\ Last(Settled(q)).status = "succeeded" => Last(q).status = "succeeded"
<1>1. /\ Settled(q) \in Seq(Attempts) /\ Len(Settled(q)) = Len(q)
      /\ \A i \in 1..Len(q) :
           Settled(q)[i] = IF q[i].status = "running" THEN AbortAttempt(q[i]) ELSE q[i]
  BY SettledAttempts
<1>2. /\ DOMAIN q = 1..Len(q) /\ DOMAIN Settled(q) = 1..Len(q) /\ Len(q) \in Nat
      /\ \A i \in 1..Len(q) : q[i] \in Attempts
  BY <1>1
<1>3. SoundAttempts(q) => SoundAttempts(Settled(q))
  <2> SUFFICES ASSUME SoundAttempts(q), NEW i \in 1..Len(q), NEW u \in Settled(q)[i].done
               PROVE  Ran(Settled(q)[i].lane, u)
    BY <1>2 DEF SoundAttempts
  <2>1. CASE q[i].status = "running"
    BY <1>1, <1>2, <2>1, AbortedAttempt
  <2>2. CASE q[i].status # "running"
    BY <1>1, <1>2, <2>2 DEF SoundAttempts
  <2> QED BY <2>1, <2>2
<1>4. Settled(q) = <<>> <=> q = <<>>
  BY <1>1
<1>5. ASSUME q # <<>>
      PROVE  /\ Last(Settled(q)).status \in Final
             /\ Last(Settled(q)).status = "succeeded" => Last(q).status = "succeeded"
  <2>1. Len(q) \in 1..Len(q) /\ Last(Settled(q)) = Settled(q)[Len(q)] /\ Last(q) = q[Len(q)]
    BY <1>1, <1>2, <1>5 DEF Last
  <2>2. q[Len(q)].status \in Final \cup {"running"} /\ AbortAttempt(q[Len(q)]).status = "aborted"
    BY <1>2, <2>1, AbortedAttempt DEF Attempts
  <2> QED BY <1>1, <2>1, <2>2 DEF Final
<1> QED BY <1>3, <1>4, <1>5

(* A child run's results in its attempt.                                     *)
LEMMA EndedAttempt ==
  ASSUME NEW q \in Seq(Attempts), NEW v \in Verdicts, NEW n, n = Len(q)
  PROVE  /\ [q EXCEPT ![n] = [q[n] EXCEPT !.status = v, !.done = EndedBy(q[n])]] \in Seq(Attempts)
         /\ SoundAttempts(q) =>
              SoundAttempts([q EXCEPT ![n] = [q[n] EXCEPT !.status = v, !.done = EndedBy(q[n])]])
<1> DEFINE a == [q[n] EXCEPT !.status = v, !.done = EndedBy(q[n])]
           e == [q EXCEPT ![n] = a]
<1>1. /\ n \in Nat /\ DOMAIN q = 1..n /\ DOMAIN e = 1..n
      /\ \A i \in 1..n : e[i] = IF i = n THEN a ELSE q[i]
  <2> HIDE DEF a
  <2> QED OBVIOUS
<1>2. ASSUME NEW i \in 1..n
      PROVE  e[i] \in Attempts /\ (SoundAttempts(q) => \A u \in e[i].done : Ran(e[i].lane, u))
  <2>1. CASE i # n
    <3>1. e[i] = q[i] /\ q[i] \in Attempts
      BY <1>1, <1>2, <2>1
    <3> QED BY <1>1, <1>2, <3>1 DEF SoundAttempts
  <2>2. CASE i = n
    <3>1. e[i] = a /\ q[n] \in Attempts
      <4> HIDE DEF a, e
      <4> QED BY <1>1, <1>2, <2>2
    <3>2. EndedBy(q[n]) \subseteq Units /\ \A u \in EndedBy(q[n]) : Ran(q[n].lane, u)
      BY DEF EndedBy, Ran
    <3>3. a \in Attempts /\ a.lane = q[n].lane /\ a.done = EndedBy(q[n])
      BY <3>1, <3>2 DEF Attempts, Verdicts, Final
    <3> HIDE DEF a, e
    <3> QED BY <3>1, <3>2, <3>3
  <2> QED BY <2>1, <2>2
<1> HIDE DEF a
<1>3. DOMAIN e = 1..n
  BY <1>1
<1> HIDE DEF e
<1>4. e \in Seq(Attempts)
  <2>1. e \in [1..n -> Attempts]
    BY <1>2, <1>3 DEF e
  <2> QED BY <1>1, <2>1, SeqDef
<1>5. SoundAttempts(q) => SoundAttempts(e)
  BY <1>2, <1>3 DEF SoundAttempts
<1> QED BY <1>4, <1>5 DEF a, e

-----------------------------------------------------------------------------
(* Copies of the run                                                         *)

LEMMA FreshCopy ==
  /\ FreshRun \in Runs /\ Sound(FreshRun) /\ ~Between(FreshRun) /\ FreshRun.state = "running"
  /\ FreshRun.status["full_sweep"] \in {"planned", "skipped"}
<1>1. 1 \in Orchs /\ <<>> \in Seq(Attempts)
  BY SweepAssumption DEF Orchs
<1>2. FreshRun \in Runs
  BY <1>1 DEF FreshRun, Runs, Final
<1>3. /\ FreshRun.attempts["full_sweep"] = <<>> /\ FreshRun.state = "running"
      /\ FreshRun.status["full_sweep"] = IF "full_sweep" \in Enabled THEN "planned" ELSE "skipped"
  BY Names DEF FreshRun
<1>4. SoundAttempts(<<>>)
  BY DEF SoundAttempts
<1> QED BY <1>2, <1>3, <1>4 DEF Sound, Between

(* What a resume makes of a copy that is not between two buckets.            *)
LEMMA NormalisedCopy ==
  ASSUME NEW r \in Runs, Sound(r), ~Between(r), NEW stale \in BOOLEAN
  PROVE  Normalised(r, stale) \in Runs /\ Sound(Normalised(r, stale)) /\ ~Between(Normalised(r, stale))
<1> DEFINE n == Normalised(r, stale)
           changed(s) == Settled(r.attempts[s]) # r.attempts[s] \/ stale
           status(s) == IF r.status[s] = "running" /\ changed(s) /\ Settled(r.attempts[s]) # <<>>
                        THEN Last(Settled(r.attempts[s])).status ELSE r.status[s]
<1>1. /\ n.attempts = [s \in Stages |-> Settled(r.attempts[s])]
      /\ n.status = [s \in Stages |-> status(s)]
      /\ n.state = r.state /\ n.resumable = r.resumable /\ n.by = r.by
  BY DEF Normalised, Runs
<1>2. \A s \in Stages : r.attempts[s] \in Seq(Attempts) /\ r.status[s] \in Final \cup {"planned", "running"}
  BY DEF Runs
<1>3. \A s \in Stages : Settled(r.attempts[s]) \in Seq(Attempts)
  BY <1>2, SettledAttempts
<1>4. \A s \in Stages : status(s) \in Final \cup {"planned", "running"}
  BY <1>2, SettledSound
<1>5. n \in Runs
  BY <1>1, <1>3, <1>4 DEF Normalised, Runs
<1> HIDE DEF n
<1>6. /\ n.attempts["full_sweep"] = Settled(r.attempts["full_sweep"])
      /\ n.status["full_sweep"] = status("full_sweep")
  BY <1>1, Names
<1>7. r.attempts["full_sweep"] \in Seq(Attempts)
  BY <1>2, Names
<1>8. r.status["full_sweep"] = "running" /\ r.attempts["full_sweep"] # <<>> =>
        Last(Settled(r.attempts["full_sweep"])).status \notin {"succeeded", "running"}
  BY <1>7, SettledSound DEF Between, Final, Verdicts
<1>9. Sound(n)
  BY <1>6, <1>7, <1>8, SettledSound DEF Sound
<1>10. ~Between(n)
  BY <1>6, <1>7, <1>8, SettledSound DEF Between
<1> QED BY <1>5, <1>9, <1>10 DEF n

(* The run as the event files show it. *)
LEMMA RecoveredCopy ==
  ASSUME SweepTypeOK, LogInv
  PROVE  Recovered \in Runs /\ Sound(Recovered) /\ ~Between(Recovered)
<1> DEFINE sweep == AbortAttempt(FirstChild)
           status(s) == CASE s = "full_sweep" /\ FirstChildSeen -> sweep.status
                          [] s \in {"tier1", "full_sweep"} /\ stageLog[s] # "planned" -> stageLog[s]
                          [] OTHER -> FreshRun.status[s]
           attempts(s) == CASE s = "full_sweep" /\ FirstChildSeen -> <<sweep>>
                            [] s = "tier1" /\ stageLog[s] # "planned" -> <<NewAttempt("tier1", 0, stageLog[s])>>
                            [] OTHER -> <<>>
<1>1. /\ sweep \in Attempts /\ sweep.status = "aborted"
      /\ \A u \in sweep.done : Ran(sweep.lane, u)
  <2>1. FirstChild \in Attempts
    BY NewAttemptType, Names DEF FirstChild, Final
  <2> QED BY <2>1, AbortedAttempt
<1> HIDE DEF sweep
<1>2. \A s \in Stages : stageLog[s] \in Final \cup {"planned"}
  BY DEF SweepTypeOK
<1>3. \A s \in Stages : FreshRun.status[s] \in Final \cup {"planned", "running"}
  BY FreshCopy DEF Runs
<1>4. \A s \in Stages : status(s) \in Final \cup {"planned", "running"}
  BY <1>1, <1>2, <1>3 DEF Final
<1>5. \A s \in Stages : attempts(s) \in Seq(Attempts)
  <2> SUFFICES ASSUME NEW s \in Stages PROVE attempts(s) \in Seq(Attempts)
    OBVIOUS
  <2>1. stageLog[s] # "planned" => NewAttempt("tier1", 0, stageLog[s]) \in Attempts
    BY <1>2, NewAttemptType, Names
  <2> QED BY <1>1, <2>1
<1> DEFINE statuses == [s \in Stages |-> status(s)]
           lists == [s \in Stages |-> attempts(s)]
<1>6. Recovered = [FreshRun EXCEPT !.status = statuses, !.attempts = lists]
  BY DEF Recovered, RecoveredFrom, sweep
<1>7. Recovered \in Runs /\ Recovered.status = statuses /\ Recovered.attempts = lists
  <2>1. statuses \in [Stages -> Final \cup {"planned", "running"}] /\ lists \in [Stages -> Seq(Attempts)]
    BY <1>4, <1>5
  <2> HIDE DEF statuses, lists
  <2> QED BY <1>6, <2>1, FreshCopy DEF Runs
<1>8. /\ Recovered.status["full_sweep"] = status("full_sweep")
      /\ Recovered.attempts["full_sweep"] = attempts("full_sweep")
  BY <1>7, Names
<1>9. SoundAttempts(attempts("full_sweep")) /\ (FirstChildSeen => "full_sweep" \in Enabled)
  <2>1. FirstChildSeen => "full_sweep" \in Enabled
    <3> SUFFICES ASSUME NEW u, <<"single_gpu", 0, u>> \in child PROVE "full_sweep" \in Enabled
      BY DEF FirstChildSeen
    <3> QED BY DEF LogInv
  <2>2. SoundAttempts(<<sweep>>) /\ SoundAttempts(<<>>)
    BY <1>1 DEF SoundAttempts
  <2>3. attempts("full_sweep") = IF FirstChildSeen THEN <<sweep>> ELSE <<>>
    OBVIOUS
  <2> QED BY <2>1, <2>2, <2>3
<1>10. /\ status("full_sweep") # "running"
       /\ status("full_sweep") = "succeeded" => stageLog["full_sweep"] = "succeeded"
       /\ ~FirstChildSeen /\ stageLog["full_sweep"] = "planned" =>
            status("full_sweep") = FreshRun.status["full_sweep"]
  <2>1. "full_sweep" \in Stages /\ FreshRun.status["full_sweep"] \in {"planned", "skipped"}
    BY Names, FreshCopy
  <2> QED BY <1>1, <1>2, <2>1 DEF Final, Verdicts
<1>11. Sound(Recovered)
  BY <1>8, <1>9, <1>10, FreshCopy DEF Sound, LogInv
<1> QED BY <1>7, <1>8, <1>10, <1>11 DEF Between

LEMMA StatusedCopy ==
  ASSUME NEW r \in Runs, NEW s, NEW v \in Final \cup {"planned", "running"}
  PROVE  /\ [r EXCEPT !.status[s] = v] \in Runs
         /\ [r EXCEPT !.status[s] = v].attempts = r.attempts
         /\ [r EXCEPT !.status[s] = v].state = r.state
         /\ s \in Stages => [r EXCEPT !.status[s] = v].status[s] = v
         /\ \A t \in Stages \ {s} : [r EXCEPT !.status[s] = v].status[t] = r.status[t]
BY DEF Runs

LEMMA AttemptedCopy ==
  ASSUME NEW r \in Runs, NEW s, NEW q \in Seq(Attempts)
  PROVE  /\ [r EXCEPT !.attempts[s] = q] \in Runs
         /\ [r EXCEPT !.attempts[s] = q].status = r.status
         /\ [r EXCEPT !.attempts[s] = q].state = r.state
         /\ s \in Stages => [r EXCEPT !.attempts[s] = q].attempts[s] = q
         /\ \A t \in Stages \ {s} : [r EXCEPT !.attempts[s] = q].attempts[t] = r.attempts[t]
BY DEF Runs

(* A stage other than the full sweep does not touch what is said of it.      *)
LEMMA OtherStage ==
  ASSUME NEW r, NEW q, r.status["full_sweep"] = q.status["full_sweep"],
         r.attempts["full_sweep"] = q.attempts["full_sweep"]
  PROVE  /\ Sound(r) <=> Sound(q)
         /\ Covers(r) <=> Covers(q)
         /\ Between(r) <=> Between(q)
BY DEF Sound, Covers, Between

-----------------------------------------------------------------------------
(* Steps of one process                                                      *)

LEMMA SavedControl ==
  ASSUME SweepTypeOK, NEW o \in Orchs, NEW r \in Runs, NEW next \in Labels, NEW d, d = Saving(o, r, next)
  PROVE  /\ d \in Controls /\ d.at = "truncate" /\ d.then = next /\ LabelOf(d) = next
         /\ d.run = r /\ d.pos = orch[o].pos /\ d.bucket = orch[o].bucket
         /\ d.outcomes = orch[o].outcomes /\ d.todo = orch[o].todo
<1>1. orch[o] \in Controls
  BY DEF SweepTypeOK
<1>2. "truncate" \in Labels /\ "truncate" \in Writing
  BY DEF Labels, Writing
<1> QED BY <1>1, <1>2 DEF Saving, Controls, LabelOf

LEMMA Replaced ==
  ASSUME SweepTypeOK, NEW o \in Orchs, NEW d \in Controls, orch' = [orch EXCEPT ![o] = d]
  PROVE  /\ orch' \in [Orchs -> Controls] /\ orch'[o] = d
         /\ \A u \in Orchs : u # o => orch'[u] = orch[u]
BY DEF SweepTypeOK

Watchers == [at : {"off", "idle", "judge", "wait", "done", "exhausted"}, seen : Views,
             count : 0..MaxResumes]

(* The types depend on the plan, which is frozen. *)
LEMMA FrozenTypes ==
  ASSUME plan' = plan
  PROVE  Runs' = Runs /\ Controls' = Controls
<1>1. Units' = Units
  BY DEF Units
<1>2. Attempts' = Attempts
  BY <1>1 DEF Attempts
<1>3. Runs' = Runs
  BY <1>2 DEF Runs
<1> QED BY <1>1, <1>3 DEF Controls

(* One process goes on; the files stay as they are.                          *)
LEMMA Advance ==
  ASSUME SweepInv, NEW o \in Orchs, orch[o].at # "new",
         orch' \in [Orchs -> Controls], \A u \in Orchs : u # o => orch'[u] = orch[u],
         UNCHANGED <<plan, checkpoint>>, child \subseteq child',
         published' \in Views,
         torn' \in BOOLEAN, torn => torn',
         stageLog' \in [Stages -> Final \cup {"planned"}], LogInv',
         watcher' \in Watchers, watcher'.count = watcher.count, faults' \in 0..MaxFaults,
         Local(orch[o])'
  PROVE  SweepInv'
<1>1. SweepTypeOK'
  BY FrozenTypes DEF SweepInv, SweepTypeOK, Watchers, Views
<1>2. \A u \in Orchs : Local(orch[u])'
  <2> SUFFICES ASSUME NEW u \in Orchs PROVE Local(orch[u])'
    OBVIOUS
  <2>1. CASE u = o
    BY <2>1
  <2>2. CASE u # o
    BY <2>2, GrowthOfControls DEF SweepInv
  <2> QED BY <2>1, <2>2
<1>3. FileInv'
  BY GrowthOfCopies DEF SweepInv, FileInv
<1>4. OrderInv'
  BY DEF SweepInv, OrderInv, SweepTypeOK
<1> QED BY <1>1, <1>2, <1>3, <1>4 DEF SweepInv

(* The same for a step that writes no file but the log of the stages.        *)
LEMMA Moves ==
  ASSUME SweepInv, NEW o \in Orchs, orch[o].at # "new",
         NEW d \in Controls, orch' = [orch EXCEPT ![o] = d],
         UNCHANGED <<plan, checkpoint, torn, published, child>>,
         stageLog' \in [Stages -> Final \cup {"planned"}], LogInv',
         watcher' \in Watchers, watcher'.count = watcher.count, faults' \in 0..MaxFaults,
         Local(d)
  PROVE  SweepInv'
<1>1. /\ orch' \in [Orchs -> Controls] /\ orch'[o] = d
      /\ \A u \in Orchs : u # o => orch'[u] = orch[u]
  BY Replaced DEF SweepInv
<1>2. Local(orch[o])'
  BY <1>1, GrowthOfControls
<1>3. torn' \in BOOLEAN /\ published' = published /\ torn' = torn
  BY DEF SweepInv, SweepTypeOK
<1>4. published' \in Views
  BY <1>3 DEF SweepInv, SweepTypeOK
<1> QED BY <1>1, <1>2, <1>3, <1>4, Advance

LEMMA Steps ==
  ASSUME SweepInv, NEW o \in Orchs, orch[o].at # "new",
         NEW d \in Controls, orch' = [orch EXCEPT ![o] = d],
         UNCHANGED <<plan, checkpoint, torn, published, child, stageLog, watcher, faults>>,
         Local(d)
  PROVE  SweepInv'
<1>1. LogInv'
  BY Growth DEF SweepInv, LogInv
<1>2. /\ stageLog' \in [Stages -> Final \cup {"planned"}] /\ faults' \in 0..MaxFaults
      /\ watcher' \in Watchers /\ watcher'.count = watcher.count
  BY DEF SweepInv, SweepTypeOK, Watchers
<1> QED BY <1>1, <1>2, Moves

(* Outside the full sweep and the other stages, a process may go to any      *)
(* other label outside them.                                                 *)
Outside == {"arm", "signals", "next", "finish", "dead"}

LEMMA Relabelled ==
  ASSUME NEW c \in Controls, Local(c), NEW d \in Controls, ~Sweeping(c),
         d.run = c.run, d.pos = c.pos,
         \/ d.at \in Writing /\ d.then \in Outside
         \/ d.at \in Outside \cup {"stuck"}
  PROVE  Local(d)
<1>1. LabelOf(d) \in Outside \cup {"stuck"}
  BY DEF LabelOf, Writing, Outside
<1>2. /\ ~Sweeping(d) /\ LabelOf(d) \notin {"lock", "units", "invoke"}
      /\ d.at \notin {"new", "load"}
  BY <1>1 DEF Sweeping, Outside, Writing
<1>3. d.at \in Writing => d.then \in Outside
  BY DEF Writing, Outside
<1> QED BY <1>2, <1>3 DEF Local, Placed, Counted, Outside

LEMMA DeadControl ==
  /\ Idle \in Controls /\ Dead \in Controls /\ Local(Idle) /\ Local(Dead)
  /\ Dead.at = "dead" /\ Dead.run.state = "running" /\ Idle.at = "new"
<1>1. Idle \in Controls
  BY FreshCopy DEF Idle, Controls, Labels, Gone
<1>2. /\ Dead \in Controls /\ Dead.at = "dead" /\ Dead.then = "new" /\ Dead.run = FreshRun
      /\ Dead.pos = 1
  BY <1>1 DEF Dead, Controls, Labels, Gone, Idle
<1>3. Idle.at = "new" /\ Idle.then = "new" /\ Idle.run = FreshRun /\ Idle.pos = 1
  BY DEF Idle
<1> QED BY <1>1, <1>2, <1>3, FreshCopy
    DEF Local, Placed, Counted, Sweeping, LabelOf, Writing

LEMMA TruncateKeeps ==
  ASSUME SweepInv, NEW o \in Orchs, Truncate(o)
  PROVE  SweepInv'
<1> DEFINE d == [orch[o] EXCEPT !.at = "write"]
<1>1. /\ orch[o] \in Controls /\ Local(orch[o]) /\ orch[o].at = "truncate"
      /\ orch' = [orch EXCEPT ![o] = d]
  BY DEF SweepInv, SweepTypeOK, Truncate
<1>2. /\ d \in Controls /\ d.at = "write" /\ d.then = orch[o].then /\ d.run = orch[o].run
      /\ d.pos = orch[o].pos /\ d.bucket = orch[o].bucket /\ d.outcomes = orch[o].outcomes
      /\ d.todo = orch[o].todo
  BY <1>1 DEF Controls, Labels, Writing
<1> HIDE DEF d
<1>3. Local(d)
  BY <1>1, <1>2 DEF Local, Placed, Counted, Sweeping, LabelOf, Writing
<1>4. /\ orch' \in [Orchs -> Controls] /\ orch'[o] = d
      /\ \A u \in Orchs : u # o => orch'[u] = orch[u]
  BY <1>1, <1>2, Replaced DEF SweepInv
<1>5. /\ UNCHANGED <<plan, checkpoint, published, child, stageLog, watcher, faults>> /\ torn' = TRUE
  BY DEF Truncate
<1>6. Local(orch[o])' /\ LogInv'
  BY <1>3, <1>4, <1>5, GrowthOfControls, Growth DEF SweepInv, LogInv
<1> QED BY <1>1, <1>4, <1>5, <1>6, Advance DEF SweepInv, SweepTypeOK, Watchers

(* The checkpoint becomes the process's copy. *)
LEMMA WriteKeeps ==
  ASSUME SweepInv, NEW o \in Orchs, WriteCheckpoint(o)
  PROVE  SweepInv'
<1> DEFINE d == [orch[o] EXCEPT !.at = "publish"]
<1>1. /\ orch[o] \in Controls /\ Local(orch[o]) /\ orch[o].at = "write"
      /\ orch' = [orch EXCEPT ![o] = d]
  BY DEF SweepInv, SweepTypeOK, WriteCheckpoint
<1>2. /\ d \in Controls /\ d.at = "publish" /\ d.then = orch[o].then /\ d.run = orch[o].run
      /\ d.pos = orch[o].pos /\ d.bucket = orch[o].bucket /\ d.outcomes = orch[o].outcomes
      /\ d.todo = orch[o].todo
  BY <1>1 DEF Controls, Labels, Writing
<1> HIDE DEF d
<1>3. Local(d) /\ LabelOf(d) = LabelOf(orch[o])
  BY <1>1, <1>2 DEF Local, Placed, Counted, Sweeping, LabelOf, Writing
<1>4. /\ orch' \in [Orchs -> Controls] /\ orch'[o] = d
      /\ \A u \in Orchs : u # o => orch'[u] = orch[u]
  BY <1>1, <1>2, Replaced DEF SweepInv
<1>5. /\ UNCHANGED <<plan, published, child, stageLog, watcher, faults>>
      /\ checkpoint' = orch[o].run /\ torn' = FALSE
  BY DEF WriteCheckpoint
<1>6. LogInv' /\ \A u \in Orchs : Local(orch[u])'
  <2>1. LogInv'
    BY <1>5, Growth DEF SweepInv, LogInv
  <2>2. Local(orch[o])'
    BY <1>3, <1>4, <1>5, GrowthOfControls
  <2>3. \A u \in Orchs : u # o => Local(orch[u])'
    BY <1>4, <1>5, GrowthOfControls DEF SweepInv
  <2> QED BY <2>1, <2>2, <2>3
<1>7. FileInv'
  <2>1. /\ Sound(orch[o].run)
        /\ orch[o].run.state = "completed" => Covers(orch[o].run)
    BY <1>1, Names DEF Local, Placed, Controls
  <2>2. Sound(checkpoint)' /\ (checkpoint'.state = "completed" => Covers(checkpoint)')
    BY <1>5, <2>1, GrowthOfCopies
  <2> QED BY <2>2 DEF FileInv
<1>8. SweepTypeOK' /\ OrderInv'
  <2>1. orch[o].run \in Runs
    BY <1>1 DEF Controls
  <2>2. SweepTypeOK'
    BY <1>4, <1>5, <2>1, FrozenTypes DEF SweepInv, SweepTypeOK, Views
  <2> QED BY <1>1, <1>4, <1>5, <2>2 DEF SweepInv, OrderInv
<1> QED BY <1>6, <1>7, <1>8 DEF SweepInv

LEMMA PublishKeeps ==
  ASSUME SweepInv, NEW o \in Orchs, Publish(o)
  PROVE  SweepInv'
<1> DEFINE e == [orch[o] EXCEPT !.at = orch[o].then, !.then = "new"]
           d == IF orch[o].then = "dead" THEN Dead ELSE e
<1>1. /\ orch[o] \in Controls /\ Local(orch[o]) /\ orch[o].at = "publish"
      /\ orch' = [orch EXCEPT ![o] = d]
  BY DEF SweepInv, SweepTypeOK, Publish
<1>2. /\ e \in Controls /\ e.at = orch[o].then /\ e.then = "new" /\ e.run = orch[o].run
      /\ e.pos = orch[o].pos /\ e.bucket = orch[o].bucket /\ e.outcomes = orch[o].outcomes
      /\ e.todo = orch[o].todo
  BY <1>1 DEF Controls, Labels, Gone
<1>3. orch[o].then \in {"arm", "signals", "next", "invoke", "bucket", "lock", "finish", "dead"}
  BY <1>1 DEF Local, Placed, Writing
<1> HIDE DEF e
<1>4. Local(e) /\ LabelOf(e) = LabelOf(orch[o])
  BY <1>1, <1>2, <1>3 DEF Local, Placed, Counted, Sweeping, LabelOf, Writing
<1>5. Local(d) /\ d \in Controls
  BY <1>2, <1>4, DeadControl
<1> HIDE DEF d
<1>7. /\ orch' \in [Orchs -> Controls] /\ orch'[o] = d
      /\ \A u \in Orchs : u # o => orch'[u] = orch[u]
  BY <1>1, <1>5, Replaced DEF SweepInv
<1>8. /\ UNCHANGED <<plan, checkpoint, torn, child, stageLog, watcher, faults>>
      /\ published' = [state |-> orch[o].run.state, by |-> o, resumable |-> orch[o].run.resumable]
  BY DEF Publish
<1>9. published' \in Views
  BY <1>1, <1>8 DEF Controls, Runs, Views
<1>10. Local(orch[o])' /\ LogInv'
  BY <1>5, <1>7, <1>8, GrowthOfControls, Growth DEF SweepInv, LogInv
<1> QED BY <1>1, <1>7, <1>8, <1>9, <1>10, Advance DEF SweepInv, SweepTypeOK, Watchers

(* Begin, Arm, Handlers, SkipStage, Complete, Finish: outside the stages.    *)
LEMMA BeginKeeps ==
  ASSUME SweepInv, NEW o \in Orchs, Begin(o)
  PROVE  SweepInv'
<1> DEFINE d == Saving(o, orch[o].run, "arm")
<1>1. orch[o] \in Controls /\ Local(orch[o]) /\ orch[o].at = "start"
  BY DEF SweepInv, SweepTypeOK, Begin
<1>2. /\ d \in Controls /\ d.at = "truncate" /\ d.then = "arm" /\ d.run = orch[o].run
      /\ d.pos = orch[o].pos
  BY <1>1, SavedControl DEF SweepInv, Controls, Labels
<1>3. Local(d)
  <2> HIDE DEF d
  <2> QED BY <1>1, <1>2, Relabelled DEF Sweeping, LabelOf, Writing, Outside
<1> QED BY <1>1, <1>2, <1>3, Steps DEF Begin

LEMMA ArmKeeps ==
  ASSUME SweepInv, NEW o \in Orchs, Arm(o)
  PROVE  SweepInv'
<1> DEFINE e == Saving(o, orch[o].run, "signals")
           f == [orch[o] EXCEPT !.at = "signals"]
<1>1. orch[o] \in Controls /\ Local(orch[o]) /\ orch[o].at = "arm" /\ ~Sweeping(orch[o])
  BY DEF SweepInv, SweepTypeOK, Arm, Sweeping, LabelOf, Writing
<1>2. /\ e \in Controls /\ e.at = "truncate" /\ e.then = "signals" /\ e.run = orch[o].run
      /\ e.pos = orch[o].pos
  BY <1>1, SavedControl DEF SweepInv, Controls, Labels
<1>3. /\ f \in Controls /\ f.at = "signals" /\ f.run = orch[o].run /\ f.pos = orch[o].pos
  BY <1>1 DEF Controls, Labels
<1> HIDE DEF e, f
<1>4. Local(e) /\ Local(f)
  BY <1>1, <1>2, <1>3, Relabelled DEF LabelOf, Writing, Outside
<1>5. /\ UNCHANGED <<plan, checkpoint, torn, published, child, stageLog, faults>>
      /\ watcher' \in Watchers /\ watcher'.count = watcher.count
      /\ orch' = [orch EXCEPT ![o] = e] \/ orch' = [orch EXCEPT ![o] = f]
  BY DEF Arm, e, f, SweepInv, SweepTypeOK, Watchers
<1>6. LogInv' /\ stageLog' \in [Stages -> Final \cup {"planned"}] /\ faults' \in 0..MaxFaults
  BY <1>5, Growth DEF SweepInv, SweepTypeOK, LogInv
<1> QED BY <1>1, <1>2, <1>3, <1>4, <1>5, <1>6, Moves

LEMMA HandlersKeep ==
  ASSUME SweepInv, NEW o \in Orchs, Handlers(o)
  PROVE  SweepInv'
<1> DEFINE d == [orch[o] EXCEPT !.at = IF OnPoolThread /\ o = 1 THEN "stuck" ELSE "next"]
<1>1. orch[o] \in Controls /\ Local(orch[o]) /\ orch[o].at = "signals" /\ ~Sweeping(orch[o])
  BY DEF SweepInv, SweepTypeOK, Handlers, Sweeping, LabelOf, Writing
<1>2. /\ d \in Controls /\ d.at \in {"stuck", "next"} /\ d.run = orch[o].run /\ d.pos = orch[o].pos
  BY <1>1 DEF Controls, Labels, Gone
<1>3. Local(d)
  <2> HIDE DEF d
  <2> QED BY <1>1, <1>2, Relabelled DEF LabelOf, Writing, Outside
<1> QED BY <1>1, <1>2, <1>3, Steps DEF Handlers

LEMMA SkipKeeps ==
  ASSUME SweepInv, NEW o \in Orchs, SkipStage(o)
  PROVE  SweepInv'
<1> DEFINE d == [orch[o] EXCEPT !.pos = @ + 1]
<1>1. /\ orch[o] \in Controls /\ Local(orch[o]) /\ orch[o].at = "next" /\ ~Sweeping(orch[o])
      /\ orch[o].pos \in Nat \ {0} /\ orch[o].pos <= Len(Order)
  BY DEF SweepInv, SweepTypeOK, SkipStage, Sweeping, LabelOf, Writing, Controls
<1>2. /\ d \in Controls /\ d.at = "next" /\ d.run = orch[o].run /\ d.pos = orch[o].pos + 1
  BY <1>1 DEF Controls
<1> HIDE DEF d
<1>3. orch[o].pos = 2 => Covers(orch[o].run)
  <2>1. ASSUME orch[o].pos = 2
        PROVE  "full_sweep" \notin Enabled \/ orch[o].run.status["full_sweep"] \in Done
    BY <2>1, Names DEF SkipStage, Stage
  <2> QED BY <1>1, <2>1 DEF Local, Sound, Covers, Done, Final, Verdicts
<1>4. d.pos > 2 => Covers(d.run)
  BY <1>1, <1>2, <1>3 DEF Local
<1>5. Local(d)
  BY <1>1, <1>2, <1>4, Names DEF Local, Placed, Counted, Sweeping, LabelOf, Writing
<1> QED BY <1>1, <1>2, <1>5, Steps DEF SkipStage, d

LEMMA CompleteKeeps ==
  ASSUME SweepInv, NEW o \in Orchs, Complete(o)
  PROVE  SweepInv'
<1> DEFINE r == [orch[o].run EXCEPT !.state = "completed", !.resumable = FALSE]
           d == Saving(o, r, "dead")
<1>1. /\ orch[o] \in Controls /\ Local(orch[o]) /\ orch[o].at = "next" /\ ~Sweeping(orch[o])
      /\ orch[o].pos > Len(Order)
  BY DEF SweepInv, SweepTypeOK, Complete, Sweeping, LabelOf, Writing
<1>2. /\ r \in Runs /\ r.status = orch[o].run.status /\ r.attempts = orch[o].run.attempts
      /\ r.state = "completed"
  BY <1>1 DEF Controls, Runs
<1> HIDE DEF r
<1>3. /\ d \in Controls /\ d.at = "truncate" /\ d.then = "dead" /\ d.run = r
      /\ d.pos = orch[o].pos
  BY <1>2, SavedControl DEF SweepInv, Labels, Gone
<1> HIDE DEF d
<1>4. Sound(r) /\ Covers(r) /\ ~Between(r)
  <2>1. Sound(orch[o].run) /\ Covers(orch[o].run) /\ ~Between(orch[o].run)
    BY <1>1, Names DEF Local, Controls
  <2> QED BY <1>2, <2>1, OtherStage
<1>5. Local(d)
  BY <1>1, <1>3, <1>4 DEF Local, Placed, Counted, Sweeping, LabelOf, Writing
<1> QED BY <1>1, <1>3, <1>5, Steps DEF Complete, d, r

LEMMA FinishKeeps ==
  ASSUME SweepInv, NEW o \in Orchs, Finish(o)
  PROVE  SweepInv'
<1> DEFINE d == Saving(o, orch[o].run, "dead")
<1>1. orch[o] \in Controls /\ Local(orch[o]) /\ orch[o].at = "finish" /\ ~Sweeping(orch[o])
  BY DEF SweepInv, SweepTypeOK, Finish, Sweeping, LabelOf, Writing
<1>2. /\ d \in Controls /\ d.at = "truncate" /\ d.then = "dead" /\ d.run = orch[o].run
      /\ d.pos = orch[o].pos
  BY <1>1, SavedControl DEF SweepInv, Controls, Labels, Gone
<1>3. Local(d)
  <2> HIDE DEF d
  <2> QED BY <1>1, <1>2, Relabelled DEF Writing, Outside
<1> QED BY <1>1, <1>2, <1>3, Steps DEF Finish

(* A resume takes over the run as the files show it. *)
LEMMA ResumeKeeps ==
  ASSUME SweepInv, ~BetweenBuckets, NEW o \in Orchs, Resume(o)
  PROVE  SweepInv'
<1> DEFINE stored == IF torn THEN Recovered ELSE checkpoint
           stale == ~torn /\ stored.state = "running" /\ ~Alive(stored.by)
           n == Normalised(stored, stale)
           r == [n EXCEPT !.state = "running", !.resumable = FALSE, !.by = o]
           d == Saving(o, r, "arm")
<1>1. /\ orch[o] \in Controls /\ Local(orch[o]) /\ orch[o].at = "load" /\ ~Sweeping(orch[o])
  BY DEF SweepInv, SweepTypeOK, Resume, Sweeping, LabelOf, Writing
<1>3. stored \in Runs /\ Sound(stored) /\ ~Between(stored)
  <2>1. checkpoint \in Runs /\ Sound(checkpoint)
    BY DEF SweepInv, SweepTypeOK, FileInv
  <2>2. ~torn => ~Between(checkpoint)
    BY DEF BetweenBuckets, Between
  <2> QED BY <2>1, <2>2, RecoveredCopy DEF SweepInv
<1>4. stale \in BOOLEAN
  OBVIOUS
<1>5. orch' = [orch EXCEPT ![o] = d]
  BY DEF Resume
<1> HIDE DEF stored, stale
<1>6. n \in Runs /\ Sound(n) /\ ~Between(n)
  BY <1>3, <1>4, NormalisedCopy
<1> HIDE DEF n
<1>7. /\ r \in Runs /\ r.status = n.status /\ r.attempts = n.attempts /\ r.state = "running"
  BY <1>6 DEF Runs
<1> HIDE DEF r
<1>8. Sound(r) /\ ~Between(r)
  BY <1>6, <1>7, OtherStage
<1>9. /\ d \in Controls /\ d.at = "truncate" /\ d.then = "arm" /\ d.run = r
      /\ d.pos = orch[o].pos
  BY <1>7, SavedControl DEF SweepInv, Labels
<1> HIDE DEF d
<1>10. orch[o].pos = 1
  BY <1>1 DEF Local, Placed
<1>11. Local(d)
  BY <1>7, <1>8, <1>9, <1>10 DEF Local, Placed, Counted, Sweeping, LabelOf, Writing
<1> QED BY <1>1, <1>5, <1>9, <1>11, Steps DEF Resume

-----------------------------------------------------------------------------
(* Stages and buckets                                                        *)

LEMMA BucketControl ==
  ASSUME NEW c \in Controls, NEW b \in Nat \ {0}, NEW S \in SUBSET (Final \cup {"running"})
  PROVE  LET d == [c EXCEPT !.bucket = b, !.outcomes = S]
         IN  /\ d \in Controls /\ d.bucket = b /\ d.outcomes = S /\ d.at = c.at /\ d.then = c.then
             /\ d.pos = c.pos /\ d.run = c.run /\ d.todo = c.todo
BY DEF Controls

LEMMA PosControl ==
  ASSUME NEW c \in Controls, NEW p \in Nat \ {0}
  PROVE  LET d == [c EXCEPT !.pos = p]
         IN  /\ d \in Controls /\ d.pos = p /\ d.at = c.at /\ d.then = c.then /\ d.run = c.run
             /\ d.bucket = c.bucket /\ d.outcomes = c.outcomes
BY DEF Controls

LEMMA StatusedAttempt ==
  ASSUME NEW q \in Seq(Attempts), NEW n, NEW v \in Final \cup {"running"}
  PROVE  [q EXCEPT ![n].status = v] \in Seq(Attempts)
<1> DEFINE a == [q[n] EXCEPT !.status = v]
           e == [q EXCEPT ![n] = a]
<1>1. Len(q) \in Nat /\ DOMAIN q = 1..Len(q) /\ DOMAIN e = 1..Len(q)
  OBVIOUS
<1>2. ASSUME NEW i \in 1..Len(q) PROVE e[i] \in Attempts
  <2>1. q[i] \in Attempts
    BY <1>1, <1>2
  <2>2. i = n => a \in Attempts
    BY <2>1 DEF Attempts
  <2> HIDE DEF a
  <2> QED BY <1>1, <2>1, <2>2
<1>3. e \in [1..Len(q) -> Attempts]
  <2> HIDE DEF a
  <2> QED BY <1>1, <1>2
<1> QED BY <1>1, <1>3, SeqDef

LEMMA Working ==
  ASSUME SweepInv, NEW o \in Orchs
  PROVE  /\ orch[o] \in Controls /\ Local(orch[o]) /\ orch[o].run \in Runs
         /\ orch[o].pos \in Nat \ {0} /\ orch[o].bucket \in Nat \ {0}
         /\ orch[o].pos <= 4 => orch[o].run.state # "completed"
<1>1. orch[o] \in Controls /\ Local(orch[o])
  BY DEF SweepInv, SweepTypeOK
<1>2. orch[o].run.state = "completed" => orch[o].pos > 4
  BY <1>1, Names DEF Local, Placed
<1> QED BY <1>1, <1>2 DEF Controls

LEMMA StartStageKeeps ==
  ASSUME SweepInv, NEW o \in Orchs, StartStage(o)
  PROVE  SweepInv'
<1> DEFINE s == Stage(o)
           r == [orch[o].run EXCEPT !.status[s] = "running"]
           next == NewAttempt(s, Len(r.attempts[s]), "running")
           list == Append(r.attempts[s], next)
           q == [r EXCEPT !.attempts[s] = list]
           x == Saving(o, r, "bucket")
           none == {}
           d == [x EXCEPT !.bucket = 1, !.outcomes = none]
           e == Saving(o, q, "invoke")
<1>1. /\ orch[o] \in Controls /\ Local(orch[o]) /\ orch[o].at = "next" /\ ~Sweeping(orch[o])
      /\ orch[o].pos \in 1..4 /\ orch[o].run.state # "completed" /\ orch[o].run \in Runs
  BY Working, Names DEF StartStage, Sweeping, LabelOf, Writing
<1>2. /\ s \in Stages /\ s \in Enabled
      /\ s = "full_sweep" => orch[o].pos = 2
      /\ s # "full_sweep" => orch[o].pos \in {1, 3, 4}
  BY <1>1, Names DEF StartStage, Stage
<1>3. orch' = [orch EXCEPT ![o] = IF s = "full_sweep" THEN d ELSE e]
  BY DEF StartStage
<1>4. ~Between(orch[o].run)
  BY <1>1 DEF LabelOf, Writing, Local
<1> HIDE DEF s
<1>5. /\ r \in Runs /\ r.attempts = orch[o].run.attempts /\ r.state # "completed"
      /\ r.status[s] = "running"
      /\ \A t \in Stages \ {s} : r.status[t] = orch[o].run.status[t]
  BY <1>1, <1>2, StatusedCopy
<1> HIDE DEF r
<1>6. CASE s = "full_sweep"
  <2>1. /\ d \in Controls /\ d.at = "truncate" /\ d.then = "bucket" /\ d.run = r
        /\ d.pos = orch[o].pos /\ d.bucket = 1
    <3>1. /\ x \in Controls /\ x.at = "truncate" /\ x.then = "bucket" /\ x.run = r
          /\ x.pos = orch[o].pos
      BY <1>5, SavedControl DEF SweepInv, Labels
    <3>2. 1 \in Nat \ {0} /\ none \in SUBSET (Final \cup {"running"})
      OBVIOUS
    <3> HIDE DEF x, none
    <3> QED BY <3>1, <3>2, BucketControl DEF Controls
  <2> HIDE DEF d
  <2>2. Sound(r)
    BY <1>1, <1>2, <1>5, <1>6 DEF Local, Sound
  <2>3. Local(d)
    BY <1>2, <1>5, <1>6, <2>1, <2>2, Names
       DEF Local, Placed, Counted, Sweeping, LabelOf, Writing
  <2> QED BY <1>1, <1>3, <1>6, <2>1, <2>3, Steps DEF StartStage
<1>7. CASE s # "full_sweep"
  <2>1. next \in Attempts /\ r.attempts[s] \in Seq(Attempts)
    <3>1. r.attempts[s] \in Seq(Attempts)
      BY <1>2, <1>5 DEF Runs
    <3>2. Len(r.attempts[s]) \in Nat
      BY <3>1
    <3> QED BY <1>2, <3>1, <3>2, NewAttemptType
  <2>2. /\ q \in Runs /\ q.status = r.status /\ q.state = r.state
        /\ q.attempts["full_sweep"] = r.attempts["full_sweep"]
    <3> HIDE DEF next
    <3>1. list \in Seq(Attempts)
      BY <2>1
    <3> HIDE DEF list
    <3> QED BY <1>5, <1>7, <3>1, Names DEF Runs
  <2> HIDE DEF q
  <2>3. /\ Sound(q) /\ ~Between(q)
        /\ Covers(orch[o].run) => Covers(q)
    BY <1>1, <1>4, <1>5, <1>7, <2>2, OtherStage, Names DEF Local
  <2>4. /\ e \in Controls /\ e.at = "truncate" /\ e.then = "invoke" /\ e.run = q
        /\ e.pos = orch[o].pos
    BY <2>2, SavedControl DEF SweepInv, Labels
  <2> HIDE DEF e
  <2>5. Local(e)
    BY <1>1, <1>2, <1>5, <1>7, <2>2, <2>3, <2>4
       DEF Local, Placed, Counted, Sweeping, LabelOf, Writing
  <2> QED BY <1>1, <1>3, <1>4, <1>7, <2>4, <2>5, Steps DEF StartStage
<1> QED BY <1>6, <1>7

LEMMA StageReturnsKeeps ==
  ASSUME SweepInv, NEW o \in Orchs, NEW v \in Results, StageReturns(o, v)
  PROVE  SweepInv'
<1> DEFINE s == Stage(o)
           n == Len(orch[o].run.attempts[s])
           r == [orch[o].run EXCEPT !.status[s] = v]
           list == [r.attempts[s] EXCEPT ![n].status = v]
           q == [r EXCEPT !.attempts[s] = list]
           x == Saving(o, q, "next")
           d == [x EXCEPT !.pos = @ + 1]
<1>1. /\ orch[o] \in Controls /\ Local(orch[o]) /\ orch[o].at = "invoke" /\ ~Sweeping(orch[o])
      /\ orch[o].pos \in {1, 3, 4} /\ orch[o].run.state # "completed" /\ orch[o].run \in Runs
  BY Working, Names DEF StageReturns, Sweeping, LabelOf, Writing, Local, Placed
<1>2. s \in Stages \ {"full_sweep"} /\ v \in Final /\ "full_sweep" \in Stages
  BY <1>1, Names, SweepAssumption DEF Stage, Final, Verdicts
<1>3. ~Between(orch[o].run)
  BY <1>1 DEF LabelOf, Writing, Local
<1>4. orch' = [orch EXCEPT ![o] = d]
  <2>1. q = [orch[o].run EXCEPT !.status[s] = v, !.attempts[s][n].status = v]
    BY <1>1, <1>2 DEF Runs
  <2> QED BY <2>1 DEF StageReturns, Finishing
<1> HIDE DEF s
<1>5. /\ r \in Runs /\ r.attempts = orch[o].run.attempts /\ r.state # "completed"
      /\ r.status["full_sweep"] = orch[o].run.status["full_sweep"]
  BY <1>1, <1>2 DEF Runs
<1> HIDE DEF r
<1>6. /\ q \in Runs /\ q.status = r.status /\ q.state = r.state
      /\ q.attempts["full_sweep"] = r.attempts["full_sweep"]
  <2>1. list \in Seq(Attempts)
    BY <1>2, <1>5, StatusedAttempt DEF Runs
  <2> HIDE DEF list
  <2> QED BY <1>2, <1>5, <2>1 DEF Runs
<1> HIDE DEF q
<1>7. Sound(q) /\ ~Between(q) /\ (Covers(orch[o].run) => Covers(q))
  BY <1>1, <1>3, <1>5, <1>6, OtherStage DEF Local
<1>8. /\ d \in Controls /\ d.at = "truncate" /\ d.then = "next" /\ d.run = q
      /\ d.pos = orch[o].pos + 1
  <2>1. /\ x \in Controls /\ x.at = "truncate" /\ x.then = "next" /\ x.run = q
        /\ x.pos = orch[o].pos
    BY <1>6, SavedControl DEF SweepInv, Labels
  <2>2. orch[o].pos + 1 \in Nat \ {0}
    BY <1>1
  <2> HIDE DEF x
  <2> QED BY <2>1, <2>2, PosControl
<1> HIDE DEF d
<1>9. Local(d)
  BY <1>1, <1>5, <1>6, <1>7, <1>8
     DEF Local, Placed, Counted, Sweeping, LabelOf, Writing
<1>10. /\ UNCHANGED <<plan, checkpoint, torn, published, child, watcher, faults>>
       /\ stageLog' = [stageLog EXCEPT ![s] = v]
  BY DEF StageReturns, s
<1>11. LogInv' /\ stageLog' \in [Stages -> Final \cup {"planned"}]
  BY <1>2, <1>10, Growth DEF SweepInv, SweepTypeOK, LogInv
<1>12. faults' \in 0..MaxFaults /\ watcher' \in Watchers /\ watcher'.count = watcher.count
  BY <1>10 DEF SweepInv, SweepTypeOK, Watchers
<1> QED BY <1>1, <1>3, <1>4, <1>8, <1>9, <1>10, <1>11, <1>12, Moves

LEMMA GreatestPlace ==
  ASSUME NEW n \in Nat, NEW S \in SUBSET (1..n), S # {}
  PROVE  Max(S) \in S
<1> DEFINE T == {n - y : y \in S}
<1>1. T \in SUBSET Nat /\ T # {}
  <2>1. \A y \in S : n - y \in Nat
    OBVIOUS
  <2>2. PICK y \in S : TRUE
    OBVIOUS
  <2> QED BY <2>1, <2>2
<1>2. Min(T) \in T /\ \A t \in T : Min(T) <= t
  <2> HIDE DEF T
  <2> QED BY <1>1, LeastPlace
<1>3. PICK x \in S : Min(T) = n - x
  BY <1>2
<1>4. \A y \in S : x >= y
  <2> TAKE y \in S
  <2>1. n - x <= n - y /\ x \in Nat /\ y \in Nat
    BY <1>2, <1>3
  <2> QED BY <2>1
<1> QED BY <1>4 DEF Max

(* Where a process in the bucket loop is. *)
LEMMA InBucket ==
  ASSUME SweepInv, NEW o \in Orchs, Sweeping(orch[o])
  PROVE  /\ orch[o].pos = 2 /\ "full_sweep" \in Enabled /\ "full_sweep" \in Stages
         /\ Stage(o) = "full_sweep" /\ orch[o].run.state # "completed"
         /\ Sweep(o) \in Seq(Attempts) /\ SoundAttempts(Sweep(o))
         /\ orch[o].bucket <= Len(Buckets) =>
              orch[o].bucket \in {1, 2} /\ Lane(o) \in Range(Buckets) /\ Lane(o) = Buckets[orch[o].bucket]
<1>1. orch[o].pos = 2 /\ "full_sweep" \in Enabled /\ "full_sweep" \in Stages
  BY Working, Names DEF Local, Placed
<1>2. orch[o].run.state # "completed" /\ Stage(o) = "full_sweep"
  BY <1>1, Working, Names DEF Stage
<1>3. Sweep(o) \in Seq(Attempts) /\ SoundAttempts(Sweep(o))
  BY <1>1, Working DEF Sweep, Runs, Local, Sound
<1>4. ASSUME orch[o].bucket <= Len(Buckets)
      PROVE  orch[o].bucket \in {1, 2} /\ Lane(o) \in Range(Buckets) /\ Lane(o) = Buckets[orch[o].bucket]
  BY <1>4, Working, Names DEF Lane
<1> QED BY <1>1, <1>2, <1>3, <1>4

(* One more bucket is accounted for. *)
LEMMA NextBucket ==
  ASSUME SweepInv, NEW o \in Orchs, Sweeping(orch[o]), orch[o].bucket <= Len(Buckets),
         NEW outs \in SUBSET (Final \cup {"running"}), Accounted(Lane(o), orch[o].outcomes \cup outs)
  PROVE  /\ \A k \in DOMAIN Buckets : k < orch[o].bucket + 1 =>
              Accounted(Buckets[k], orch[o].outcomes \cup outs)
         /\ orch[o].outcomes \cup outs \in SUBSET (Final \cup {"running"})
         /\ orch[o].bucket + 1 \in Nat \ {0}
<1>1. \A k \in DOMAIN Buckets : k < orch[o].bucket => Accounted(Buckets[k], orch[o].outcomes)
  BY Working DEF Local, Counted
<1>2. \A b : Accounted(b, orch[o].outcomes) => Accounted(b, orch[o].outcomes \cup outs)
  BY DEF Accounted
<1>3. orch[o].bucket \in {1, 2} /\ Lane(o) = Buckets[orch[o].bucket] /\ DOMAIN Buckets = {1, 2}
  BY InBucket, Names
<1>4. orch[o].outcomes \in SUBSET (Final \cup {"running"})
  BY Working DEF Controls
<1>5. \A k \in DOMAIN Buckets : k < orch[o].bucket + 1 =>
        Accounted(Buckets[k], orch[o].outcomes \cup outs)
  <2> SUFFICES ASSUME NEW k \in DOMAIN Buckets, k < orch[o].bucket + 1
               PROVE  Accounted(Buckets[k], orch[o].outcomes \cup outs)
    OBVIOUS
  <2>1. k < orch[o].bucket \/ k = orch[o].bucket
    BY <1>3
  <2>2. CASE k < orch[o].bucket
    BY <1>1, <1>2, <2>2
  <2>3. CASE k = orch[o].bucket
    BY <1>3, <2>3
  <2> QED BY <2>1, <2>2, <2>3
<1> QED BY <1>3, <1>4, <1>5

LEMMA PassedControl ==
  ASSUME SweepInv, NEW o \in Orchs, orch[o].at = "bucket", orch[o].bucket <= Len(Buckets),
         NEW outs \in SUBSET (Final \cup {"running"}), Accounted(Lane(o), orch[o].outcomes \cup outs),
         NEW d, d = Passed(o, outs)
  PROVE  /\ d \in Controls /\ Local(d) /\ d.at = "bucket" /\ d.run = orch[o].run
         /\ d.pos = orch[o].pos /\ d.bucket = orch[o].bucket + 1
         /\ d.outcomes = orch[o].outcomes \cup outs
<1>1. Sweeping(orch[o])
  BY DEF Sweeping, LabelOf, Writing
<1> DEFINE S == orch[o].outcomes \cup outs
           b == orch[o].bucket + 1
<1>2. /\ S \in SUBSET (Final \cup {"running"}) /\ b \in Nat \ {0}
      /\ \A k \in DOMAIN Buckets : k < b => Accounted(Buckets[k], S)
  BY <1>1, NextBucket
<1>3. d = [orch[o] EXCEPT !.bucket = b, !.outcomes = S]
  BY DEF Passed
<1> HIDE DEF S, b
<1>4. /\ d \in Controls /\ d.bucket = b /\ d.outcomes = S /\ d.at = orch[o].at
      /\ d.pos = orch[o].pos /\ d.run = orch[o].run
  BY <1>2, <1>3, Working DEF Controls
<1>5. Local(d)
  BY <1>1, <1>2, <1>4, Working DEF Local, Placed, Counted, Sweeping, LabelOf, Writing
<1> QED BY <1>4, <1>5 DEF S, b

LEMMA EmptyBucketKeeps ==
  ASSUME SweepInv, NEW o \in Orchs, EmptyBucket(o)
  PROVE  SweepInv'
<1>1. /\ orch[o].at = "bucket" /\ orch[o].bucket <= Len(Buckets)
      /\ orch' = [orch EXCEPT ![o] = Passed(o, {})]
      /\ plan.units[Lane(o)] = <<>>
  BY DEF EmptyBucket
<1>2. Covered(Lane(o))
  BY <1>1 DEF Covered, Range
<1>3. {} \in SUBSET (Final \cup {"running"}) /\ Accounted(Lane(o), orch[o].outcomes \cup {})
  BY <1>2 DEF Accounted
<1>4. Passed(o, {}) \in Controls /\ Local(Passed(o, {}))
  BY <1>1, <1>3, PassedControl
<1> QED BY <1>1, <1>4, Steps DEF EmptyBucket

LEMMA GatedBucketKeeps ==
  ASSUME SweepInv, NEW o \in Orchs, GatedBucket(o)
  PROVE  SweepInv'
<1> DEFINE x == Passed(o, {"partial"})
           skipped == NewAttempt(Lane(o), 0, "skipped")
           list == Append(x.run.attempts["full_sweep"], skipped)
           d == [x EXCEPT !.at = "truncate", !.then = "bucket",
                          !.run.attempts["full_sweep"] = list]
<1>1. /\ orch[o].at = "bucket" /\ orch[o].bucket <= Len(Buckets) /\ Gated(Lane(o))
      /\ orch' = [orch EXCEPT ![o] = IF InLane(Sweep(o), Lane(o)) # {} THEN x ELSE d]
  BY DEF GatedBucket
<1>2. Sweeping(orch[o])
  BY <1>1 DEF Sweeping, LabelOf, Writing
<1>3. {"partial"} \in SUBSET (Final \cup {"running"})
  BY DEF Final, Verdicts
<1>4. Accounted(Lane(o), orch[o].outcomes \cup {"partial"})
  BY <1>1 DEF Accounted
<1>5. /\ x \in Controls /\ Local(x) /\ x.at = "bucket" /\ x.run = orch[o].run
      /\ x.pos = orch[o].pos
  BY <1>1, <1>3, <1>4, PassedControl
<1> HIDE DEF x
<1>6. skipped \in Attempts /\ skipped.done = {}
  BY <1>1, <1>2, InBucket, NewAttemptType DEF Final, NewAttempt
<1> HIDE DEF skipped
<1>7. /\ list \in Seq(Attempts) /\ SoundAttempts(list)
  BY <1>2, <1>5, <1>6, InBucket, AppendedAttempt DEF Sweep
<1> HIDE DEF list
<1> DEFINE r == [x.run EXCEPT !.attempts["full_sweep"] = list]
<1>8. /\ r \in Runs /\ r.status = x.run.status /\ r.state = x.run.state
      /\ r.attempts["full_sweep"] = list
  BY <1>2, <1>5, <1>7, InBucket DEF Controls, Runs
<1>9. d = [x EXCEPT !.at = "truncate", !.then = "bucket", !.run = r]
  OBVIOUS
<1> HIDE DEF r, d
<1>10. /\ d \in Controls /\ d.at = "truncate" /\ d.then = "bucket" /\ d.run = r
       /\ d.pos = x.pos /\ d.bucket = x.bucket /\ d.outcomes = x.outcomes
  <2>1. {"truncate", "bucket"} \subseteq Labels
    BY DEF Labels, Writing
  <2> QED BY <1>5, <1>8, <1>9, <2>1 DEF Controls
<1>11. Local(d)
  <2>1. Sound(r)
    BY <1>5, <1>7, <1>8 DEF Local, Sound
  <2>2. d.pos = 2 /\ r.state # "completed"
    BY <1>2, <1>5, <1>8, <1>10, InBucket
  <2> QED BY <1>5, <1>10, <2>1, <2>2 DEF Local, Placed, Counted, Sweeping, LabelOf, Writing
<1> QED BY <1>1, <1>5, <1>10, <1>11, Steps DEF GatedBucket

(* The units that are left, and what the attempts at a lane have ended.      *)
LEMMA LeftOver ==
  ASSUME SweepInv, NEW o \in Orchs, Sweeping(orch[o]), orch[o].bucket <= Len(Buckets)
  PROVE  /\ Remaining(Sweep(o), Lane(o)) \in Seq(Units)
         /\ \A u \in Range(plan.units[Lane(o)]) :
              Ran(Lane(o), u) \/ u \in Range(Remaining(Sweep(o), Lane(o)))
<1>1. plan \in Plans /\ Lane(o) \in Range(Buckets) /\ Sweep(o) \in Seq(Attempts) /\ SoundAttempts(Sweep(o))
  BY InBucket DEF SweepInv, SweepTypeOK
<1>2. \A i \in InLane(Sweep(o), Lane(o)) : \A u \in Sweep(o)[i].done : Ran(Lane(o), u)
  BY <1>1 DEF InLane, SoundAttempts
<1> QED BY <1>1, <1>2, RemainingUnits

LEMMA EndedBucketKeeps ==
  ASSUME SweepInv, NEW o \in Orchs, EndedBucket(o)
  PROVE  SweepInv'
<1> DEFINE places == InLane(Sweep(o), Lane(o))
           last == Sweep(o)[Max(places)].status
           out == IF last = "skipped" THEN "partial" ELSE last
<1>1. /\ orch[o].at = "bucket" /\ orch[o].bucket <= Len(Buckets)
      /\ plan.units[Lane(o)] # <<>> /\ Remaining(Sweep(o), Lane(o)) = <<>>
      /\ orch' = [orch EXCEPT ![o] = Passed(o, {out})]
  BY DEF EndedBucket
<1>2. Sweeping(orch[o])
  BY <1>1 DEF Sweeping, LabelOf, Writing
<1>3. Covered(Lane(o))
  <2>1. Range(Remaining(Sweep(o), Lane(o))) = {}
    BY <1>1 DEF Range
  <2> QED BY <1>1, <1>2, <2>1, LeftOver DEF Covered
<1>4. Sweep(o) \in Seq(Attempts) /\ Lane(o) \in Range(Buckets) /\ plan \in Plans
  BY <1>1, <1>2, InBucket DEF SweepInv, SweepTypeOK
<1>5. places # {}
  <2>1. PICK u : u \in Range(plan.units[Lane(o)])
    <3>1. plan.units[Lane(o)] \in Seq(Units)
      BY <1>4, PlanTypes
    <3>2. 1 \in DOMAIN plan.units[Lane(o)]
      BY <1>1, <3>1
    <3> QED BY <3>2 DEF Range
  <2>2. u \notin Range(Remaining(Sweep(o), Lane(o)))
    BY <1>1 DEF Range
  <2> QED BY <1>4, <2>1, <2>2, RemainingUnits
<1>6. last \in Final \cup {"running"}
  <2>1. Len(Sweep(o)) \in Nat /\ places \in SUBSET (1..Len(Sweep(o)))
    BY <1>4 DEF InLane
  <2>2. Max(places) \in 1..Len(Sweep(o))
    <3> HIDE DEF places
    <3> QED BY <1>5, <2>1, GreatestPlace
  <2>3. Sweep(o)[Max(places)] \in Attempts
    BY <1>4, <2>2
  <2> QED BY <2>3 DEF Attempts
<1> HIDE DEF last
<1>7. {out} \in SUBSET (Final \cup {"running"})
  BY <1>6 DEF Final, Verdicts
<1> HIDE DEF out
<1>8. Accounted(Lane(o), orch[o].outcomes \cup {out})
  BY <1>3 DEF Accounted
<1>9. Passed(o, {out}) \in Controls /\ Local(Passed(o, {out}))
  BY <1>1, <1>7, <1>8, PassedControl
<1> QED BY <1>1, <1>9, Steps DEF EndedBucket

LEMMA PlacesCounted ==
  ASSUME NEW q \in Seq(Attempts), NEW lane
  PROVE  Cardinality(InLane(q, lane)) \in Nat
<1>1. InLane(q, lane) \subseteq 1..Len(q) /\ Len(q) \in Nat
  BY DEF InLane
<1>2. IsFiniteSet(1..Len(q))
  BY <1>1, FS_Interval
<1> QED BY <1>1, <1>2, FS_Subset, FS_CardinalityType

LEMMA StartBucketKeeps ==
  ASSUME SweepInv, NEW o \in Orchs, StartBucket(o)
  PROVE  SweepInv'
<1> DEFINE left == Remaining(Sweep(o), Lane(o))
           a == NewAttempt(Lane(o), Cardinality(InLane(Sweep(o), Lane(o))), "running")
           list == Append(orch[o].run.attempts["full_sweep"], a)
           r == [orch[o].run EXCEPT !.attempts["full_sweep"] = list]
           x == Saving(o, r, "lock")
           none == {}
           d == [x EXCEPT !.todo = left, !.results = none]
<1>1. /\ orch[o].at = "bucket" /\ orch[o].bucket <= Len(Buckets)
      /\ orch' = [orch EXCEPT ![o] = d]
  BY DEF StartBucket
<1>2. Sweeping(orch[o])
  BY <1>1 DEF Sweeping, LabelOf, Writing
<1>3. a \in Attempts /\ a.done = {}
  <2>1. Cardinality(InLane(Sweep(o), Lane(o))) \in Nat
    BY <1>2, InBucket, PlacesCounted
  <2> QED BY <1>1, <1>2, <2>1, InBucket, NewAttemptType DEF NewAttempt
<1> HIDE DEF a
<1>4. list \in Seq(Attempts) /\ SoundAttempts(list)
  BY <1>2, <1>3, InBucket, AppendedAttempt DEF Sweep
<1> HIDE DEF list
<1>5. /\ r \in Runs /\ r.status = orch[o].run.status /\ r.state = orch[o].run.state
      /\ r.attempts["full_sweep"] = list
  <2>1. orch[o].run \in Runs /\ "full_sweep" \in Stages
    BY <1>2, InBucket, Working
  <2> QED BY <1>4, <2>1 DEF Runs
<1> HIDE DEF r
<1>6. /\ left \in Seq(Units)
      /\ \A u \in Range(plan.units[Lane(o)]) : Ran(Lane(o), u) \/ u \in Range(left)
  BY <1>1, <1>2, LeftOver
<1> HIDE DEF left
<1>7. /\ x \in Controls /\ x.at = "truncate" /\ x.then = "lock" /\ x.run = r
      /\ x.pos = orch[o].pos /\ x.bucket = orch[o].bucket /\ x.outcomes = orch[o].outcomes
  BY <1>5, SavedControl DEF SweepInv, Labels
<1> HIDE DEF x
<1>8. none \in SUBSET Results
  OBVIOUS
<1> HIDE DEF none
<1>9. /\ d \in Controls /\ d.at = "truncate" /\ d.then = "lock" /\ d.run = r
      /\ d.pos = orch[o].pos /\ d.bucket = orch[o].bucket /\ d.outcomes = orch[o].outcomes
      /\ d.todo = left
  BY <1>6, <1>7, <1>8 DEF Controls
<1> HIDE DEF d
<1>10. Sound(r) /\ orch[o].pos = 2 /\ r.state # "completed"
  BY <1>2, <1>4, <1>5, InBucket, Working DEF Local, Sound
<1>11. Counted(d)
  <2>1. \A k \in DOMAIN Buckets : k < d.bucket => Accounted(Buckets[k], d.outcomes)
    BY <1>2, <1>9, Working DEF Local, Counted
  <2>2. Lane(o) = Buckets[d.bucket]
    BY <1>1, <1>2, <1>9, InBucket
  <2>3. ~Gated(Lane(o))
    BY DEF StartBucket
  <2> QED BY <1>6, <1>9, <2>1, <2>2, <2>3 DEF Counted
<1>12. Local(d)
  BY <1>1, <1>2, <1>9, <1>10, <1>11, InBucket DEF Local, Placed, Sweeping, LabelOf, Writing
<1> QED BY <1>1, <1>9, <1>12, Steps DEF StartBucket

(* A child run of the sweep adds an event.                                   *)
LEMMA EventsGrow ==
  ASSUME SweepInv, NEW o \in Orchs, Sweeping(orch[o]), orch[o].at \notin Writing,
         NEW e, child' = child \cup {e},
         orch' \in [Orchs -> Controls], \A u \in Orchs : u # o => orch'[u] = orch[u],
         UNCHANGED <<plan, checkpoint, torn, published, stageLog, watcher, faults>>,
         Local(orch[o])', Sweeping(orch'[o])
  PROVE  SweepInv'
<1>1. child \subseteq child' /\ orch[o].at # "new"
  BY DEF Sweeping, LabelOf
<1>2. LogInv'
  BY <1>1, InBucket, Growth DEF SweepInv, LogInv
<1> QED BY <1>1, <1>2, Advance DEF SweepInv, SweepTypeOK, Watchers

(* What it ended leaves the list of a process in the middle of a bucket.     *)
LEMMA LocalGrowth ==
  ASSUME plan' = plan, child \subseteq child', NEW c, Local(c), LabelOf(c) \in {"lock", "units"},
         NEW d, d.at = "units", d.run = c.run, d.pos = c.pos, d.bucket = c.bucket,
         d.outcomes = c.outcomes,
         \A u \in Range(c.todo) :
           \/ u \in Range(d.todo)
           \/ \E f \in child' : f[1] = Buckets[c.bucket] /\ f[3] = u
  PROVE  Local(d)' /\ Sweeping(d)
<1>1. Local(c)'
  BY GrowthOfControls
<1>2. Sweeping(c) /\ Sweeping(d) /\ LabelOf(d) = "units" /\ d.at \notin {"new", "load"}
  BY DEF Sweeping, LabelOf, Writing
<1>3. d.at \notin Writing
  BY DEF Writing
<1>4. \A u \in Range(c.todo) : u \in Range(d.todo) \/ Ran(Buckets[c.bucket], u)'
  BY DEF Ran
<1>5. Counted(d)'
  BY <1>1, <1>2, <1>4 DEF Local, Counted
<1> QED BY <1>1, <1>2, <1>3, <1>5 DEF Local, Placed

LEMMA StartChildKeeps ==
  ASSUME SweepInv, NEW o \in Orchs, StartChild(o)
  PROVE  SweepInv'
<1> DEFINE d == [orch[o] EXCEPT !.at = "units"]
           e == <<Lane(o), Last(Sweep(o)).index, "run_start">>
<1>1. /\ orch[o].at = "lock" /\ child' = child \cup {e} /\ orch' = [orch EXCEPT ![o] = d]
      /\ UNCHANGED <<plan, checkpoint, torn, published, stageLog, watcher, faults>>
  BY DEF StartChild
<1>2. Sweeping(orch[o]) /\ orch[o].at \notin Writing /\ LabelOf(orch[o]) = "lock"
  BY <1>1 DEF Sweeping, LabelOf, Writing
<1>3. /\ d \in Controls /\ d.at = "units" /\ d.run = orch[o].run
      /\ d.pos = orch[o].pos /\ d.bucket = orch[o].bucket /\ d.outcomes = orch[o].outcomes
      /\ d.todo = orch[o].todo
  BY Working DEF Controls, Labels
<1> HIDE DEF d, e
<1>4. /\ orch' \in [Orchs -> Controls] /\ orch'[o] = d
      /\ \A u \in Orchs : u # o => orch'[u] = orch[u]
  BY <1>1, <1>3, Replaced DEF SweepInv
<1>5. Local(orch[o])' /\ Sweeping(orch'[o])
  BY <1>1, <1>2, <1>3, <1>4, Working, LocalGrowth
<1> QED BY <1>1, <1>2, <1>4, <1>5, EventsGrow

(* The head of a list ended, the tail is left. *)
LEMMA HeadOrTail ==
  ASSUME NEW s \in Seq(Units), s # <<>>
  PROVE  /\ Tail(s) \in Seq(Units)
         /\ \A u \in Range(s) : u = Head(s) \/ u \in Range(Tail(s))
<1>1. /\ Tail(s) \in Seq(Units) /\ Len(s) \in Nat \ {0} /\ Len(Tail(s)) = Len(s) - 1
      /\ DOMAIN s = 1..Len(s) /\ DOMAIN Tail(s) = 1..(Len(s) - 1)
      /\ \A i \in 1..(Len(s) - 1) : Tail(s)[i] = s[i + 1]
      /\ Head(s) = s[1]
  OBVIOUS
<1>2. ASSUME NEW u \in Range(s), u # Head(s) PROVE u \in Range(Tail(s))
  <2>1. PICK i \in 1..Len(s) : u = s[i]
    BY <1>1 DEF Range
  <2>2. i - 1 \in 1..(Len(s) - 1) /\ (i - 1) + 1 = i
    BY <1>1, <1>2, <2>1
  <2>3. Tail(s)[i - 1] = u
    BY <1>1, <2>1, <2>2
  <2> QED BY <1>1, <2>2, <2>3 DEF Range
<1> QED BY <1>1, <1>2

LEMMA EndUnitKeeps ==
  ASSUME SweepInv, NEW o \in Orchs, NEW v \in Results, EndUnit(o, v)
  PROVE  SweepInv'
<1> DEFINE left == Tail(orch[o].todo)
           seen == orch[o].results \cup {v}
           d == [orch[o] EXCEPT !.todo = left, !.results = seen]
           e == <<Lane(o), Last(Sweep(o)).index, Head(orch[o].todo)>>
<1>1. /\ orch[o].at = "units" /\ orch[o].todo # <<>>
      /\ child' = child \cup {e} /\ orch' = [orch EXCEPT ![o] = d]
      /\ UNCHANGED <<plan, checkpoint, torn, published, stageLog, watcher, faults>>
  BY DEF EndUnit
<1>2. Sweeping(orch[o]) /\ orch[o].at \notin Writing /\ LabelOf(orch[o]) = "units"
  BY <1>1 DEF Sweeping, LabelOf, Writing
<1>3. /\ left \in Seq(Units)
      /\ \A u \in Range(orch[o].todo) : u = Head(orch[o].todo) \/ u \in Range(left)
  <2>1. orch[o].todo \in Seq(Units)
    BY Working DEF Controls
  <2> QED BY <1>1, <2>1, HeadOrTail
<1>4. seen \in SUBSET Results
  BY Working DEF Controls
<1>5. e[1] = Buckets[orch[o].bucket] /\ e[3] = Head(orch[o].todo) /\ e \in child'
  BY <1>1 DEF Lane
<1> HIDE DEF left, seen, e
<1>6. /\ d \in Controls /\ d.at = "units" /\ d.run = orch[o].run
      /\ d.pos = orch[o].pos /\ d.bucket = orch[o].bucket /\ d.outcomes = orch[o].outcomes
      /\ d.todo = left
  BY <1>1, <1>3, <1>4, Working DEF Controls
<1> HIDE DEF d
<1>7. /\ orch' \in [Orchs -> Controls] /\ orch'[o] = d
      /\ \A u \in Orchs : u # o => orch'[u] = orch[u]
  BY <1>1, <1>6, Replaced DEF SweepInv
<1>8. Local(orch[o])' /\ Sweeping(orch'[o])
  BY <1>1, <1>2, <1>3, <1>5, <1>6, <1>7, Working, LocalGrowth
<1> QED BY <1>1, <1>2, <1>7, <1>8, EventsGrow

LEMMA BucketReturnsKeeps ==
  ASSUME SweepInv, NEW o \in Orchs, NEW v \in Verdicts, BucketReturns(o, v)
  PROVE  SweepInv'
<1> DEFINE list == orch[o].run.attempts["full_sweep"]
           n == Len(list)
           ended == [list[n] EXCEPT !.status = v, !.done = EndedBy(list[n])]
           new == [list EXCEPT ![n] = ended]
           r == [orch[o].run EXCEPT !.attempts["full_sweep"] = new]
           x == Saving(o, r, "bucket")
           none == {}
           nil == <<>>
           S == orch[o].outcomes \cup {v}
           b == orch[o].bucket + 1
           d == [x EXCEPT !.bucket = @ + 1, !.outcomes = @ \cup {v}, !.results = none, !.todo = nil]
<1>1. /\ orch[o].at = "units" /\ orch' = [orch EXCEPT ![o] = d]
      /\ v = "failed" \/ orch[o].todo = <<>>
  <2>1. r = [orch[o].run EXCEPT !.attempts["full_sweep"][n] = ended]
    OBVIOUS
  <2> QED BY <2>1 DEF BucketReturns, Sweep
<1>2. Sweeping(orch[o]) /\ LabelOf(orch[o]) = "units" /\ orch[o].bucket <= Len(Buckets)
  BY <1>1, Working DEF Sweeping, LabelOf, Writing, Local, Placed
<1>3. Accounted(Lane(o), S)
  <2>1. CASE v = "failed"
    BY <2>1 DEF Accounted
  <2>2. CASE orch[o].todo = <<>>
    <3>1. Range(orch[o].todo) = {}
      BY <2>2 DEF Range
    <3>2. \A u \in Range(plan.units[Buckets[orch[o].bucket]]) : Ran(Buckets[orch[o].bucket], u)
      BY <1>2, <3>1, Working DEF Local, Counted
    <3> QED BY <3>2 DEF Accounted, Covered, Lane
  <2> QED BY <1>1, <2>1, <2>2
<1>4. /\ S \in SUBSET (Final \cup {"running"}) /\ b \in Nat \ {0}
      /\ \A k \in DOMAIN Buckets : k < b => Accounted(Buckets[k], S)
  <2>1. {v} \in SUBSET (Final \cup {"running"})
    BY DEF Final
  <2> QED BY <1>2, <1>3, <2>1, NextBucket
<1>5. new \in Seq(Attempts) /\ SoundAttempts(new)
  <2>1. list \in Seq(Attempts) /\ SoundAttempts(list)
    BY <1>2, InBucket DEF Sweep
  <2> QED BY <2>1, EndedAttempt
<1> HIDE DEF new
<1>6. /\ r \in Runs /\ r.status = orch[o].run.status /\ r.state = orch[o].run.state
      /\ r.attempts["full_sweep"] = new
  <2>1. orch[o].run \in Runs /\ "full_sweep" \in Stages
    BY <1>2, InBucket, Working
  <2> QED BY <1>5, <2>1 DEF Runs
<1> HIDE DEF r
<1>7. /\ x \in Controls /\ x.at = "truncate" /\ x.then = "bucket" /\ x.run = r
      /\ x.pos = orch[o].pos /\ x.bucket = orch[o].bucket /\ x.outcomes = orch[o].outcomes
  BY <1>6, SavedControl DEF SweepInv, Labels
<1> HIDE DEF x
<1>8. d = [x EXCEPT !.bucket = b, !.outcomes = S, !.results = none, !.todo = nil]
  BY <1>7
<1>9. none \in SUBSET Results /\ nil \in Seq(Units)
  OBVIOUS
<1> HIDE DEF none, nil, S, b, d
<1>10. /\ d \in Controls /\ d.at = "truncate" /\ d.then = "bucket" /\ d.run = r
       /\ d.pos = orch[o].pos /\ d.bucket = b /\ d.outcomes = S
  BY <1>4, <1>7, <1>8, <1>9 DEF Controls
<1>11. Sound(r) /\ orch[o].pos = 2 /\ r.state # "completed" /\ "full_sweep" \in Enabled
  BY <1>2, <1>5, <1>6, InBucket, Working DEF Local, Sound
<1>12. Local(d)
  BY <1>4, <1>10, <1>11 DEF Local, Placed, Counted, Sweeping, LabelOf, Writing
<1> QED BY <1>1, <1>10, <1>12, Steps DEF BucketReturns

(* The verdict on the whole sweep. *)
LEMMA FinishFullSweepKeeps ==
  ASSUME SweepInv, NEW o \in Orchs, FinishFullSweep(o)
  PROVE  SweepInv'
<1> DEFINE v == IF orch[o].outcomes = {} THEN "failed" ELSE Worst(orch[o].outcomes)
           r == [orch[o].run EXCEPT !.status["full_sweep"] = v]
           x == Saving(o, r, "next")
           none == {}
           d == [x EXCEPT !.pos = @ + 1, !.outcomes = none]
<1>1. /\ orch[o].at = "bucket" /\ orch[o].bucket > 2 /\ orch' = [orch EXCEPT ![o] = d]
      /\ stageLog' = [stageLog EXCEPT !["full_sweep"] = v]
      /\ UNCHANGED <<plan, checkpoint, torn, published, child, watcher, faults>>
  BY Names DEF FinishFullSweep, Finishing
<1>2. Sweeping(orch[o])
  BY <1>1 DEF Sweeping, LabelOf, Writing
<1>3. v \in {"aborted", "failed", "partial", "succeeded"}
  BY WorstIsFinal
<1>4. \A b \in Range(Buckets) : Accounted(b, orch[o].outcomes)
  <2>1. \A k \in {1, 2} : k < orch[o].bucket => Accounted(Buckets[k], orch[o].outcomes)
    BY <1>2, Working, Names DEF Local, Counted
  <2>2. 1 < orch[o].bucket /\ 2 < orch[o].bucket
    BY <1>1, Working
  <2> QED BY <2>1, <2>2, Names
<1>5. \A b \in Range(Buckets) :
        v \notin {"succeeded", "partial"} \/ Covered(b) \/ (Gated(b) /\ v = "partial")
  <2> SUFFICES ASSUME NEW b \in Range(Buckets), v \in {"succeeded", "partial"}, ~Covered(b)
               PROVE  Gated(b) /\ v = "partial"
    OBVIOUS
  <2>1. v = Worst(orch[o].outcomes)
    OBVIOUS
  <2>2. orch[o].outcomes \cap {"aborted", "failed"} = {} /\ (v = "succeeded" => "partial" \notin orch[o].outcomes)
    BY <2>1, WorstIsFinal
  <2> QED BY <1>4, <2>2 DEF Accounted
<1>6. v = "succeeded" => \A b \in Range(Buckets) : Covered(b)
  BY <1>5
<1> HIDE DEF v
<1>7. /\ r \in Runs /\ r.attempts = orch[o].run.attempts /\ r.state = orch[o].run.state
      /\ r.status["full_sweep"] = v
  <2>1. orch[o].run \in Runs /\ "full_sweep" \in Stages
    BY <1>2, InBucket, Working
  <2> QED BY <1>3, <2>1 DEF Runs, Final, Verdicts
<1> HIDE DEF r
<1>8. Sound(r) /\ Covers(r) /\ ~Between(r)
  BY <1>2, <1>3, <1>5, <1>6, <1>7, InBucket DEF Sound, Covers, Between, Sweep, Final, Verdicts
<1>9. /\ x \in Controls /\ x.at = "truncate" /\ x.then = "next" /\ x.run = r
      /\ x.pos = 2
  BY <1>2, <1>7, InBucket, SavedControl DEF SweepInv, Labels
<1> HIDE DEF x
<1>10. none \in SUBSET (Final \cup {"running"}) /\ x.pos + 1 = 3 /\ 3 \in Nat \ {0}
  BY <1>9
<1> HIDE DEF none
<1>11. /\ d \in Controls /\ d.at = "truncate" /\ d.then = "next" /\ d.run = r /\ d.pos = 3
  BY <1>9, <1>10 DEF Controls
<1> HIDE DEF d
<1>12. Local(d)
  BY <1>2, <1>7, <1>8, <1>11, InBucket DEF Local, Placed, Counted, Sweeping, LabelOf, Writing
<1>13. LogInv' /\ stageLog' \in [Stages -> Final \cup {"planned"}]
  <2>1. "full_sweep" \in Enabled /\ stageLog'["full_sweep"] = v
    BY <1>1, <1>2, InBucket DEF SweepInv, SweepTypeOK
  <2>2. LogInv'
    BY <1>1, <1>6, <2>1, Growth DEF LogInv
  <2> QED BY <1>1, <1>3, <2>2 DEF SweepInv, SweepTypeOK, Final, Verdicts
<1>14. faults' \in 0..MaxFaults /\ watcher' \in Watchers /\ watcher'.count = watcher.count
  BY <1>1 DEF SweepInv, SweepTypeOK, Watchers
<1> QED BY <1>1, <1>11, <1>12, <1>13, <1>14, Moves

-----------------------------------------------------------------------------
(* Faults                                                                    *)

LEMMA AbortKeeps ==
  ASSUME SweepInv, NEW o \in Orchs, Abort(o)
  PROVE  SweepInv'
<1> DEFINE s == Stage(o)
           r == [orch[o].run EXCEPT !.state = "aborted", !.resumable = TRUE]
           list == Settled(orch[o].run.attempts[s])
           q == [r EXCEPT !.status[s] = "aborted", !.attempts[s] = list]
           d == Saving(o, q, "finish")
           e == [orch[o] EXCEPT !.at = "finish", !.run = r]
<1>1. /\ orch[o] \in Controls /\ Local(orch[o]) /\ orch[o].run \in Runs
      /\ orch[o].at # "new"
  BY Working DEF Abort, InStage, Label, Writing
<1>2. /\ UNCHANGED <<plan, checkpoint, torn, published, child, watcher>>
      /\ faults' \in 0..MaxFaults /\ watcher' \in Watchers /\ watcher'.count = watcher.count
  BY SweepAssumption DEF Abort, SweepInv, SweepTypeOK, Watchers
<1>3. /\ r \in Runs /\ r.status = orch[o].run.status /\ r.attempts = orch[o].run.attempts
      /\ r.state = "aborted"
  BY <1>1 DEF Runs
<1>4. InStage(o) => /\ orch' = [orch EXCEPT ![o] = d]
                    /\ stageLog' = [stageLog EXCEPT ![s] = "aborted"]
  <2>1. q = [r EXCEPT !.status[s] = "aborted", !.attempts[s] = Settled(@)]
    BY <1>3
  <2> QED BY <2>1 DEF Abort
<1>5. ~InStage(o) => orch' = [orch EXCEPT ![o] = e] /\ stageLog' = stageLog
  BY DEF Abort
<1> HIDE DEF r
<1>6. CASE InStage(o)
  <2>1. LabelOf(orch[o]) \in {"invoke", "bucket", "lock", "units"}
    BY <1>6 DEF InStage, Label, LabelOf
  <2>2. /\ s \in Stages /\ orch[o].pos \in 1..4 /\ "full_sweep" \in Stages
        /\ s = "full_sweep" => orch[o].pos = 2 /\ "full_sweep" \in Enabled
    BY <1>1, <2>1, Names DEF Local, Placed, Sweeping, Stage
  <2>3. s # "full_sweep" => ~Sweeping(orch[o]) /\ orch[o].pos \in {1, 3, 4}
    BY <1>1, <2>1, Names DEF Local, Placed, Sweeping, Stage
  <2> HIDE DEF s
  <2>4. /\ list \in Seq(Attempts)
        /\ SoundAttempts(orch[o].run.attempts[s]) => SoundAttempts(list)
    <3>1. orch[o].run.attempts[s] \in Seq(Attempts)
      BY <1>1, <2>2 DEF Runs
    <3> QED BY <3>1, SettledAttempts, SettledSound
  <2> HIDE DEF list
  <2>5. /\ q \in Runs /\ q.state = "aborted" /\ q.status[s] = "aborted" /\ q.attempts[s] = list
        /\ s # "full_sweep" =>
             /\ q.status["full_sweep"] = orch[o].run.status["full_sweep"]
             /\ q.attempts["full_sweep"] = orch[o].run.attempts["full_sweep"]
    BY <1>3, <2>2, <2>4 DEF Runs, Final
  <2> HIDE DEF q
  <2>6. Sound(q) /\ ~Between(q) /\ (orch[o].pos > 2 => Covers(q))
    <3>1. CASE s = "full_sweep"
      BY <1>1, <2>2, <2>4, <2>5, <3>1 DEF Local, Sound, Between
    <3>2. CASE s # "full_sweep"
      BY <1>1, <2>3, <2>5, <3>2, OtherStage DEF Local
    <3> QED BY <3>1, <3>2
  <2>7. /\ d \in Controls /\ d.at = "truncate" /\ d.then = "finish" /\ d.run = q
        /\ d.pos = orch[o].pos
    BY <2>5, SavedControl DEF SweepInv, Labels
  <2> HIDE DEF d
  <2>8. Local(d)
    BY <2>5, <2>6, <2>7 DEF Local, Placed, Counted, Sweeping, LabelOf, Writing
  <2>9. LogInv' /\ stageLog' \in [Stages -> Final \cup {"planned"}]
    BY <1>2, <1>4, <1>6, <2>2, Growth DEF SweepInv, SweepTypeOK, LogInv, Final
  <2> QED BY <1>1, <1>2, <1>4, <1>6, <2>7, <2>8, <2>9, Moves
<1>7. CASE ~InStage(o)
  <2>1. LabelOf(orch[o]) \notin {"invoke", "bucket", "lock", "units"}
    BY <1>7 DEF InStage, Label, LabelOf
  <2>2. ~Sweeping(orch[o]) /\ ~Between(orch[o].run)
    BY <1>1, <2>1 DEF Sweeping, Local
  <2>3. /\ e \in Controls /\ e.at = "finish" /\ e.run = r /\ e.pos = orch[o].pos
    BY <1>1, <1>3 DEF Controls, Labels
  <2> HIDE DEF e
  <2>4. Sound(r) /\ ~Between(r) /\ (orch[o].pos > 2 => Covers(r))
    BY <1>1, <1>3, <2>2, OtherStage DEF Local
  <2>5. Local(e)
    BY <1>3, <2>3, <2>4 DEF Local, Placed, Counted, Sweeping, LabelOf, Writing
  <2>6. LogInv' /\ stageLog' \in [Stages -> Final \cup {"planned"}]
    BY <1>2, <1>5, <1>7, Growth DEF SweepInv, SweepTypeOK, LogInv
  <2> QED BY <1>1, <1>2, <1>5, <1>7, <2>3, <2>5, <2>6, Moves
<1> QED BY <1>6, <1>7

LEMMA KillKeeps ==
  ASSUME SweepInv, NEW o \in Orchs, Kill(o)
  PROVE  SweepInv'
<1>1. /\ orch[o].at # "new" /\ orch' = [orch EXCEPT ![o] = Dead]
      /\ UNCHANGED <<plan, checkpoint, torn, published, child, stageLog, watcher>>
  BY DEF Kill, Gone
<1>2. /\ faults' \in 0..MaxFaults /\ watcher' \in Watchers /\ watcher'.count = watcher.count
      /\ stageLog' \in [Stages -> Final \cup {"planned"}] /\ LogInv'
  BY <1>1, SweepAssumption, Growth DEF Kill, SweepInv, SweepTypeOK, Watchers, LogInv
<1> QED BY <1>1, <1>2, DeadControl, Moves

(* The watcher writes nothing but its own state, and starts a new process.   *)
LEMMA WatcherKeeps ==
  ASSUME SweepInv, WatcherStep
  PROVE  SweepInv'
<1>1. UNCHANGED <<plan, checkpoint, torn, published, child, stageLog, faults>>
  BY DEF WatcherStep, WatcherReads, WatcherJudges, WatcherReturns
<1>2. View \in Views /\ Unseen \in Views
  <2>1. 1 \in Orchs
    BY SweepAssumption DEF Orchs
  <2> QED BY <2>1 DEF SweepInv, SweepTypeOK, View, Views, Runs, Unseen
<1>3. watcher \in Watchers
  BY DEF SweepInv, SweepTypeOK, Watchers
<1>4. /\ LogInv' /\ SweepTypeOK
      /\ Sound(checkpoint)' /\ (checkpoint'.state = "completed" => Covers(checkpoint)')
  BY <1>1, Growth, GrowthOfCopies DEF SweepInv, LogInv, FileInv
<1>5. ASSUME orch' = orch, watcher' \in Watchers, watcher'.count = watcher.count
      PROVE  SweepInv'
  <2>1. SweepTypeOK' /\ OrderInv'
    BY <1>1, <1>4, <1>5, FrozenTypes DEF SweepTypeOK, SweepInv, OrderInv, Watchers, Views
  <2>2. \A o \in Orchs : Local(orch[o])'
    BY <1>1, <1>5, GrowthOfControls DEF SweepInv
  <2>3. FileInv'
    BY <1>4 DEF FileInv
  <2> QED BY <1>4, <2>1, <2>2, <2>3 DEF SweepInv
<1>6. CASE WatcherReads
  BY <1>2, <1>3, <1>5, <1>6 DEF WatcherReads, Watchers
<1>7. CASE WatcherReturns
  BY <1>3, <1>5, <1>7 DEF WatcherReturns, Watchers
<1>8. CASE WatcherJudges /\ ~(Offered(watcher.seen) /\ watcher.count < MaxResumes)
  BY <1>2, <1>3, <1>5, <1>8 DEF WatcherJudges, Watchers
<1>9. CASE WatcherJudges /\ Offered(watcher.seen) /\ watcher.count < MaxResumes
  <2> DEFINE n == watcher.count + 2
             d == [orch[n] EXCEPT !.at = "load"]
  <2>1. /\ orch' = [orch EXCEPT ![n] = d]
        /\ watcher' = [watcher EXCEPT !.at = "wait", !.count = @ + 1, !.seen = Unseen]
    BY <1>9 DEF WatcherJudges
  <2>2. /\ watcher' \in Watchers /\ watcher'.count = watcher.count + 1 /\ n \in Orchs
        /\ watcher.count \in Nat
    <3>1. watcher.count \in 0..MaxResumes /\ MaxResumes \in Nat /\ watcher.count < MaxResumes
      BY <1>3, <1>9, SweepAssumption DEF Watchers
    <3>2. watcher.count + 1 \in 0..MaxResumes /\ n \in Orchs /\ watcher.count \in Nat
      BY <3>1 DEF Orchs
    <3>3. watcher' \in Watchers /\ watcher'.count = watcher.count + 1
      BY <1>2, <1>3, <2>1, <3>2 DEF Watchers
    <3> QED BY <3>2, <3>3
  <2>3. orch[n].at = "new" /\ orch[n] \in Controls /\ Local(orch[n])
    BY <2>2 DEF SweepInv, OrderInv, SweepTypeOK
  <2>4. /\ d \in Controls /\ d.at = "load" /\ d.run = orch[n].run /\ d.pos = orch[n].pos
    BY <2>3 DEF Controls, Labels
  <2> HIDE DEF d
  <2>5. Local(d)
    BY <2>3, <2>4 DEF Local, Placed, Counted, Sweeping, LabelOf, Writing
  <2> HIDE DEF n
  <2>6. /\ orch' \in [Orchs -> Controls] /\ orch'[n] = d
        /\ \A u \in Orchs : u # n => orch'[u] = orch[u]
    BY <1>4, <2>1, <2>2, <2>4, Replaced
  <2>7. \A o \in Orchs : Local(orch[o])'
    <3> TAKE o \in Orchs
    <3>1. Local(orch'[o])
      BY <2>5, <2>6 DEF SweepInv
    <3> QED BY <1>1, <3>1, GrowthOfControls
  <2>8. SweepTypeOK'
    BY <1>1, <1>4, <2>2, <2>6, FrozenTypes DEF SweepTypeOK, Watchers, Views
  <2>9. OrderInv'
    BY <2>2, <2>6 DEF SweepInv, OrderInv, n, Orchs
  <2>10. FileInv'
    BY <1>4 DEF FileInv
  <2> QED BY <1>4, <2>7, <2>8, <2>9, <2>10 DEF SweepInv
<1> QED BY <1>6, <1>7, <1>8, <1>9 DEF WatcherStep

-----------------------------------------------------------------------------
(* A process that has not gone before the next one starts                    *)

Inner == {"signals", "next", "invoke", "bucket", "lock", "units"}

(* Inside the run, its state stays as it is or becomes completed.            *)
Onward(c, d) ==
  /\ \/ /\ d.run.state = c.run.state
        /\ d.at \in Inner \cup {"stuck"} \/ (d.at = "truncate" /\ d.then \in Inner)
     \/ d.run.state = "completed" /\ d.at = "truncate" /\ d.then = "dead"
  /\ Sweeping(c) => Open(d)

LEMMA OnwardSteps ==
  ASSUME SweepInv, NEW o \in Orchs,
         \/ SkipStage(o) \/ StartStage(o) \/ (\E v \in Results : StageReturns(o, v))
         \/ EmptyBucket(o) \/ GatedBucket(o) \/ EndedBucket(o) \/ StartBucket(o)
         \/ StartChild(o) \/ (\E v \in Results : EndUnit(o, v))
         \/ (\E v \in Verdicts : BucketReturns(o, v)) \/ FinishFullSweep(o)
         \/ Complete(o) \/ Arm(o) \/ Handlers(o)
  PROVE  /\ orch[o].at \in Inner \cup {"arm"} /\ UNCHANGED <<checkpoint, torn, published>>
         /\ \A u \in Orchs : u # o => orch'[u] = orch[u]
         /\ Onward(orch[o], orch'[o])
<1>1. orch[o] \in Controls /\ orch[o].run \in Runs /\ orch \in [Orchs -> Controls]
  BY Working DEF SweepInv, SweepTypeOK
<1>2. /\ orch[o].at \in Inner \cup {"arm"} /\ UNCHANGED <<checkpoint, torn, published>>
      /\ \A u \in Orchs : u # o => orch'[u] = orch[u]
  BY <1>1 DEF SkipStage, StartStage, StageReturns, EmptyBucket, GatedBucket, EndedBucket, StartBucket,
         StartChild, EndUnit, BucketReturns, FinishFullSweep, Complete, Arm, Handlers, Inner
<1>3. SUFFICES Onward(orch[o], orch'[o])
  BY <1>2
<1>4. CASE SkipStage(o) \/ StartChild(o) \/ Handlers(o)
  <2>1. /\ orch'[o].at \in {"next", "units", "stuck"} /\ orch'[o].run = orch[o].run
        /\ orch[o].at \in {"next", "signals"} \/ orch'[o].at = "units"
    BY <1>1, <1>4 DEF SkipStage, StartChild, Handlers, Controls
  <2> QED BY <2>1 DEF Onward, Inner, Sweeping, LabelOf, Writing, Open
<1>5. CASE \E v \in Results : EndUnit(o, v)
  <2>1. PICK v \in Results : EndUnit(o, v)
    BY <1>5
  <2> DEFINE left == Tail(orch[o].todo)
             seen == orch[o].results \cup {v}
  <2>2. orch' = [orch EXCEPT ![o] = [orch[o] EXCEPT !.todo = left, !.results = seen]]
    BY <2>1 DEF EndUnit
  <2>3. orch[o].at = "units"
    BY <2>1 DEF EndUnit
  <2> HIDE DEF left, seen
  <2>4. orch'[o].at = "units" /\ orch'[o].run = orch[o].run
    BY <1>1, <2>2, <2>3 DEF Controls
  <2> QED BY <2>4 DEF Onward, Inner, Sweeping, LabelOf, Writing, Open
<1>6. CASE EmptyBucket(o) \/ EndedBucket(o)
  <2>1. PICK outs : orch' = [orch EXCEPT ![o] = Passed(o, outs)]
    BY <1>6 DEF EmptyBucket, EndedBucket
  <2>2. orch[o].at = "bucket"
    BY <1>6 DEF EmptyBucket, EndedBucket
  <2>3. orch'[o].at = "bucket" /\ orch'[o].run = orch[o].run
    BY <1>1, <2>1, <2>2 DEF Passed, Controls
  <2> QED BY <2>3 DEF Onward, Inner, Sweeping, LabelOf, Writing, Open
<1>7. CASE GatedBucket(o)
  BY <1>1, <1>2, <1>7 DEF GatedBucket, Passed, Sweeping, LabelOf, Writing, Open, Onward, Inner, Controls, Runs
<1>8. CASE Arm(o)
  <2>1. CASE orch' = [orch EXCEPT ![o] = Saving(o, orch[o].run, "signals")]
    <3>1. orch'[o].at = "truncate" /\ orch'[o].then = "signals" /\ orch'[o].run = orch[o].run
      BY <1>1, <2>1 DEF Saving, Controls
    <3> QED BY <3>1 DEF Onward, Inner, Sweeping, LabelOf, Writing, Open
  <2>2. CASE orch' = [orch EXCEPT ![o].at = "signals"]
    <3>1. orch'[o].at = "signals" /\ orch'[o].run = orch[o].run /\ orch[o].at = "arm"
      BY <1>1, <1>8, <2>2 DEF Controls, Arm
    <3> QED BY <3>1 DEF Onward, Inner, Sweeping, LabelOf, Writing, Open
  <2> QED BY <1>8, <2>1, <2>2 DEF Arm
<1>9. CASE Complete(o)
  <2>1. /\ orch'[o].at = "truncate" /\ orch'[o].then = "dead" /\ orch'[o].run.state = "completed"
    BY <1>1, <1>9 DEF Complete, Saving, Controls, Runs
  <2> QED BY <2>1 DEF Onward, Sweeping, LabelOf, Writing, Open
<1>10. CASE StartStage(o)
  BY <1>1, <1>2, <1>10 DEF StartStage, Saving, Sweeping, LabelOf, Writing, Open, Onward, Inner, Controls, Runs
<1>11. CASE \E v \in Results : StageReturns(o, v)
  <2>1. PICK v \in Results : StageReturns(o, v)
    BY <1>11
  <2> DEFINE s == Stage(o)
             n == Len(orch[o].run.attempts[s])
             r == [orch[o].run EXCEPT !.status[s] = v, !.attempts[s][n].status = v]
             x == Saving(o, r, "next")
             d == [x EXCEPT !.pos = @ + 1]
  <2>2. orch' = [orch EXCEPT ![o] = d]
    BY <2>1 DEF StageReturns, Finishing
  <2>3. r.state = orch[o].run.state
    BY <1>1 DEF Runs
  <2> HIDE DEF r
  <2>4. x.at = "truncate" /\ x.then = "next" /\ x.run = r
    BY <1>1 DEF Saving, Controls
  <2>5. d.at = x.at /\ d.then = x.then /\ d.run = x.run
    BY <1>1 DEF Saving, Controls
  <2> HIDE DEF d, x
  <2>6. orch'[o] = d
    BY <1>1, <2>2
  <2> QED BY <2>3, <2>4, <2>5, <2>6 DEF Onward, Inner, Sweeping, LabelOf, Writing, Open
<1>12. CASE StartBucket(o)
  BY <1>1, <1>2, <1>12 DEF StartBucket, Saving, Sweeping, LabelOf, Writing, Open, Onward, Inner, Controls, Runs
<1>13. CASE \E v \in Verdicts : BucketReturns(o, v)
  <2>1. PICK v \in Verdicts : BucketReturns(o, v)
    BY <1>13
  <2> DEFINE n == Len(Sweep(o))
             ended == [Sweep(o)[n] EXCEPT !.status = v, !.done = EndedBy(Sweep(o)[n])]
             r == [orch[o].run EXCEPT !.attempts["full_sweep"][n] = ended]
             x == Saving(o, r, "bucket")
             none == {}
             nil == <<>>
             d == [x EXCEPT !.bucket = @ + 1, !.outcomes = @ \cup {v}, !.results = none, !.todo = nil]
  <2>2. orch' = [orch EXCEPT ![o] = d]
    BY <2>1 DEF BucketReturns
  <2>3. r.state = orch[o].run.state
    BY <1>1 DEF Runs
  <2> HIDE DEF r, none, nil
  <2>4. x.at = "truncate" /\ x.then = "bucket" /\ x.run = r
    BY <1>1 DEF Saving, Controls
  <2>5. d.at = x.at /\ d.then = x.then /\ d.run = x.run
    BY <1>1 DEF Saving, Controls
  <2> HIDE DEF d, x
  <2>6. orch'[o] = d
    BY <1>1, <2>2
  <2> QED BY <2>3, <2>4, <2>5, <2>6 DEF Onward, Inner, Sweeping, LabelOf, Writing, Open
<1>14. CASE FinishFullSweep(o)
  BY <1>1, <1>2, <1>14 DEF FinishFullSweep, Finishing, Saving, Sweeping, LabelOf, Writing, Open, Onward, Inner, Controls, Runs
<1> QED BY <1>4, <1>5, <1>6, <1>7, <1>8, <1>9, <1>10, <1>11, <1>12, <1>13, <1>14

(* An exception takes a process to its last writes.                          *)
LEMMA AbortedControl ==
  ASSUME SweepInv, NEW o \in Orchs, Abort(o)
  PROVE  /\ orch'[o].at \in {"truncate", "finish"}
         /\ orch'[o].at = "truncate" => orch'[o].then = "finish"
         /\ orch'[o].run.state = "aborted" /\ orch'[o].run.resumable = TRUE
         /\ orch[o].at \notin {"new", "dead"}
         /\ UNCHANGED <<checkpoint, torn, published>>
         /\ \A u \in Orchs : u # o => orch'[u] = orch[u]
<1> DEFINE s == Stage(o)
           r == [orch[o].run EXCEPT !.state = "aborted", !.resumable = TRUE]
           list == Settled(r.attempts[s])
           q == [r EXCEPT !.status[s] = "aborted", !.attempts[s] = list]
           d == IF InStage(o) THEN Saving(o, q, "finish")
                ELSE [orch[o] EXCEPT !.at = "finish", !.run = r]
<1>1. orch[o] \in Controls /\ orch[o].run \in Runs /\ orch \in [Orchs -> Controls]
  BY Working DEF SweepInv, SweepTypeOK
<1>2. orch' = [orch EXCEPT ![o] = d] /\ UNCHANGED <<checkpoint, torn, published>>
  BY DEF Abort
<1>3. /\ r.state = "aborted" /\ r.resumable = TRUE
      /\ q.state = "aborted" /\ q.resumable = TRUE
  <2>1. DOMAIN orch[o].run = {"state", "resumable", "by", "status", "attempts"}
    BY <1>1 DEF Runs
  <2>2. r.state = "aborted" /\ r.resumable = TRUE /\ DOMAIN r = DOMAIN orch[o].run
    BY <2>1
  <2> HIDE DEF r, list, s
  <2> QED BY <2>1, <2>2
<1> HIDE DEF r, q
<1>4. d.at \in {"truncate", "finish"} /\ (d.at = "truncate" => d.then = "finish") /\ d.run \in {r, q}
  BY <1>1 DEF Saving, Controls
<1> HIDE DEF d
<1>5. orch'[o] = d /\ \A u \in Orchs : u # o => orch'[u] = orch[u]
  BY <1>1, <1>2
<1>6. orch[o].at \notin {"new", "dead"}
  BY DEF Abort, InStage, Label, Writing
<1> QED BY <1>2, <1>3, <1>4, <1>5, <1>6

(* What one step does to a process, the write of the checkpoint and a kill   *)
(* left aside: an aborted process stays on its way out, and one that is      *)
(* about to replace the checkpoint stays so.                                 *)
Stays(c, d) ==
  /\ Parting(c) => Parting(d)
  /\ Leaving(c) => Leaving(d)
  /\ Open(c) => Open(d)
  /\ d.at \notin {"new", "load", "publish"}

LEMMA OnwardStays ==
  ASSUME NEW c, NEW d, c.at \in Inner \cup {"arm"}, Onward(c, d)
  PROVE  Stays(c, d)
<1>1. LabelOf(c) = c.at /\ c.at \notin Writing \cup {"finish", "dead"}
  BY DEF LabelOf, Writing, Inner
<1>2. /\ d.at \in Inner \cup {"stuck", "truncate"}
      /\ d.run.state = "completed" \/ d.run.state = c.run.state
  BY DEF Onward
<1>3. Parting(c) => Parting(d)
  BY <1>1, <1>2 DEF Parting
<1>4. ~Leaving(c)
  BY <1>1 DEF Leaving
<1>5. Open(c) => Open(d)
  BY <1>1 DEF Open, Onward, Writing
<1>6. d.at \notin {"new", "load", "publish"}
  BY <1>2 DEF Inner
<1> QED BY <1>3, <1>4, <1>5, <1>6 DEF Stays

(* Writing, beginning, resuming, aborting and leaving.                       *)
LEMMA OtherStays ==
  ASSUME SweepInv, NEW o \in Orchs,
         Truncate(o) \/ Publish(o) \/ Begin(o) \/ Resume(o) \/ Finish(o) \/ Abort(o)
  PROVE  /\ Stays(orch[o], orch'[o]) /\ orch[o].at \notin {"new", "dead"}
         /\ \A u \in Orchs : u # o => orch'[u] = orch[u]
<1> DEFINE c == orch[o]
           d == orch'[o]
<1>1. c \in Controls /\ orch \in [Orchs -> Controls] /\ c.run \in Runs /\ Placed(c)
  BY Working DEF SweepInv, SweepTypeOK, Local
<1>2. CASE Truncate(o)
  <2>1. /\ c.at = "truncate" /\ d.at = "write" /\ d.then = c.then /\ d.run = c.run
        /\ \A u \in Orchs : u # o => orch'[u] = orch[u]
    BY <1>1, <1>2 DEF Truncate, Controls
  <2> HIDE DEF c, d
  <2> QED BY <2>1 DEF Stays, Parting, Leaving, Open, LabelOf, Writing, c, d
<1>3. CASE Publish(o)
  <2>1. /\ c.at = "publish"
        /\ c.then \in {"arm", "signals", "next", "invoke", "bucket", "lock", "finish", "dead"}
        /\ \A u \in Orchs : u # o => orch'[u] = orch[u]
    BY <1>1, <1>3 DEF Publish, Placed, Writing
  <2>2. CASE c.then = "dead"
    <3>1. d = Dead
      BY <1>1, <1>3, <2>2 DEF Publish
    <3> QED BY <2>1, <2>2, <3>1, DeadControl DEF Stays, Parting, Leaving, Open, Sweeping, LabelOf, Writing
  <2>3. CASE c.then # "dead"
    <3>1. d.at = c.then /\ d.run = c.run
      BY <1>1, <1>3, <2>3 DEF Publish, Controls
    <3>2. d.at \notin Writing
      BY <2>1, <3>1 DEF Writing
    <3>3. LabelOf(c) = c.then /\ LabelOf(d) = c.then
      BY <2>1, <3>1, <3>2 DEF LabelOf, Writing
    <3>4. /\ Parting(c) => Parting(d)
          /\ Leaving(c) => Leaving(d)
      BY <2>1, <3>1, <3>3 DEF Parting, Leaving
    <3>5. Open(c) => Open(d)
      BY <2>1, <3>3 DEF Open, Sweeping
    <3>6. d.at \notin {"new", "load", "publish"}
      BY <2>1, <3>1
    <3> QED BY <2>1, <3>4, <3>5, <3>6 DEF Stays
  <2> QED BY <2>2, <2>3
<1>4. CASE Begin(o)
  <2>1. /\ c.at = "start" /\ d.at = "truncate" /\ d.then = "arm" /\ d.run = c.run
        /\ \A u \in Orchs : u # o => orch'[u] = orch[u]
    BY <1>1, <1>4 DEF Begin, Saving, Controls
  <2> QED BY <2>1 DEF Stays, Parting, Leaving, Open, LabelOf, Writing
<1>5. CASE Resume(o)
  <2> DEFINE stored == IF torn THEN Recovered ELSE checkpoint
             n == Normalised(stored, ~torn /\ stored.state = "running" /\ ~Alive(stored.by))
             r == [n EXCEPT !.state = "running", !.resumable = FALSE, !.by = o]
  <2>1. /\ c.at = "load" /\ orch' = [orch EXCEPT ![o] = Saving(o, r, "arm")]
    BY <1>5 DEF Resume
  <2>2. r.state = "running"
    <3>1. stored \in Runs
      BY RecoveredCopy DEF SweepInv, SweepTypeOK
    <3> HIDE DEF stored
    <3>2. DOMAIN n = DOMAIN stored /\ "state" \in DOMAIN stored
      BY <3>1 DEF Normalised, Runs
    <3> HIDE DEF n
    <3>3. DOMAIN [n EXCEPT !.state = "running"] = DOMAIN n /\ [n EXCEPT !.state = "running"].state = "running"
      BY <3>2
    <3> QED BY <3>2, <3>3
  <2> HIDE DEF r
  <2>3. /\ d.at = "truncate" /\ d.then = "arm" /\ d.run = r
        /\ \A u \in Orchs : u # o => orch'[u] = orch[u]
    BY <1>1, <2>1 DEF Saving, Controls
  <2> QED BY <2>1, <2>2, <2>3 DEF Stays, Parting, Leaving, Open, LabelOf, Writing
<1>6. CASE Finish(o)
  <2>1. /\ c.at = "finish" /\ d.at = "truncate" /\ d.then = "dead" /\ d.run = c.run
        /\ \A u \in Orchs : u # o => orch'[u] = orch[u]
    BY <1>1, <1>6 DEF Finish, Saving, Controls
  <2> QED BY <2>1 DEF Stays, Parting, Leaving, Open, LabelOf, Writing
<1>7. CASE Abort(o)
  <2>1. /\ d.at \in {"truncate", "finish"} /\ (d.at = "truncate" => d.then = "finish")
        /\ d.run.state = "aborted" /\ c.at \notin {"new", "dead"}
        /\ \A u \in Orchs : u # o => orch'[u] = orch[u]
    BY <1>7, AbortedControl
  <2> QED BY <2>1 DEF Stays, Parting, Leaving, Open, LabelOf, Writing
<1> QED BY <1>2, <1>3, <1>4, <1>5, <1>6, <1>7

(* A process's step that writes no checkpoint.                               *)
LEMMA OverlapKept ==
  ASSUME SweepInv, OverlapInv, NEW o \in Orchs, Stays(orch[o], orch'[o]),
         orch[o].at \notin {"new", "dead"}, \A u \in Orchs : u # o => orch'[u] = orch[u],
         checkpoint' = checkpoint, torn' = torn \/ torn' = TRUE,
         published' = published \/ Publish(o), watcher' = watcher \/ Arm(o)
  PROVE  OverlapInv'
<1>1. FirstInv /\ TurnInv /\ (~Resumed => AloneInv) /\ (Resumed => OvertakenInv)
  BY DEF OverlapInv
<1>2. 1 \in Orchs /\ Resumes \subseteq Orchs /\ 1 \notin Resumes
  BY SweepAssumption DEF Orchs, Resumes
<1>3. /\ Parting(orch[o]) => Parting(orch'[o])
      /\ Leaving(orch[o]) => Leaving(orch'[o])
      /\ Open(orch[o]) => Open(orch'[o])
      /\ orch'[o].at \notin {"new", "load", "publish"}
  BY DEF Stays
<1>4. Resumed' <=> Resumed
  BY <1>2, <1>3 DEF Resumed, Resumes, Orchs
<1>5. BetweenBuckets' => BetweenBuckets
  BY DEF BetweenBuckets
<1>6. FirstInv'
  <2>1. CASE o = 1
    BY <1>1, <1>3, <2>1 DEF FirstInv, Parting, LabelOf
  <2>2. CASE o # 1
    BY <1>1, <1>2, <2>2 DEF FirstInv, Parting, LabelOf
  <2> QED BY <2>1, <2>2
<1>7. watcher'.seen = watcher.seen
  BY DEF SweepInv, SweepTypeOK, Arm
<1>8. TurnInv'
  <2> SUFFICES ASSUME NEW p \in Resumes
               PROVE  \/ watcher'.at = "wait" /\ p = watcher'.count + 1
                      \/ orch'[p].at \in {"new", "dead"}
    BY DEF TurnInv, Resumes, Orchs
  <2>1. p \in Orchs /\ p # 1
    BY DEF Resumes
  <2>2. CASE watcher' = watcher
    BY <1>1, <2>1, <2>2 DEF TurnInv
  <2>3. CASE watcher' # watcher
    <3>1. Arm(o)
      BY <2>3
    <3>2. o = 1 /\ orch[1].at = "arm"
      BY <2>3, <3>1 DEF Arm
    <3>3. ~Leaving(orch[1])
      BY <3>2 DEF Leaving, LabelOf, Writing
    <3>4. orch[p].at = "new"
      BY <1>1, <3>3 DEF OvertakenInv, Resumed
    <3> QED BY <2>1, <3>2, <3>4
  <2> QED BY <2>2, <2>3
<1>9. ASSUME ~Resumed PROVE AloneInv'
  <2>1. AloneInv
    BY <1>1, <1>9
  <2>2. o = 1
    <3>1. o \notin Resumes
      BY <1>9 DEF Resumed
    <3> QED BY <3>1 DEF Resumes
  <2>3. BetweenBuckets' => Open(orch'[1])
    BY <1>3, <1>5, <2>1, <2>2 DEF AloneInv
  <2>4. CASE published' = published
    <3>1. /\ published'.by = 1 /\ watcher'.seen.by = 1 /\ orch'[1].at # "publish"
          /\ watcher'.seen.state = "aborted" => published'.state = "aborted"
      BY <1>3, <1>7, <2>1, <2>2, <2>4 DEF AloneInv
    <3>2. published'.state = "aborted" => Leaving(orch'[1]) /\ ~BetweenBuckets'
      BY <1>3, <1>5, <2>1, <2>2, <2>4 DEF AloneInv
    <3> QED BY <2>3, <3>1, <3>2 DEF AloneInv, Open, Leaving, Sweeping, LabelOf
  <2>5. CASE Publish(o)
    <3>1. /\ orch[1].at = "publish" /\ published'.by = 1 /\ published'.state = orch[1].run.state
      BY <2>2, <2>5 DEF Publish
    <3>2. checkpoint = orch[1].run
      BY <2>1, <3>1 DEF AloneInv
    <3>3. published.state = "aborted" => orch[1].run.state = "aborted"
      BY <2>1, <3>1 DEF AloneInv, Leaving
    <3>4. orch[1].run.state = "aborted" => LabelOf(orch[1]) \in {"finish", "dead"}
      BY <1>1 DEF FirstInv, Parting
    <3>5. orch[1].run.state = "aborted" => Leaving(orch'[1]) /\ ~BetweenBuckets'
      <4>1. SUFFICES ASSUME orch[1].run.state = "aborted" PROVE Leaving(orch[1]) /\ ~BetweenBuckets
        BY <1>3, <1>5, <2>2
      <4>2. ~Between(orch[1].run)
        BY <1>2, <3>4, <4>1 DEF SweepInv, Local, Sweeping
      <4> QED BY <3>2, <3>4, <4>1, <4>2 DEF Leaving, BetweenBuckets, Between
    <3>6. /\ watcher'.seen.by = 1
          /\ watcher'.seen.state = "aborted" => published'.state = "aborted"
      BY <1>7, <2>1, <3>1, <3>3 DEF AloneInv
    <3> QED BY <1>3, <2>2, <2>3, <3>1, <3>5, <3>6 DEF AloneInv, Open, Leaving, Sweeping, LabelOf
  <2> QED BY <2>4, <2>5
<1>10. ASSUME Resumed PROVE OvertakenInv'
  <2>1. Leaving(orch[1]) /\ (BetweenBuckets => \E p \in Resumes : Open(orch[p]))
    BY <1>1, <1>10 DEF OvertakenInv
  <2>2. Leaving(orch'[1])
    BY <1>2, <1>3, <2>1
  <2>3. BetweenBuckets' => \E p \in Resumes : Open(orch'[p])
    <3> SUFFICES ASSUME BetweenBuckets' PROVE \E p \in Resumes : Open(orch'[p])
      OBVIOUS
    <3>1. PICK p \in Resumes : Open(orch[p])
      BY <1>5, <2>1
    <3>2. Open(orch'[p])
      BY <1>2, <1>3, <3>1
    <3> QED BY <3>2
  <2>4. Resumes' = Resumes
    BY DEF Resumes, Orchs
  <2> QED BY <2>2, <2>3, <2>4 DEF OvertakenInv, Open, Leaving, Sweeping, LabelOf
<1> QED BY <1>4, <1>6, <1>8, <1>9, <1>10 DEF OverlapInv

LEMMA OverlapWrites ==
  ASSUME SweepInv, OverlapInv, NEW o \in Orchs, WriteCheckpoint(o)
  PROVE  OverlapInv'
<1>1. FirstInv /\ TurnInv /\ (~Resumed => AloneInv) /\ (Resumed => OvertakenInv)
  BY DEF OverlapInv
<1>2. 1 \in Orchs /\ Resumes \subseteq Orchs /\ 1 \notin Resumes /\ Resumes' = Resumes
  BY SweepAssumption DEF Orchs, Resumes
<1>3. /\ orch[o].at = "write" /\ orch'[o].at = "publish" /\ orch'[o].then = orch[o].then
      /\ orch'[o].run = orch[o].run /\ \A u \in Orchs : u # o => orch'[u] = orch[u]
      /\ checkpoint' = orch[o].run /\ torn' = FALSE /\ published' = published /\ watcher' = watcher
  BY DEF WriteCheckpoint, SweepInv, SweepTypeOK, Controls
<1>4. LabelOf(orch'[o]) = LabelOf(orch[o])
  BY <1>3 DEF LabelOf, Writing
<1>5. /\ Parting(orch[o]) => Parting(orch'[o])
      /\ Leaving(orch[o]) => Leaving(orch'[o])
  BY <1>3, <1>4 DEF Parting, Leaving
<1>6. Resumed' <=> Resumed
  BY <1>2, <1>3 DEF Resumed
<1>7. BetweenBuckets' => Sweeping(orch[o]) /\ Open(orch'[o]) /\ ~Leaving(orch[o])
  <2>1. BetweenBuckets' => Between(orch[o].run)
    BY <1>3 DEF BetweenBuckets, Between
  <2>2. BetweenBuckets' => Sweeping(orch[o])
    BY <2>1 DEF SweepInv, Local
  <2> QED BY <1>3, <1>4, <2>2 DEF Open, Sweeping, Leaving
<1>8. FirstInv'
  <2>1. Parting(orch'[1]) /\ orch'[1].at \notin {"new", "load"}
    BY <1>1, <1>2, <1>3, <1>5 DEF FirstInv
  <2> QED BY <2>1 DEF FirstInv, Parting, LabelOf
<1>9. TurnInv'
  BY <1>1, <1>2, <1>3 DEF TurnInv
<1>10. ASSUME ~Resumed PROVE AloneInv'
  <2>1. AloneInv
    BY <1>1, <1>10
  <2>2. o = 1
    <3>1. o \notin Resumes
      BY <1>3, <1>10 DEF Resumed
    <3> QED BY <3>1 DEF Resumes
  <2>3. published.state = "aborted" => Leaving(orch'[1]) /\ ~BetweenBuckets'
    BY <1>5, <1>7, <2>1, <2>2 DEF AloneInv
  <2>4. /\ published'.by = 1 /\ watcher'.seen.by = 1
        /\ watcher'.seen.state = "aborted" => published'.state = "aborted"
        /\ ~torn' /\ checkpoint' = orch'[1].run
    BY <1>3, <2>1, <2>2 DEF AloneInv
  <2>5. BetweenBuckets' => Open(orch'[1])
    BY <1>7, <2>2
  <2> QED BY <1>3, <2>3, <2>4, <2>5 DEF AloneInv, Open, Leaving, Sweeping, LabelOf
<1>11. ASSUME Resumed PROVE OvertakenInv'
  <2>1. Leaving(orch[1])
    BY <1>1, <1>11 DEF OvertakenInv
  <2>2. Leaving(orch'[1])
    BY <1>2, <1>3, <1>5, <2>1
  <2>3. BetweenBuckets' => \E p \in Resumes : Open(orch'[p])
    <3> SUFFICES ASSUME BetweenBuckets' PROVE \E p \in Resumes : Open(orch'[p])
      OBVIOUS
    <3>1. o \in Resumes
      BY <1>7, <2>1 DEF Resumes
    <3> QED BY <1>7, <3>1
  <2> QED BY <1>2, <2>2, <2>3 DEF OvertakenInv, Open, Leaving, Sweeping, LabelOf
<1> QED BY <1>6, <1>8, <1>9, <1>10, <1>11 DEF OverlapInv

(* No process dies while the checkpoint is between two buckets.              *)
LEMMA OverlapKills ==
  ASSUME "bucket" \notin Windows, SweepInv, OverlapInv, NEW o \in Orchs, Kill(o)
  PROVE  OverlapInv'
<1>1. FirstInv /\ TurnInv /\ (~Resumed => AloneInv) /\ (Resumed => OvertakenInv)
  BY DEF OverlapInv
<1>2. 1 \in Orchs /\ Resumes \subseteq Orchs /\ 1 \notin Resumes /\ Resumes' = Resumes
  BY SweepAssumption DEF Orchs, Resumes
<1>3. /\ orch[o].at # "new" /\ orch'[o] = Dead /\ \A u \in Orchs : u # o => orch'[u] = orch[u]
      /\ UNCHANGED <<checkpoint, torn, published, watcher>> /\ ~BetweenBuckets
  BY DEF Kill, Harmless, Gone, SweepInv, SweepTypeOK
<1>4. Dead.at = "dead" /\ Parting(Dead) /\ Leaving(Dead)
  BY DeadControl DEF Parting, Leaving
<1>5. ~BetweenBuckets'
  BY <1>3 DEF BetweenBuckets
<1>6. Resumed' <=> Resumed
  BY <1>2, <1>3, <1>4 DEF Resumed
<1>7. FirstInv'
  <2>1. Parting(orch'[1]) /\ orch'[1].at \notin {"new", "load"}
    BY <1>1, <1>2, <1>3, <1>4 DEF FirstInv
  <2> QED BY <2>1 DEF FirstInv, Parting, LabelOf
<1>8. TurnInv'
  <2>1. ASSUME NEW p \in Resumes
        PROVE  \/ watcher'.at = "wait" /\ p = watcher'.count + 1
               \/ orch'[p].at \in {"new", "dead"}
    BY <1>1, <1>2, <1>3, <1>4 DEF TurnInv
  <2> QED BY <1>2, <2>1 DEF TurnInv
<1>9. Leaving(orch[1]) => Leaving(orch'[1])
  BY <1>2, <1>3, <1>4
<1>10. ASSUME ~Resumed PROVE AloneInv'
  <2>1. AloneInv
    BY <1>1, <1>10
  <2>2. /\ published'.by = 1 /\ watcher'.seen.by = 1
        /\ watcher'.seen.state = "aborted" => published'.state = "aborted"
        /\ published'.state = "aborted" => Leaving(orch'[1])
        /\ orch'[1].at = "publish" => ~torn' /\ checkpoint' = orch'[1].run
    BY <1>2, <1>3, <1>4, <1>9, <2>1 DEF AloneInv
  <2> QED BY <1>5, <2>2 DEF AloneInv, Leaving, LabelOf
<1>11. ASSUME Resumed PROVE OvertakenInv'
  <2>1. Leaving(orch'[1])
    BY <1>1, <1>9, <1>11 DEF OvertakenInv
  <2> QED BY <1>5, <2>1 DEF OvertakenInv, Leaving, LabelOf
<1> QED BY <1>6, <1>7, <1>8, <1>10, <1>11 DEF OverlapInv

(* The watcher starts the next process when the one before is gone or says   *)
(* that it was aborted, and then the checkpoint is not between two buckets.  *)
LEMMA OverlapWatched ==
  ASSUME SweepInv, OverlapInv, WatcherStep
  PROVE  OverlapInv'
<1>1. FirstInv /\ TurnInv /\ (~Resumed => AloneInv) /\ (Resumed => OvertakenInv)
  BY DEF OverlapInv
<1>2. 1 \in Orchs /\ Resumes \subseteq Orchs /\ 1 \notin Resumes /\ Resumes' = Resumes
  BY SweepAssumption DEF Orchs, Resumes
<1>3. UNCHANGED <<checkpoint, torn, published>>
  BY DEF WatcherStep, WatcherReads, WatcherJudges, WatcherReturns
<1>4. watcher \in Watchers /\ published \in Views /\ orch \in [Orchs -> Controls]
  BY DEF SweepInv, SweepTypeOK, Watchers
<1>5. BetweenBuckets' <=> BetweenBuckets
  BY <1>3 DEF BetweenBuckets
<1>6. ASSUME orch' = orch, TurnInv', watcher'.seen \in {View, Unseen, watcher.seen} PROVE OverlapInv'
  <2>1. FirstInv' /\ (Resumed' <=> Resumed)
    BY <1>1, <1>6 DEF FirstInv, Parting, LabelOf, Resumed, Resumes, Orchs
  <2>2. ~Resumed => AloneInv'
    <3>1. /\ View.state = published.state /\ View.by = published.by
          /\ Unseen.state = "none" /\ Unseen.by = 1
      BY <1>4 DEF View, Views, Unseen
    <3> QED BY <1>1, <1>3, <1>5, <1>6, <3>1 DEF AloneInv, Open, Leaving, Sweeping, LabelOf
  <2>3. Resumed => OvertakenInv'
    BY <1>1, <1>2, <1>5, <1>6 DEF OvertakenInv, Open, Leaving, Sweeping, LabelOf
  <2> QED BY <1>6, <2>1, <2>2, <2>3 DEF OverlapInv
<1>7. CASE WatcherReads
  <2>1. /\ orch' = orch /\ watcher.at = "idle" /\ watcher'.at = "judge"
        /\ watcher'.count = watcher.count /\ watcher'.seen = View
    BY <1>4, <1>7 DEF WatcherReads, Watchers
  <2>2. TurnInv'
    BY <1>1, <1>2, <2>1 DEF TurnInv
  <2> QED BY <1>6, <2>1, <2>2
<1>8. CASE WatcherReturns
  <2>1. /\ orch' = orch /\ watcher.at = "wait" /\ orch[watcher.count + 1].at = "dead"
        /\ watcher'.at = "idle" /\ watcher'.count = watcher.count /\ watcher'.seen = watcher.seen
    BY <1>4, <1>8 DEF WatcherReturns, Watchers
  <2>2. TurnInv'
    BY <1>1, <1>2, <2>1 DEF TurnInv
  <2> QED BY <1>6, <2>1, <2>2
<1>9. CASE WatcherJudges /\ ~(Offered(watcher.seen) /\ watcher.count < MaxResumes)
  <2>1. /\ orch' = orch /\ watcher.at = "judge" /\ watcher'.count = watcher.count
        /\ watcher'.seen = Unseen
    BY <1>4, <1>9 DEF WatcherJudges, Watchers
  <2>2. TurnInv'
    BY <1>1, <1>2, <2>1 DEF TurnInv
  <2> QED BY <1>6, <2>1, <2>2
<1>10. CASE WatcherJudges /\ Offered(watcher.seen) /\ watcher.count < MaxResumes
  <2> DEFINE n == watcher.count + 2
  <2>1. /\ orch' = [orch EXCEPT ![n].at = "load"] /\ watcher.at = "judge"
        /\ watcher'.at = "wait" /\ watcher'.count = watcher.count + 1
    BY <1>4, <1>10 DEF WatcherJudges, Watchers
  <2>2. n \in Resumes /\ watcher'.count + 1 = n /\ watcher.count \in Nat
    <3>1. watcher.count \in 0..MaxResumes /\ MaxResumes \in Nat /\ watcher.count < MaxResumes
      BY <1>4, <1>10, SweepAssumption DEF Watchers
    <3> QED BY <2>1, <3>1 DEF Orchs, Resumes
  <2> HIDE DEF n
  <2>3. /\ orch'[n].at = "load" /\ \A u \in Orchs : u # n => orch'[u] = orch[u]
    BY <1>2, <1>4, <2>1, <2>2 DEF Controls
  <2>4. Resumed' /\ orch'[1] = orch[1]
    BY <1>2, <2>2, <2>3 DEF Resumed
  <2>5. FirstInv'
    BY <1>1, <2>4 DEF FirstInv, Parting, LabelOf
  <2>6. TurnInv'
    <3>1. ASSUME NEW p \in Resumes
          PROVE  \/ watcher'.at = "wait" /\ p = watcher'.count + 1
                 \/ orch'[p].at \in {"new", "dead"}
      BY <1>1, <1>2, <2>1, <2>2, <2>3 DEF TurnInv
    <3> QED BY <1>2, <3>1 DEF TurnInv
  <2>7. Leaving(orch[1]) /\ ~BetweenBuckets
    <3>1. \A p \in Resumes : orch[p].at \in {"new", "dead"} /\ ~Open(orch[p])
      <4>1. \A p \in Resumes : orch[p].at \in {"new", "dead"}
        BY <1>1, <2>1 DEF TurnInv
      <4> QED BY <4>1 DEF Open, Sweeping, LabelOf, Writing
    <3>2. CASE Resumed
      BY <1>1, <3>1, <3>2 DEF OvertakenInv
    <3>3. CASE ~Resumed
      <4>1. AloneInv
        BY <1>1, <3>3
      <4>2. CASE watcher.seen.state = "running" /\ ~Alive(watcher.seen.by)
        <5>1. orch[1].at = "dead"
          BY <1>1, <4>1, <4>2 DEF AloneInv, Alive, FirstInv
        <5>2. ~Open(orch[1]) /\ Leaving(orch[1])
          BY <5>1 DEF Open, Leaving, Sweeping, LabelOf, Writing
        <5> QED BY <4>1, <5>2 DEF AloneInv
      <4>3. CASE watcher.seen.state = "aborted"
        BY <4>1, <4>3 DEF AloneInv
      <4> QED BY <1>10, <4>2, <4>3 DEF Offered
    <3> QED BY <3>2, <3>3
  <2>8. OvertakenInv'
    BY <1>5, <2>4, <2>7 DEF OvertakenInv, Leaving, LabelOf
  <2> QED BY <2>4, <2>5, <2>6, <2>8 DEF OverlapInv
<1> QED BY <1>7, <1>8, <1>9, <1>10 DEF WatcherStep

LEMMA OverlapStep ==
  ASSUME "bucket" \notin Windows, SweepInv, OverlapInv, [SweepNext]_sweepVars
  PROVE  OverlapInv'
<1>1. ASSUME NEW o \in Orchs, OrchStep(o), ~WriteCheckpoint(o) PROVE OverlapInv'
  <2>1. CASE Truncate(o) \/ Publish(o) \/ Begin(o) \/ Resume(o) \/ Finish(o)
    <3>1. /\ Stays(orch[o], orch'[o]) /\ orch[o].at \notin {"new", "dead"}
          /\ \A u \in Orchs : u # o => orch'[u] = orch[u]
      BY <2>1, OtherStays
    <3>2. /\ checkpoint' = checkpoint /\ watcher' = watcher /\ (torn' = torn \/ torn' = TRUE)
          /\ published' = published \/ Publish(o)
      BY <2>1 DEF Truncate, Publish, Begin, Resume, Finish
    <3> QED BY <3>1, <3>2, OverlapKept
  <2>2. CASE ~(Truncate(o) \/ Publish(o) \/ Begin(o) \/ Resume(o) \/ Finish(o))
    <3>1. /\ orch[o].at \in Inner \cup {"arm"} /\ UNCHANGED <<checkpoint, torn, published>>
          /\ \A u \in Orchs : u # o => orch'[u] = orch[u]
          /\ Onward(orch[o], orch'[o])
      BY <1>1, <2>2, OnwardSteps DEF OrchStep
    <3>2. watcher' = watcher \/ Arm(o)
      <4>1. SkipStage(o) \/ StartStage(o) \/ (\E v \in Results : StageReturns(o, v)) => watcher' = watcher
        BY DEF SkipStage, StartStage, StageReturns
      <4>2. EmptyBucket(o) \/ GatedBucket(o) \/ EndedBucket(o) \/ StartBucket(o) => watcher' = watcher
        BY DEF EmptyBucket, GatedBucket, EndedBucket, StartBucket
      <4>3. StartChild(o) \/ (\E v \in Results : EndUnit(o, v)) => watcher' = watcher
        BY DEF StartChild, EndUnit
      <4>4. (\E v \in Verdicts : BucketReturns(o, v)) \/ FinishFullSweep(o) => watcher' = watcher
        BY DEF BucketReturns, FinishFullSweep
      <4>5. Complete(o) \/ Handlers(o) => watcher' = watcher
        BY DEF Complete, Handlers
      <4> QED BY <1>1, <2>2, <4>1, <4>2, <4>3, <4>4, <4>5 DEF OrchStep
    <3>3. Stays(orch[o], orch'[o]) /\ orch[o].at \notin {"new", "dead"}
      BY <3>1, OnwardStays DEF Inner
    <3> QED BY <3>1, <3>2, <3>3, OverlapKept
  <2> QED BY <2>1, <2>2
<1>2. ASSUME NEW o \in Orchs, Abort(o) PROVE OverlapInv'
  <2>1. /\ Stays(orch[o], orch'[o]) /\ orch[o].at \notin {"new", "dead"}
        /\ \A u \in Orchs : u # o => orch'[u] = orch[u]
    BY <1>2, OtherStays
  <2>2. UNCHANGED <<checkpoint, torn, published, watcher>>
    BY <1>2 DEF Abort
  <2> QED BY <2>1, <2>2, OverlapKept
<1>3. CASE UNCHANGED sweepVars
  <2>1. UNCHANGED <<orch, checkpoint, torn, published, watcher>>
    BY <1>3 DEF sweepVars
  <2>2. FirstInv' /\ TurnInv' /\ (Resumed' <=> Resumed) /\ (BetweenBuckets' <=> BetweenBuckets)
    BY <2>1 DEF OverlapInv, FirstInv, TurnInv, Resumed, Resumes, Orchs, BetweenBuckets, Parting, LabelOf
  <2>3. (AloneInv => AloneInv') /\ (OvertakenInv => OvertakenInv')
    BY <2>1, <2>2 DEF AloneInv, OvertakenInv, Resumes, Orchs, Open, Leaving, Sweeping, LabelOf
  <2> QED BY <2>2, <2>3 DEF OverlapInv
<1> QED BY <1>1, <1>2, <1>3, OverlapWrites, OverlapKills, OverlapWatched DEF SweepNext

LEMMA OverlapInit ==
  ASSUME SweepInit
  PROVE  OverlapInv
<1> DEFINE first == [Idle EXCEPT !.at = "start"]
<1>1. /\ orch = [o \in Orchs |-> IF o = 1 THEN first ELSE Idle] /\ torn = TRUE /\ published = Unseen
      /\ watcher = [at |-> "off", seen |-> Unseen, count |-> 0]
  BY DEF SweepInit
<1>2. Idle.at = "new" /\ Idle.run = FreshRun /\ Idle \in Controls /\ FreshRun.state = "running"
  BY DeadControl, FreshCopy DEF Idle
<1>3. first.at = "start" /\ first.run = FreshRun
  BY <1>2 DEF Controls
<1> HIDE DEF first
<1>4. orch[1] = first /\ \A p \in Resumes : orch[p].at = "new"
  BY <1>1, <1>2, SweepAssumption DEF Resumes, Orchs
<1>5. FirstInv /\ TurnInv /\ ~Resumed
  BY <1>2, <1>3, <1>4 DEF FirstInv, Parting, TurnInv, Resumed
<1>6. AloneInv
  BY <1>1, <1>3, <1>4 DEF AloneInv, Unseen, BetweenBuckets
<1> QED BY <1>5, <1>6 DEF OverlapInv

(* A resume does not read a checkpoint between two buckets.                  *)
LEMMA ResumesClean ==
  ASSUME SweepInv, OverlapInv, NEW o \in Orchs, Resume(o)
  PROVE  ~BetweenBuckets
<1>1. FirstInv /\ TurnInv /\ (Resumed => OvertakenInv)
  BY DEF OverlapInv
<1>2. orch[o].at = "load"
  BY DEF Resume
<1>3. o \in Resumes
  BY <1>1, <1>2 DEF FirstInv, Resumes
<1>4. Resumed /\ o = watcher.count + 1
  BY <1>1, <1>2, <1>3 DEF Resumed, TurnInv
<1>5. \A p \in Resumes : orch[p].at \in {"new", "dead", "load"}
  BY <1>1, <1>2, <1>4 DEF TurnInv
<1>6. \A p \in Resumes : ~Open(orch[p])
  BY <1>5 DEF Open, Sweeping, LabelOf, Writing
<1> QED BY <1>1, <1>4, <1>6 DEF OvertakenInv

-----------------------------------------------------------------------------
(* The invariant, the types and the verdict                                  *)

LEMMA SweepInitInv ==
  ASSUME SweepInit
  PROVE  SweepInv
<1> DEFINE first == [Idle EXCEPT !.at = "start"]
<1>1. /\ plan \in Plans /\ orch = [o \in Orchs |-> IF o = 1 THEN first ELSE Idle]
      /\ checkpoint = FreshRun /\ torn = TRUE /\ published = Unseen /\ child = {}
      /\ stageLog = [s \in Stages |-> "planned"]
      /\ watcher = [at |-> "off", seen |-> Unseen, count |-> 0] /\ faults = 0
  BY DEF SweepInit
<1>2. Idle \in Controls /\ Local(Idle) /\ Idle.at = "new" /\ Idle.then = "new"
  BY DeadControl DEF Idle
<1>3. /\ first \in Controls /\ first.at = "start" /\ first.run = FreshRun /\ first.pos = 1
  BY <1>2 DEF Controls, Labels, Idle
<1> HIDE DEF first
<1>4. Local(first)
  BY <1>3, FreshCopy DEF Local, Placed, Counted, Sweeping, LabelOf, Writing
<1>5. Unseen \in Views /\ 0 \in 0..MaxResumes /\ 0 \in 0..MaxFaults /\ MaxResumes \in Nat
  <2>1. 1 \in Orchs /\ 0 \in 0..MaxResumes /\ 0 \in 0..MaxFaults
    BY SweepAssumption DEF Orchs
  <2> QED BY <2>1, SweepAssumption DEF Unseen, Views
<1>6. SweepTypeOK
  BY <1>1, <1>2, <1>3, <1>5, FreshCopy DEF SweepTypeOK
<1>7. LogInv
  BY <1>1, Names DEF LogInv
<1>8. FileInv
  BY <1>1, FreshCopy DEF FileInv
<1>9. OrderInv
  BY <1>1, <1>2 DEF OrderInv, Orchs
<1>10. \A o \in Orchs : Local(orch[o])
  BY <1>1, <1>2, <1>4
<1> QED BY <1>6, <1>7, <1>8, <1>9, <1>10 DEF SweepInv

LEMMA SweepStutter ==
  ASSUME SweepInv, UNCHANGED sweepVars
  PROVE  SweepInv'
<1>1. /\ UNCHANGED <<plan, orch, checkpoint, torn, published, child, stageLog, watcher, faults>>
  BY DEF sweepVars
<1>2. LogInv' /\ SweepTypeOK' /\ OrderInv'
  BY <1>1, Growth, FrozenTypes DEF SweepInv, LogInv, SweepTypeOK, OrderInv, Views
<1>3. \A o \in Orchs : Local(orch[o])'
  BY <1>1, GrowthOfControls DEF SweepInv
<1>4. FileInv'
  BY <1>1, GrowthOfCopies DEF SweepInv, FileInv
<1> QED BY <1>2, <1>3, <1>4 DEF SweepInv

LEMMA SweepStep ==
  ASSUME SweepInv, OverlapInv, [SweepNext]_sweepVars
  PROVE  SweepInv'
<1>1. ASSUME NEW o \in Orchs, OrchStep(o) PROVE SweepInv'
  <2>1. CASE Truncate(o) \/ WriteCheckpoint(o) \/ Publish(o)
    BY <2>1, TruncateKeeps, WriteKeeps, PublishKeeps
  <2>2. CASE Begin(o) \/ Resume(o) \/ Arm(o) \/ Handlers(o)
    BY <2>2, BeginKeeps, ResumesClean, ResumeKeeps, ArmKeeps, HandlersKeep
  <2>3. CASE SkipStage(o) \/ StartStage(o) \/ \E v \in Results : StageReturns(o, v)
    BY <2>3, SkipKeeps, StartStageKeeps, StageReturnsKeeps
  <2>4. CASE EmptyBucket(o) \/ GatedBucket(o) \/ EndedBucket(o) \/ StartBucket(o)
    BY <2>4, EmptyBucketKeeps, GatedBucketKeeps, EndedBucketKeeps, StartBucketKeeps
  <2>5. CASE StartChild(o) \/ \E v \in Results : EndUnit(o, v)
    BY <2>5, StartChildKeeps, EndUnitKeeps
  <2>6. CASE (\E v \in Verdicts : BucketReturns(o, v)) \/ FinishFullSweep(o)
    BY <2>6, BucketReturnsKeeps, FinishFullSweepKeeps
  <2>7. CASE Complete(o) \/ Finish(o)
    BY <2>7, CompleteKeeps, FinishKeeps
  <2> QED BY <1>1, <2>1, <2>2, <2>3, <2>4, <2>5, <2>6, <2>7 DEF OrchStep
<1>2. ASSUME NEW o \in Orchs, Abort(o) \/ Kill(o) PROVE SweepInv'
  BY <1>2, AbortKeeps, KillKeeps
<1>3. CASE WatcherStep
  BY <1>3, WatcherKeeps
<1>4. CASE UNCHANGED sweepVars
  BY <1>4, SweepStutter
<1> QED BY <1>1, <1>2, <1>3, <1>4 DEF SweepNext

(* The invariants hold of every behaviour in which no fault falls between    *)
(* two buckets, a resume beside a process that is still on its way out       *)
(* included (run_benchmark_e2e_sweep and the watcher that carries it on).    *)
THEOREM SweepInvariant ==
  ASSUME "bucket" \notin Windows
  PROVE  SweepSpec => [](SweepInv /\ OverlapInv)
<1>1. SweepInit => SweepInv /\ OverlapInv
  BY SweepInitInv, OverlapInit
<1>2. SweepInv /\ OverlapInv /\ [SweepNext]_sweepVars => (SweepInv /\ OverlapInv)'
  BY SweepStep, OverlapStep
<1> QED BY <1>1, <1>2, PTL DEF SweepSpec

(* The state of the sweep, its files and its watcher keeps its types.        *)
THEOREM SweepTypeCorrect ==
  ASSUME "bucket" \notin Windows
  PROVE  SweepSpec => []SweepTypeOK
<1>1. SweepInv => SweepTypeOK
  BY DEF SweepInv
<1> QED BY <1>1, SweepInvariant, PTL

(* A completed run's verdict on the full sweep covers its plan, for every    *)
(* plan, every number of resumes and any series of kills and aborts outside  *)
(* that window (_finish_stage and _remaining_units_after_completed_units).   *)
THEOREM VerdictSound ==
  ASSUME "bucket" \notin Windows
  PROVE  SweepSpec => []VerdictCoversPlan
<1>1. SweepInv => VerdictCoversPlan
  BY DEF SweepInv, FileInv, Covers, VerdictCoversPlan
<1> QED BY <1>1, SweepInvariant, PTL

-----------------------------------------------------------------------------
(* An unfinished run is offered for a resume                                 *)

Active(c) == c.at \notin Gone \cup {"load"}

(* A process that has published its own run and has not ended it.            *)
Underway(c) ==
  \/ c.at \in Inner \cup {"arm"}
  \/ c.at \in Writing /\ (c.then \in Inner \/ (c.then = "dead" /\ c.run.state = "completed"))

(* What a process's copy says of the state of the run, by its place.         *)
Stated(c) ==
  /\ LabelOf(c) \in Inner \cup {"start", "arm"} => c.run.state = "running"
  /\ LabelOf(c) = "finish" => c.run.state = "aborted"
  /\ c.run.state = "aborted" => c.run.resumable

(* A checkpoint that does not allow a resume, under a progress file that     *)
(* says aborted, is only seen while a process is about to publish.           *)
Pending ==
  published.state = "aborted" /\ ~torn /\ ~checkpoint.resumable =>
    \E o \in Orchs : orch[o].at = "publish"

ResumeInv ==
  /\ \A o, p \in Orchs : Active(orch[o]) /\ Active(orch[p]) => o = p
  /\ \A o \in Orchs :
       /\ Stated(orch[o])
       /\ orch[o].at = "publish" => checkpoint = orch[o].run
       /\ Underway(orch[o]) => published.state = "running"
       /\ orch[o].at = "write" => torn
       /\ orch[o].at \in Inner \cup {"arm"} => checkpoint.state = "running"
  /\ published.state = "aborted" => published.resumable
  /\ Pending

(* A process goes on and writes none of the files. *)
LEMMA ResumeMoves ==
  ASSUME ResumeInv, NEW o \in Orchs, \A u \in Orchs : u # o => orch'[u] = orch[u],
         UNCHANGED <<checkpoint, torn, published>>,
         Stated(orch'[o]), orch'[o].at \notin {"write", "publish"},
         orch'[o].at \in Inner \cup {"arm"} => orch[o].at \in Inner \cup {"arm"},
         Active(orch'[o]) => Active(orch[o]) \/ \A p \in Orchs \ {o} : ~Active(orch[p]),
         Underway(orch'[o]) => Underway(orch[o]),
         orch[o].at = "publish" => Underway(orch[o])
  PROVE  ResumeInv'
<1>1. \A u, p \in Orchs : Active(orch'[u]) /\ Active(orch'[p]) => u = p
  BY DEF ResumeInv
<1>2. \A u \in Orchs :
        /\ Stated(orch'[u])
        /\ orch'[u].at = "publish" => checkpoint = orch'[u].run
        /\ Underway(orch'[u]) => published.state = "running"
        /\ orch'[u].at = "write" => torn
        /\ orch'[u].at \in Inner \cup {"arm"} => checkpoint.state = "running"
  BY DEF ResumeInv
<1>3. published.state = "aborted" /\ ~torn /\ ~checkpoint.resumable =>
        \E u \in Orchs : orch'[u].at = "publish"
  <2> SUFFICES ASSUME published.state = "aborted", ~torn, ~checkpoint.resumable
               PROVE  \E u \in Orchs : orch'[u].at = "publish"
    OBVIOUS
  <2>1. PICK u \in Orchs : orch[u].at = "publish"
    BY DEF ResumeInv, Pending
  <2>2. u # o
    BY <2>1 DEF ResumeInv
  <2> QED BY <2>1, <2>2
<1>4. /\ (\A u, p \in Orchs : Active(orch[u]) /\ Active(orch[p]) => u = p)'
      /\ (\A u \in Orchs : Stated(orch[u]) /\ (Underway(orch[u]) => published.state = "running"))'
  BY <1>1, <1>2 DEF Active, Stated, Underway, LabelOf
<1>5. (published.state = "aborted" => published.resumable)'
  BY DEF ResumeInv
<1> QED BY <1>2, <1>3, <1>4, <1>5 DEF ResumeInv, Pending

(* The same inside the run. *)
LEMMA ResumeWorks ==
  ASSUME ResumeInv, NEW o \in Orchs, orch[o].at \in Inner \cup {"arm"},
         \A u \in Orchs : u # o => orch'[u] = orch[u],
         UNCHANGED <<checkpoint, torn, published>>, Onward(orch[o], orch'[o])
  PROVE  ResumeInv'
<1>1. orch[o].run.state = "running" /\ Active(orch[o]) /\ Underway(orch[o]) /\ orch[o].at # "publish"
  BY DEF ResumeInv, Stated, LabelOf, Writing, Active, Underway, Gone, Inner
<1>2. Stated(orch'[o]) /\ orch'[o].at \notin {"write", "publish"}
  BY <1>1 DEF Stated, LabelOf, Writing, Inner, Onward
<1> QED BY <1>1, <1>2, ResumeMoves

LEMMA ResumeOrchSteps ==
  ASSUME SweepInv, ResumeInv, NEW o \in Orchs,
         \/ SkipStage(o) \/ StartStage(o) \/ (\E v \in Results : StageReturns(o, v))
         \/ EmptyBucket(o) \/ GatedBucket(o) \/ EndedBucket(o) \/ StartBucket(o)
         \/ StartChild(o) \/ (\E v \in Results : EndUnit(o, v))
         \/ (\E v \in Verdicts : BucketReturns(o, v)) \/ FinishFullSweep(o)
         \/ Complete(o) \/ Arm(o) \/ Handlers(o)
  PROVE  ResumeInv'
BY OnwardSteps, ResumeWorks

(* A process writes the state down, in three steps. *)
LEMMA ResumeTruncates ==
  ASSUME SweepInv, ResumeInv, NEW o \in Orchs, Truncate(o)
  PROVE  ResumeInv'
<1>1. /\ orch[o] \in Controls /\ orch[o].at = "truncate" /\ orch \in [Orchs -> Controls]
      /\ torn' = TRUE /\ UNCHANGED <<checkpoint, published>>
      /\ orch' = [orch EXCEPT ![o].at = "write"]
  BY Working DEF Truncate, SweepInv, SweepTypeOK
<1>2. /\ \A u \in Orchs : u # o => orch'[u] = orch[u]
      /\ orch'[o].at = "write" /\ orch'[o].then = orch[o].then /\ orch'[o].run = orch[o].run
  BY <1>1 DEF Controls
<1>3. /\ Active(orch[o]) /\ (Stated(orch[o]) => Stated(orch'[o]))
      /\ Underway(orch'[o]) => Underway(orch[o])
  BY <1>1, <1>2 DEF Active, Gone, Stated, LabelOf, Underway, Writing, Inner
<1>4. \A u, p \in Orchs : Active(orch'[u]) /\ Active(orch'[p]) => u = p
  BY <1>2, <1>3 DEF ResumeInv
<1>5. \A u \in Orchs :
        /\ Stated(orch'[u])
        /\ orch'[u].at = "publish" => checkpoint = orch'[u].run
        /\ Underway(orch'[u]) => published.state = "running"
        /\ orch'[u].at \in Inner \cup {"arm"} => checkpoint.state = "running"
  BY <1>2, <1>3 DEF ResumeInv, Inner
<1>6. /\ (\A u, p \in Orchs : Active(orch[u]) /\ Active(orch[p]) => u = p)'
      /\ (\A u \in Orchs : Stated(orch[u]) /\ (Underway(orch[u]) => published.state = "running"))'
  BY <1>1, <1>4, <1>5 DEF Active, Stated, Underway, LabelOf
<1> QED BY <1>1, <1>5, <1>6 DEF ResumeInv, Pending

LEMMA ResumeWrites ==
  ASSUME SweepInv, ResumeInv, NEW o \in Orchs, WriteCheckpoint(o)
  PROVE  ResumeInv'
<1>1. /\ orch[o] \in Controls /\ orch[o].at = "write" /\ orch \in [Orchs -> Controls]
      /\ checkpoint' = orch[o].run /\ UNCHANGED published
      /\ orch' = [orch EXCEPT ![o].at = "publish"]
  BY Working DEF WriteCheckpoint, SweepInv, SweepTypeOK
<1>2. /\ \A u \in Orchs : u # o => orch'[u] = orch[u]
      /\ orch'[o].at = "publish" /\ orch'[o].then = orch[o].then /\ orch'[o].run = orch[o].run
  BY <1>1 DEF Controls
<1>3. /\ Active(orch[o]) /\ (Stated(orch[o]) => Stated(orch'[o]))
      /\ Underway(orch'[o]) => Underway(orch[o])
  BY <1>1, <1>2 DEF Active, Gone, Stated, LabelOf, Underway, Writing, Inner
<1>4. \A u, p \in Orchs : Active(orch'[u]) /\ Active(orch'[p]) => u = p
  BY <1>2, <1>3 DEF ResumeInv
<1>5. \A u \in Orchs :
        /\ Stated(orch'[u])
        /\ orch'[u].at = "publish" => checkpoint' = orch'[u].run
        /\ Underway(orch'[u]) => published.state = "running"
        /\ orch'[u].at \notin Inner \cup {"arm", "write"}
  <2> SUFFICES ASSUME NEW u \in Orchs
               PROVE  /\ Stated(orch'[u])
                      /\ orch'[u].at = "publish" => checkpoint' = orch'[u].run
                      /\ Underway(orch'[u]) => published.state = "running"
                      /\ orch'[u].at \notin Inner \cup {"arm", "write"}
    OBVIOUS
  <2>1. CASE u = o
    BY <1>1, <1>2, <1>3, <2>1 DEF ResumeInv, Inner
  <2>2. CASE u # o
    <3>1. ~Active(orch[u]) /\ orch'[u] = orch[u]
      BY <1>2, <1>3, <2>2 DEF ResumeInv
    <3>2. orch'[u].at \notin Inner \cup {"arm", "write", "publish"}
      BY <3>1 DEF Active, Gone, Inner
    <3> QED BY <3>1, <3>2 DEF ResumeInv
  <2> QED BY <2>1, <2>2
<1>6. /\ (\A u, p \in Orchs : Active(orch[u]) /\ Active(orch[p]) => u = p)'
      /\ (\A u \in Orchs : Stated(orch[u]) /\ (Underway(orch[u]) => published.state = "running"))'
  BY <1>1, <1>4, <1>5 DEF Active, Stated, Underway, LabelOf
<1>7. Pending'
  BY <1>2 DEF Pending
<1> QED BY <1>1, <1>5, <1>6, <1>7 DEF ResumeInv

LEMMA ResumePublishes ==
  ASSUME SweepInv, ResumeInv, NEW o \in Orchs, Publish(o)
  PROVE  ResumeInv'
<1> DEFINE e == [orch[o] EXCEPT !.at = orch[o].then, !.then = "new"]
           d == IF orch[o].then = "dead" THEN Dead ELSE e
<1>1. /\ orch[o] \in Controls /\ orch[o].at = "publish" /\ orch \in [Orchs -> Controls]
      /\ UNCHANGED <<checkpoint, torn>>
      /\ published' = [state |-> orch[o].run.state, by |-> o, resumable |-> orch[o].run.resumable]
      /\ orch' = [orch EXCEPT ![o] = d]
  BY Working DEF Publish, SweepInv, SweepTypeOK
<1>2. orch[o].then \in Inner \cup {"arm", "finish", "dead"}
  BY <1>1, Working DEF Local, Placed, Writing, Inner
<1>3. e.at = orch[o].then /\ e.then = "new" /\ e.run = orch[o].run
  BY <1>1 DEF Controls
<1> HIDE DEF e
<1>4. /\ Active(orch[o]) /\ Stated(orch[o]) /\ d.at # "publish" /\ checkpoint = orch[o].run
      /\ Stated(d)
      /\ Underway(d) => orch[o].run.state = "running"
      /\ d.at # "write" /\ (d.at \in Inner \cup {"arm"} => orch[o].run.state = "running")
  <2>1. Active(orch[o]) /\ Stated(orch[o]) /\ checkpoint = orch[o].run
    BY <1>1 DEF ResumeInv, Active, Gone
  <2>2. CASE orch[o].then = "dead"
    <3>1. Stated(d) /\ ~Underway(d) /\ d.at = "dead"
      BY <2>2, FreshCopy, DeadControl
         DEF Stated, Underway, LabelOf, Writing, Inner, Dead, Idle
    <3> QED BY <2>1, <3>1 DEF Inner
  <2>3. CASE orch[o].then # "dead"
    <3>1. d = e
      BY <2>3
    <3> QED BY <1>1, <1>2, <1>3, <2>1, <2>3, <3>1 DEF Stated, Underway, LabelOf, Writing, Inner
  <2> QED BY <2>2, <2>3
<1> HIDE DEF d
<1>5. orch'[o] = d /\ \A u \in Orchs : u # o => orch'[u] = orch[u]
  BY <1>1
<1>6. /\ published'.state = orch[o].run.state /\ published'.resumable = orch[o].run.resumable
  BY <1>1
<1>7. \A u \in Orchs : u # o => ~Active(orch[u])
  BY <1>4 DEF ResumeInv
<1>8. \A u, p \in Orchs : Active(orch'[u]) /\ Active(orch'[p]) => u = p
  BY <1>5, <1>7
<1>9. \A u \in Orchs :
        /\ Stated(orch'[u])
        /\ orch'[u].at # "publish"
        /\ Underway(orch'[u]) => published'.state = "running"
        /\ orch'[u].at # "write"
        /\ orch'[u].at \in Inner \cup {"arm"} => checkpoint.state = "running"
  <2> SUFFICES ASSUME NEW u \in Orchs, u # o
               PROVE  /\ Stated(orch[u]) /\ ~Underway(orch[u])
                      /\ orch[u].at \notin Inner \cup {"arm", "write", "publish"}
    BY <1>4, <1>5, <1>6
  <2>1. ~Active(orch[u]) /\ Stated(orch[u])
    BY <1>7 DEF ResumeInv
  <2> QED BY <2>1 DEF Active, Underway, Gone, Writing, Inner
<1>10. /\ (\A u, p \in Orchs : Active(orch[u]) /\ Active(orch[p]) => u = p)'
       /\ (\A u \in Orchs : Stated(orch[u]) /\ (Underway(orch[u]) => published.state = "running"))'
  BY <1>8, <1>9 DEF Active, Stated, Underway, LabelOf
<1>11. published'.state = "aborted" => published'.resumable /\ checkpoint'.resumable
  BY <1>1, <1>4, <1>6 DEF Stated
<1> QED BY <1>1, <1>9, <1>10, <1>11 DEF ResumeInv, Pending

LEMMA ResumeBeginsOrEnds ==
  ASSUME SweepInv, ResumeInv, NEW o \in Orchs, Begin(o) \/ Finish(o)
  PROVE  ResumeInv'
<1>1. orch[o] \in Controls /\ orch \in [Orchs -> Controls]
  BY Working DEF SweepInv, SweepTypeOK
<1>2. /\ orch[o].at \in {"start", "finish"} /\ UNCHANGED <<checkpoint, torn, published>>
      /\ \A u \in Orchs : u # o => orch'[u] = orch[u]
  BY <1>1 DEF Begin, Finish
<1>3. /\ orch'[o].at = "truncate" /\ orch'[o].run = orch[o].run
      /\ orch'[o].then = IF orch[o].at = "start" THEN "arm" ELSE "dead"
  <2>1. CASE orch[o].at = "start" /\ orch' = [orch EXCEPT ![o] = Saving(o, orch[o].run, "arm")]
    BY <1>1, <2>1 DEF Saving, Controls
  <2>2. CASE orch[o].at = "finish" /\ orch' = [orch EXCEPT ![o] = Saving(o, orch[o].run, "dead")]
    BY <1>1, <2>2 DEF Saving, Controls
  <2> QED BY <2>1, <2>2 DEF Begin, Finish
<1>4. Stated(orch[o]) /\ Active(orch[o])
  BY <1>2 DEF ResumeInv, Active, Gone
<1>5. Stated(orch'[o]) /\ ~Underway(orch'[o])
  BY <1>2, <1>3, <1>4 DEF Stated, Underway, LabelOf, Writing, Inner
<1> QED BY <1>2, <1>3, <1>4, <1>5, ResumeMoves DEF Inner

LEMMA ResumeResumes ==
  ASSUME "exit" \notin Windows, SweepInv, ResumeInv, NEW o \in Orchs, Resume(o)
  PROVE  ResumeInv'
<1> DEFINE stored == IF torn THEN Recovered ELSE checkpoint
           stale == ~torn /\ stored.state = "running" /\ ~Alive(stored.by)
           n == Normalised(stored, stale)
           r == [n EXCEPT !.state = "running", !.resumable = FALSE, !.by = o]
           d == Saving(o, r, "arm")
<1>1. /\ orch[o] \in Controls /\ orch[o].at = "load" /\ orch \in [Orchs -> Controls]
      /\ \A p \in Orchs \ {o} : orch[p].at \in Gone
      /\ orch' = [orch EXCEPT ![o] = d] /\ UNCHANGED <<checkpoint, torn, published>>
  BY Working DEF SweepInv, SweepTypeOK, Resume
<1>2. r.state = "running"
  <2>1. stored \in Runs
    BY RecoveredCopy DEF SweepInv, SweepTypeOK
  <2> HIDE DEF stored, stale
  <2>2. DOMAIN n = DOMAIN stored /\ "state" \in DOMAIN stored
    BY <2>1 DEF Normalised, Runs
  <2> HIDE DEF n
  <2>3. DOMAIN [n EXCEPT !.state = "running"] = DOMAIN n /\ [n EXCEPT !.state = "running"].state = "running"
    BY <2>2
  <2> QED BY <2>2, <2>3
<1> HIDE DEF r
<1>3. d.at = "truncate" /\ d.then = "arm" /\ d.run = r
  BY <1>1 DEF Saving, Controls
<1> HIDE DEF d
<1>4. orch'[o] = d /\ \A u \in Orchs : u # o => orch'[u] = orch[u]
  BY <1>1
<1>5. Stated(d) /\ ~Underway(d)
  BY <1>2, <1>3 DEF Stated, Underway, LabelOf, Writing, Inner
<1>6. \A p \in Orchs \ {o} : ~Active(orch[p])
  BY <1>1 DEF Active
<1> QED BY <1>1, <1>3, <1>4, <1>5, <1>6, ResumeMoves DEF Inner

LEMMA ResumeAborts ==
  ASSUME SweepInv, ResumeInv, NEW o \in Orchs, Abort(o)
  PROVE  ResumeInv'
<1>1. /\ orch'[o].at \in {"truncate", "finish"} /\ (orch'[o].at = "truncate" => orch'[o].then = "finish")
      /\ orch'[o].run.state = "aborted" /\ orch'[o].run.resumable = TRUE
      /\ UNCHANGED <<checkpoint, torn, published>>
      /\ \A u \in Orchs : u # o => orch'[u] = orch[u]
  BY AbortedControl
<1>2. Stated(orch'[o]) /\ ~Underway(orch'[o]) /\ orch'[o].at \notin Inner \cup {"arm", "write", "publish"}
  BY <1>1 DEF Stated, Underway, LabelOf, Writing, Inner
<1>3. Active(orch[o]) /\ (orch[o].at = "publish" => Underway(orch[o]))
  BY DEF Abort, InStage, Label, Active, Gone, Writing, Underway, Inner
<1> QED BY <1>1, <1>2, <1>3, ResumeMoves

LEMMA ResumeKills ==
  ASSUME "write" \notin Windows, SweepInv, ResumeInv, NEW o \in Orchs, Kill(o)
  PROVE  ResumeInv'
<1>1. /\ orch[o].at # "publish" /\ UNCHANGED <<checkpoint, torn, published>>
      /\ orch'[o] = Dead /\ \A u \in Orchs : u # o => orch'[u] = orch[u]
  BY DEF Kill, Harmless, SweepInv, SweepTypeOK
<1>2. Dead.at = "dead" /\ Dead.run = FreshRun /\ FreshRun.state = "running"
  BY FreshCopy, DeadControl DEF Dead, Idle
<1>3. Stated(Dead) /\ ~Active(Dead) /\ ~Underway(Dead)
  BY <1>2 DEF Stated, Active, Underway, Gone, LabelOf, Writing, Inner
<1> QED BY <1>1, <1>2, <1>3, ResumeMoves DEF Inner

LEMMA ResumeUntouched ==
  ASSUME ResumeInv, UNCHANGED <<orch, checkpoint, torn, published>>
  PROVE  ResumeInv'
BY DEF ResumeInv, Pending, Stated, Active, Underway, LabelOf

LEMMA ResumeWatched ==
  ASSUME SweepInv, ResumeInv, WatcherStep
  PROVE  ResumeInv'
<1>1. UNCHANGED <<checkpoint, torn, published>>
  BY DEF WatcherStep, WatcherReads, WatcherJudges, WatcherReturns
<1>2. CASE UNCHANGED orch
  BY <1>1, <1>2, ResumeUntouched
<1>3. CASE ~UNCHANGED orch
  <2> DEFINE n == watcher.count + 2
  <2>1. orch' = [orch EXCEPT ![n].at = "load"] /\ watcher.count < MaxResumes
    BY <1>3 DEF WatcherStep, WatcherReads, WatcherJudges, WatcherReturns
  <2>2. n \in Orchs /\ n > watcher.count + 1
    BY <2>1, SweepAssumption DEF SweepInv, SweepTypeOK, Orchs
  <2>3. orch[n].at = "new" /\ orch[n] \in Controls /\ Stated(orch[n]) /\ orch \in [Orchs -> Controls]
    BY <2>2 DEF SweepInv, OrderInv, SweepTypeOK, ResumeInv
  <2> HIDE DEF n
  <2>4. /\ orch'[n].at = "load" /\ orch'[n].run = orch[n].run
        /\ \A u \in Orchs : u # n => orch'[u] = orch[u]
    BY <2>1, <2>2, <2>3 DEF Controls
  <2>5. Stated(orch'[n]) /\ ~Active(orch'[n]) /\ ~Underway(orch'[n])
    BY <2>3, <2>4 DEF Stated, Active, Underway, Gone, LabelOf, Writing, Inner
  <2> QED BY <1>1, <2>2, <2>3, <2>4, <2>5, ResumeMoves DEF Inner
<1> QED BY <1>2, <1>3

LEMMA ResumeInit ==
  ASSUME SweepInit
  PROVE  ResumeInv
<1> DEFINE first == [Idle EXCEPT !.at = "start"]
<1>1. orch = [o \in Orchs |-> IF o = 1 THEN first ELSE Idle] /\ torn = TRUE /\ published = Unseen
  BY DEF SweepInit
<1>2. Idle.at = "new" /\ Idle.then = "new" /\ Idle.run = FreshRun /\ Idle \in Controls
  BY DeadControl DEF Idle
<1>3. first.at = "start" /\ first.run = FreshRun
  BY <1>2 DEF Controls
<1> HIDE DEF first
<1>4. /\ Stated(first) /\ ~Underway(first)
      /\ Stated(Idle) /\ ~Underway(Idle) /\ ~Active(Idle)
  BY <1>2, <1>3, FreshCopy DEF Stated, Active, Underway, Gone, LabelOf, Writing, Inner
<1>5. Unseen.state = "none"
  BY DEF Unseen
<1> QED BY <1>1, <1>2, <1>3, <1>4, <1>5 DEF ResumeInv, Pending, Inner

LEMMA ResumeStep ==
  ASSUME Windows = {}, SweepInv, ResumeInv, [SweepNext]_sweepVars
  PROVE  ResumeInv'
<1>1. "exit" \notin Windows /\ "write" \notin Windows
  OBVIOUS
<1>2. ASSUME NEW o \in Orchs, OrchStep(o) PROVE ResumeInv'
  <2>1. CASE Truncate(o) \/ WriteCheckpoint(o) \/ Publish(o)
    BY <2>1, ResumeTruncates, ResumeWrites, ResumePublishes
  <2>2. CASE Begin(o) \/ Finish(o)
    BY <2>2, ResumeBeginsOrEnds
  <2>3. CASE Resume(o)
    BY <1>1, <2>3, ResumeResumes
  <2> QED BY <1>2, <2>1, <2>2, <2>3, ResumeOrchSteps DEF OrchStep
<1>3. ASSUME NEW o \in Orchs, Abort(o) \/ Kill(o) PROVE ResumeInv'
  BY <1>1, <1>3, ResumeAborts, ResumeKills
<1>4. CASE UNCHANGED sweepVars
  BY <1>4, ResumeUntouched DEF sweepVars
<1> QED BY <1>2, <1>3, <1>4, ResumeWatched DEF SweepNext

(* When every process of an unfinished run is gone, its status offers a      *)
(* resume, whatever aborts and kills ended them outside the short windows    *)
(* (inspect_benchmark_e2e_sweep_run).                                        *)
THEOREM ResumeOffer ==
  ASSUME Windows = {}
  PROVE  SweepSpec => []ResumeOffered
<1>1. "bucket" \notin Windows
  OBVIOUS
<1>2. SweepInit => ResumeInv
  BY ResumeInit
<1>3. SweepInv /\ ResumeInv /\ [SweepNext]_sweepVars => ResumeInv'
  BY ResumeStep
<1>4. SweepInv /\ ResumeInv => ResumeOffered
  <2> SUFFICES ASSUME SweepInv, ResumeInv, AllGone, published.state \notin {"none", "completed"}
               PROVE  Offered(View)
    BY DEF ResumeOffered
  <2>1. published \in Views /\ torn \in BOOLEAN
    BY DEF SweepInv, SweepTypeOK
  <2>2. View.state = published.state /\ View.by = published.by
    BY <2>1 DEF View, Views
  <2>3. CASE published.state = "running"
    <3>1. ~Alive(published.by)
      BY <2>1 DEF AllGone, Alive, Views
    <3> QED BY <2>2, <2>3, <3>1 DEF Offered
  <2>4. CASE published.state = "aborted"
    <3>1. \A o \in Orchs : orch[o].at # "publish"
      BY DEF AllGone
    <3>2. torn \/ checkpoint.resumable
      BY <2>4, <3>1 DEF ResumeInv, Pending
    <3>3. View.resumable = IF torn THEN published.resumable ELSE checkpoint.resumable
      BY <2>1 DEF View, Views
    <3> QED BY <2>2, <2>4, <3>2, <3>3 DEF ResumeInv, Offered
  <2> QED BY <2>1, <2>3, <2>4 DEF Views
<1> QED BY <1>1, <1>2, <1>3, <1>4, SweepInvariant, PTL DEF SweepSpec

-----------------------------------------------------------------------------
(* A unit that ended is not run again                                        *)

(* The attempts account for every event of a unit: the one that runs will be *)
(* read with its events, the others have them.                               *)
Accounts(q) ==
  \A f \in child : f[3] \in Units =>
    \E i \in DOMAIN q :
      q[i].lane = f[1] /\ IF q[i].status = "running" THEN q[i].index = f[2] ELSE f[3] \in q[i].done

(* The units of a bucket that ran are the first ones of its plan.            *)
InPlanOrder(b) ==
  \A i, j \in DOMAIN plan.units[b] : i < j /\ Ran(b, plan.units[b][j]) => Ran(b, plan.units[b][i])

(* The units that a child run has still to do are those that did not run.    *)
InBucketNow == {"lock", "units"}

Untouched(b, todo) ==
  \E k \in 1..(Len(plan.units[b]) + 1) :
    /\ todo = SubSeq(plan.units[b], k, Len(plan.units[b]))
    /\ \A i \in DOMAIN plan.units[b] : Ran(b, plan.units[b][i]) <=> i < k

Careful(c) ==
  LET q == c.run.attempts["full_sweep"]
  IN  /\ Accounts(q)
      /\ \A i \in DOMAIN q :
           q[i].status = "running" => i = Len(q) /\ LabelOf(c) \in InBucketNow
      /\ LabelOf(c) \in InBucketNow =>
           /\ q # <<>> /\ Last(q).status = "running" /\ Last(q).lane = Buckets[c.bucket]
           /\ Untouched(Buckets[c.bucket], c.todo)

RerunInv ==
  /\ \A b \in Range(Buckets) : InPlanOrder(b)
  /\ \A f \in child : f = <<f[1], f[2], f[3]>>
  /\ ~torn => Accounts(checkpoint.attempts["full_sweep"])
  /\ torn => \E o \in Orchs : Active(orch[o])
  /\ \A o \in Orchs :
       /\ Active(orch[o]) => Careful(orch[o])
       /\ orch[o].at \in Inner \cup {"arm", "publish"} => ~torn
       /\ orch[o].at \in InBucketNow => checkpoint.attempts = orch[o].run.attempts

(* A process goes on without a file or an event.                             *)
LEMMA RerunMoves ==
  ASSUME RerunInv, NEW o \in Orchs, \A u \in Orchs : u # o => orch'[u] = orch[u],
         UNCHANGED <<plan, child, checkpoint, torn>>,
         Active(orch'[o]) => Careful(orch'[o]),
         orch'[o].at \in Inner \cup {"arm"} => ~torn,
         orch'[o].at \notin InBucketNow \cup {"publish"},
         torn => Active(orch'[o]) \/ ~Active(orch[o])
  PROVE  RerunInv'
<1>1. \A u \in Orchs :
        /\ Active(orch'[u]) => Careful(orch'[u])
        /\ orch'[u].at \in Inner \cup {"arm", "publish"} => ~torn
        /\ orch'[u].at \in InBucketNow => checkpoint.attempts = orch'[u].run.attempts
  BY DEF RerunInv
<1>2. torn => \E u \in Orchs : Active(orch'[u])
  BY DEF RerunInv
<1>3. Units' = Units
  BY DEF Units
<1>4. \A c : Careful(c)' <=> Careful(c)
  BY <1>3 DEF Careful, Accounts, LabelOf, Untouched, Ran
<1>5. (\A u \in Orchs : Active(orch[u]) => Careful(orch[u]))'
  <2>1. \A c : Active(c)' <=> Active(c)
    BY DEF Active
  <2> QED BY <1>1, <1>4, <2>1
<1>6. (torn => \E u \in Orchs : Active(orch[u]))'
  BY <1>2 DEF Active
<1>7. /\ (\A b \in Range(Buckets) : InPlanOrder(b))'
      /\ (\A f \in child : f = <<f[1], f[2], f[3]>>)'
      /\ (~torn => Accounts(checkpoint.attempts["full_sweep"]))'
  BY <1>3 DEF RerunInv, InPlanOrder, Accounts, Ran
<1> QED BY <1>1, <1>5, <1>6, <1>7 DEF RerunInv

(* Outside the buckets' attempts, the copy stays as it is.                   *)
LEMMA SameAttempts ==
  ASSUME NEW c, Careful(c), LabelOf(c) \notin InBucketNow, NEW d, LabelOf(d) \notin InBucketNow,
         d.run.attempts["full_sweep"] = c.run.attempts["full_sweep"]
  PROVE  Careful(d)
BY DEF Careful

LEMMA SettledAccounts ==
  ASSUME NEW q \in Seq(Attempts), Accounts(q), \A f \in child : f = <<f[1], f[2], f[3]>>
  PROVE  /\ Accounts(Settled(q))
         /\ \A i \in DOMAIN Settled(q) : Settled(q)[i].status # "running"
<1>1. /\ Settled(q) \in Seq(Attempts) /\ Len(Settled(q)) = Len(q) /\ Len(q) \in Nat
      /\ DOMAIN q = 1..Len(q) /\ DOMAIN Settled(q) = 1..Len(q)
      /\ \A i \in 1..Len(q) :
           /\ q[i] \in Attempts
           /\ Settled(q)[i] = IF q[i].status = "running" THEN AbortAttempt(q[i]) ELSE q[i]
  BY SettledAttempts
<1>2. \A i \in 1..Len(q) : Settled(q)[i].status # "running"
  BY <1>1, AbortedAttempt
<1>3. ASSUME NEW f \in child, f[3] \in Units
      PROVE  \E i \in DOMAIN Settled(q) : Settled(q)[i].lane = f[1] /\ f[3] \in Settled(q)[i].done
  <2>1. PICK i \in 1..Len(q) :
          q[i].lane = f[1] /\ IF q[i].status = "running" THEN q[i].index = f[2] ELSE f[3] \in q[i].done
    BY <1>1, <1>3 DEF Accounts
  <2>2. CASE q[i].status = "running"
    <3>1. Settled(q)[i] = AbortAttempt(q[i]) /\ q[i] \in Attempts
      BY <1>1, <2>2
    <3>2. AbortAttempt(q[i]).lane = f[1] /\ AbortAttempt(q[i]).done = EndedBy(q[i])
      BY <2>1, <3>1, AbortedAttempt DEF AbortAttempt, Attempts
    <3>3. f[3] \in EndedBy(q[i])
      BY <1>3, <2>1, <2>2 DEF EndedBy
    <3> QED BY <1>1, <3>1, <3>2, <3>3
  <2>3. CASE q[i].status # "running"
    BY <1>1, <2>1, <2>3
  <2> QED BY <2>2, <2>3
<1> QED BY <1>1, <1>2, <1>3 DEF Accounts

LEMMA AppendedAccounts ==
  ASSUME NEW q \in Seq(Attempts), Accounts(q), NEW a
  PROVE  Accounts(Append(q, a))
<1>1. /\ DOMAIN q = 1..Len(q) /\ DOMAIN Append(q, a) = 1..(Len(q) + 1) /\ Len(q) \in Nat
      /\ \A i \in 1..Len(q) : Append(q, a)[i] = q[i]
  OBVIOUS
<1> QED BY <1>1 DEF Accounts

LEMMA EndedAccounts ==
  ASSUME NEW q \in Seq(Attempts), Accounts(q), \A f \in child : f = <<f[1], f[2], f[3]>>,
         NEW n, n = Len(q), q # <<>>, q[n].status = "running",
         \A i \in DOMAIN q : q[i].status = "running" => i = n,
         NEW v \in Verdicts
  PROVE  LET e == [q EXCEPT ![n] = [q[n] EXCEPT !.status = v, !.done = EndedBy(q[n])]]
         IN  Accounts(e) /\ \A i \in DOMAIN e : e[i].status # "running"
<1> DEFINE a == [q[n] EXCEPT !.status = v, !.done = EndedBy(q[n])]
           e == [q EXCEPT ![n] = a]
<1>1. /\ n \in Nat /\ n \in 1..n /\ DOMAIN q = 1..n /\ DOMAIN e = 1..n
      /\ \A i \in 1..n : e[i] = IF i = n THEN a ELSE q[i]
  <2> HIDE DEF a
  <2> QED OBVIOUS
<1>2. a.lane = q[n].lane /\ a.status = v /\ a.done = EndedBy(q[n]) /\ v # "running"
  <2>1. q[n] \in Attempts
    BY <1>1
  <2> QED BY <2>1 DEF Attempts, Verdicts
<1> HIDE DEF a, e
<1>3. \A i \in DOMAIN e : e[i].status # "running"
  BY <1>1, <1>2
<1>4. ASSUME NEW f \in child, f[3] \in Units
      PROVE  \E i \in DOMAIN e : e[i].lane = f[1] /\ f[3] \in e[i].done
  <2>1. PICK i \in 1..n :
          q[i].lane = f[1] /\ IF q[i].status = "running" THEN q[i].index = f[2] ELSE f[3] \in q[i].done
    BY <1>1, <1>4 DEF Accounts
  <2>2. CASE i = n
    <3>1. f[3] \in EndedBy(q[n])
      BY <1>4, <2>1, <2>2 DEF EndedBy
    <3> QED BY <1>1, <1>2, <2>1, <2>2, <3>1
  <2>3. CASE i # n
    BY <1>1, <2>1, <2>3
  <2> QED BY <2>2, <2>3
<1>5. Accounts(e)
  BY <1>1, <1>3, <1>4 DEF Accounts
<1> QED BY <1>3, <1>5 DEF a, e

(* Without a running attempt, what is left of a bucket is what did not run.  *)
LEMMA RemainingUntouched ==
  ASSUME plan \in Plans, NEW b \in Range(Buckets), NEW q \in Seq(Attempts),
         SoundAttempts(q), Accounts(q), \A i \in DOMAIN q : q[i].status # "running",
         InPlanOrder(b)
  PROVE  Untouched(b, Remaining(q, b))
<1> DEFINE s == plan.units[b]
           ended == UNION {q[i].done : i \in InLane(q, b)}
           places == {i \in DOMAIN s : s[i] \notin ended} \cup {Len(s) + 1}
           first == FirstOpen(q, b)
<1>1. s \in Seq(Units) /\ Range(s) \subseteq Units /\ DOMAIN s = 1..Len(s) /\ Len(s) \in Nat
  BY PlanTypes
<1>2. first = Min(places)
  BY DEF FirstOpen
<1>3. first \in places /\ \A y \in places : first <= y
  <2>1. places \in SUBSET Nat /\ places # {}
    <3>1. DOMAIN s \subseteq Nat /\ Len(s) + 1 \in Nat
      BY <1>1
    <3> HIDE DEF ended, s
    <3> QED BY <3>1
  <2> HIDE DEF places
  <2> QED BY <1>2, <2>1, LeastPlace
<1>4. first \in 1..(Len(s) + 1)
  BY <1>1, <1>3
<1>5. Remaining(q, b) = SubSeq(s, first, Len(s))
  BY DEF Remaining, From
<1>6. \A u \in Units : Ran(b, u) <=> u \in ended
  <2> TAKE u \in Units
  <2>1. ASSUME Ran(b, u) PROVE u \in ended
    <3>1. PICK f \in child : f[1] = b /\ f[3] = u
      BY <2>1 DEF Ran
    <3>2. PICK i \in DOMAIN q : q[i].lane = b /\ u \in q[i].done
      BY <3>1 DEF Accounts
    <3> QED BY <3>2 DEF InLane
  <2>2. ASSUME u \in ended PROVE Ran(b, u)
    BY <2>2 DEF InLane, SoundAttempts
  <2> QED BY <2>1, <2>2
<1> HIDE DEF ended, first
<1>7. \A i \in DOMAIN s : s[i] \in Units
  BY <1>1
<1>8. ASSUME NEW i \in DOMAIN s PROVE Ran(b, s[i]) <=> i < first
  <2>1. CASE i < first
    <3>1. i \notin places
      BY <1>1, <1>3, <1>4, <2>1
    <3>2. s[i] \in ended
      BY <3>1
    <3> QED BY <1>6, <1>7, <2>1, <3>2
  <2>2. CASE i = first
    <3>1. first # Len(s) + 1
      BY <1>1, <2>2
    <3>2. s[first] \notin ended
      BY <1>3, <3>1
    <3> QED BY <1>1, <1>6, <1>7, <2>2, <3>2
  <2>3. CASE i > first
    <3>1. first \in DOMAIN s /\ first # Len(s) + 1
      BY <1>1, <1>4, <2>3
    <3>2. ~Ran(b, s[first])
      BY <1>3, <1>6, <1>7, <3>1
    <3>3. ~Ran(b, s[i])
      BY <2>3, <3>1, <3>2 DEF InPlanOrder
    <3> QED BY <1>1, <1>4, <2>3, <3>3
  <2> QED BY <1>1, <1>4, <2>1, <2>2, <2>3
<1> QED BY <1>4, <1>5, <1>8 DEF Untouched

(* Steps that leave the attempts at the full sweep alone. *)
LEMMA RerunQuiet ==
  ASSUME RerunInv, NEW o \in Orchs, \A u \in Orchs : u # o => orch'[u] = orch[u],
         UNCHANGED <<plan, child, checkpoint, torn>>,
         orch[o].at \in {"signals", "next", "invoke", "bucket", "start", "arm", "finish"},
         \/ orch'[o].at \in {"next", "bucket", "signals", "stuck"} /\ orch[o].at \notin {"start", "finish"}
         \/ orch'[o].at = "truncate" /\ orch'[o].then \notin InBucketNow,
         orch'[o].run.attempts["full_sweep"] = orch[o].run.attempts["full_sweep"]
  PROVE  RerunInv'
<1>1. Active(orch[o]) /\ Careful(orch[o]) /\ LabelOf(orch[o]) \notin InBucketNow
  BY DEF Active, Gone, RerunInv, LabelOf, Writing, InBucketNow
<1>2. LabelOf(orch'[o]) \notin InBucketNow /\ orch'[o].at \notin InBucketNow \cup {"publish"}
  BY DEF LabelOf, Writing, InBucketNow
<1>3. Careful(orch'[o])
  BY <1>1, <1>2, SameAttempts
<1>4. orch[o].at \in Inner \cup {"arm"} => ~torn
  BY DEF RerunInv
<1>5. orch'[o].at # "truncate" => ~torn
  BY <1>4 DEF Inner
<1>6. torn => Active(orch'[o])
  BY <1>5 DEF Active, Gone
<1>7. orch'[o].at \in Inner \cup {"arm"} => ~torn
  BY <1>5 DEF Inner
<1> QED BY <1>1, <1>2, <1>3, <1>6, <1>7, RerunMoves

LEMMA RerunQuietSteps ==
  ASSUME SweepInv, RerunInv, NEW o \in Orchs,
         \/ SkipStage(o) \/ StartStage(o) \/ (\E v \in Results : StageReturns(o, v))
         \/ EmptyBucket(o) \/ EndedBucket(o) \/ FinishFullSweep(o)
         \/ Complete(o) \/ Arm(o) \/ Handlers(o) \/ Begin(o) \/ Finish(o)
  PROVE  RerunInv'
<1>1. orch[o] \in Controls /\ orch[o].run \in Runs /\ orch \in [Orchs -> Controls]
  BY Working DEF SweepInv, SweepTypeOK
<1>2. /\ UNCHANGED <<plan, child, checkpoint, torn>>
      /\ orch[o].at \in {"signals", "next", "invoke", "bucket", "start", "arm", "finish"}
      /\ \A u \in Orchs : u # o => orch'[u] = orch[u]
  BY <1>1 DEF SkipStage, StartStage, StageReturns, EmptyBucket, EndedBucket, FinishFullSweep,
              Complete, Arm, Handlers, Begin, Finish
<1> DEFINE Quiet ==
      /\ \/ orch'[o].at \in {"next", "bucket", "signals", "stuck"} /\ orch[o].at \notin {"start", "finish"}
         \/ orch'[o].at = "truncate" /\ orch'[o].then \notin InBucketNow
      /\ orch'[o].run.attempts["full_sweep"] = orch[o].run.attempts["full_sweep"]
<1>3. SUFFICES Quiet
  BY <1>2, RerunQuiet
<1>4. CASE SkipStage(o) \/ Handlers(o)
  <2>1. /\ orch'[o].at \in {"next", "stuck"} /\ orch'[o].run = orch[o].run
        /\ orch[o].at \in {"next", "signals"}
    BY <1>1, <1>4 DEF SkipStage, Handlers, Controls
  <2> QED BY <2>1
<1>5. CASE EmptyBucket(o) \/ EndedBucket(o)
  <2>1. PICK outs : orch' = [orch EXCEPT ![o] = Passed(o, outs)]
    BY <1>5 DEF EmptyBucket, EndedBucket
  <2>2. orch[o].at = "bucket"
    BY <1>5 DEF EmptyBucket, EndedBucket
  <2>3. orch'[o].at = "bucket" /\ orch'[o].run = orch[o].run
    BY <1>1, <2>1, <2>2 DEF Passed, Controls
  <2> QED BY <2>2, <2>3
<1>6. CASE Arm(o)
  <2>1. orch[o].at = "arm"
    BY <1>6 DEF Arm
  <2>2. CASE orch' = [orch EXCEPT ![o] = Saving(o, orch[o].run, "signals")]
    <3>1. orch'[o].at = "truncate" /\ orch'[o].then = "signals" /\ orch'[o].run = orch[o].run
      BY <1>1, <2>2 DEF Saving, Controls
    <3> QED BY <3>1 DEF InBucketNow
  <2>3. CASE orch' = [orch EXCEPT ![o].at = "signals"]
    <3>1. orch'[o].at = "signals" /\ orch'[o].run = orch[o].run
      BY <1>1, <2>3 DEF Controls
    <3> QED BY <2>1, <3>1
  <2> QED BY <1>6, <2>2, <2>3 DEF Arm
<1>7. CASE Begin(o) \/ Finish(o)
  <2>1. PICK l \in {"arm", "dead"} : orch' = [orch EXCEPT ![o] = Saving(o, orch[o].run, l)]
    BY <1>7 DEF Begin, Finish
  <2>2. orch'[o].at = "truncate" /\ orch'[o].then = l /\ orch'[o].run = orch[o].run
    BY <1>1, <2>1 DEF Saving, Controls
  <2> QED BY <2>2 DEF InBucketNow
<1>8. CASE Complete(o)
  <2> DEFINE r == [orch[o].run EXCEPT !.state = "completed", !.resumable = FALSE]
  <2>1. orch' = [orch EXCEPT ![o] = Saving(o, r, "dead")]
    BY <1>8 DEF Complete
  <2>2. r.attempts = orch[o].run.attempts
    BY <1>1 DEF Runs
  <2> HIDE DEF r
  <2>3. orch'[o].at = "truncate" /\ orch'[o].then = "dead" /\ orch'[o].run = r
    BY <1>1, <2>1 DEF Saving, Controls
  <2> QED BY <2>2, <2>3 DEF InBucketNow
<1>9. CASE FinishFullSweep(o)
  <2> DEFINE v == IF orch[o].outcomes = {} THEN "failed" ELSE Worst(orch[o].outcomes)
             r == [orch[o].run EXCEPT !.status["full_sweep"] = v]
             x == Saving(o, r, "next")
             none == {}
             d == [x EXCEPT !.pos = @ + 1, !.outcomes = none]
  <2>1. orch' = [orch EXCEPT ![o] = d]
    BY <1>9 DEF FinishFullSweep, Finishing
  <2> HIDE DEF v
  <2>2. r.attempts = orch[o].run.attempts
    BY <1>1 DEF Runs
  <2> HIDE DEF r, none
  <2>3. x.at = "truncate" /\ x.then = "next" /\ x.run = r
    BY <1>1 DEF Saving, Controls
  <2>4. d.at = x.at /\ d.then = x.then /\ d.run = x.run
    BY <1>1 DEF Saving, Controls
  <2> HIDE DEF d, x
  <2>5. orch'[o] = d
    BY <1>1, <2>1
  <2> QED BY <2>2, <2>3, <2>4, <2>5 DEF InBucketNow
<1>10. CASE \E v \in Results : StageReturns(o, v)
  <2>1. PICK v \in Results : StageReturns(o, v)
    BY <1>10
  <2> DEFINE s == Stage(o)
             n == Len(orch[o].run.attempts[s])
             r == [orch[o].run EXCEPT !.status[s] = v, !.attempts[s][n].status = v]
             x == Saving(o, r, "next")
             d == [x EXCEPT !.pos = @ + 1]
  <2>2. orch' = [orch EXCEPT ![o] = d] /\ orch[o].at = "invoke"
    BY <2>1 DEF StageReturns, Finishing
  <2>3. s # "full_sweep" /\ "full_sweep" \in Stages
    <3>1. orch[o].pos \in {1, 3, 4}
      BY <2>2, Working DEF Local, Placed, LabelOf, Writing
    <3> QED BY <3>1, Names DEF Stage
  <2> HIDE DEF s
  <2>4. r.attempts["full_sweep"] = orch[o].run.attempts["full_sweep"]
    BY <1>1, <2>3 DEF Runs
  <2> HIDE DEF r
  <2>5. x.at = "truncate" /\ x.then = "next" /\ x.run = r
    BY <1>1 DEF Saving, Controls
  <2>6. d.at = x.at /\ d.then = x.then /\ d.run = x.run
    BY <1>1 DEF Saving, Controls
  <2> HIDE DEF d, x
  <2>7. orch'[o] = d
    BY <1>1, <2>2
  <2> QED BY <2>4, <2>5, <2>6, <2>7 DEF InBucketNow
<1>11. CASE StartStage(o)
  <2> DEFINE s == Stage(o)
             r == [orch[o].run EXCEPT !.status[s] = "running"]
             list == Append(r.attempts[s], NewAttempt(s, Len(r.attempts[s]), "running"))
             q == [r EXCEPT !.attempts[s] = list]
             x == Saving(o, r, "bucket")
             none == {}
             d == [x EXCEPT !.bucket = 1, !.outcomes = none]
             e == Saving(o, q, "invoke")
  <2>1. orch' = [orch EXCEPT ![o] = IF s = "full_sweep" THEN d ELSE e]
    BY <1>11 DEF StartStage
  <2>2. "full_sweep" \in Stages
    BY Names
  <2> HIDE DEF s
  <2>3. r.attempts = orch[o].run.attempts /\ r \in Runs
    BY <1>1 DEF Runs, Final
  <2> HIDE DEF r, list, none
  <2>4. s # "full_sweep" => q.attempts["full_sweep"] = r.attempts["full_sweep"]
    BY <2>2, <2>3 DEF Runs
  <2> HIDE DEF q
  <2>5. /\ x.at = "truncate" /\ x.then = "bucket" /\ x.run = r
        /\ e.at = "truncate" /\ e.then = "invoke" /\ e.run = q
    BY <1>1 DEF Saving, Controls
  <2>6. d.at = x.at /\ d.then = x.then /\ d.run = x.run
    BY <1>1 DEF Saving, Controls
  <2> HIDE DEF d, e, x
  <2>7. orch'[o] = IF s = "full_sweep" THEN d ELSE e
    BY <1>1, <2>1
  <2> QED BY <2>3, <2>4, <2>5, <2>6, <2>7 DEF InBucketNow
<1> QED BY <1>4, <1>5, <1>6, <1>7, <1>8, <1>9, <1>10, <1>11

LEMMA RerunGated ==
  ASSUME SweepInv, RerunInv, NEW o \in Orchs, GatedBucket(o)
  PROVE  RerunInv'
<1> DEFINE x == Passed(o, {"partial"})
           skipped == NewAttempt(Lane(o), 0, "skipped")
           old == x.run.attempts["full_sweep"]
           list == Append(old, skipped)
           d == [x EXCEPT !.at = "truncate", !.then = "bucket",
                          !.run.attempts["full_sweep"] = list]
<1>1. /\ orch[o] \in Controls /\ orch[o].run \in Runs /\ orch \in [Orchs -> Controls]
      /\ orch[o].at = "bucket" /\ UNCHANGED <<plan, child, checkpoint, torn>>
      /\ orch' = [orch EXCEPT ![o] = IF InLane(Sweep(o), Lane(o)) # {} THEN x ELSE d]
  BY Working DEF GatedBucket, SweepInv, SweepTypeOK
<1>2. Active(orch[o]) /\ Careful(orch[o]) /\ LabelOf(orch[o]) \notin InBucketNow /\ ~torn
  BY <1>1 DEF Active, Gone, RerunInv, LabelOf, Writing, InBucketNow, Inner
<1>3. x.at = "bucket" /\ x.run = orch[o].run /\ DOMAIN x = DOMAIN orch[o] /\ DOMAIN orch[o] = DOMAIN Idle
  BY <1>1 DEF Passed, Controls, Idle
<1>4. Careful(x) /\ LabelOf(x) \notin InBucketNow
  <2> HIDE DEF x
  <2> QED BY <1>2, <1>3, SameAttempts DEF LabelOf, Writing, InBucketNow
<1>5. skipped.status # "running"
  BY DEF NewAttempt
<1> HIDE DEF skipped
<1>6. old \in Seq(Attempts) /\ "full_sweep" \in Stages
  <2> HIDE DEF x
  <2> QED BY <1>1, <1>3, Names DEF Runs
<1>7. d.at = "truncate" /\ d.then = "bucket" /\ d.run.attempts["full_sweep"] = list
  <2> HIDE DEF list
  <2>1. DOMAIN x = {"at", "then", "pos", "bucket", "outcomes", "todo", "results", "run"}
    BY <1>3 DEF Idle
  <2> HIDE DEF x
  <2>2. x.run \in Runs
    BY <1>1, <1>3
  <2> QED BY <1>6, <2>1, <2>2 DEF Runs
<1> HIDE DEF x
<1>8. Accounts(list) /\ \A i \in DOMAIN list : list[i].status # "running"
  <2>1. Accounts(old) /\ \A i \in DOMAIN old : old[i].status # "running"
    BY <1>4 DEF Careful
  <2>2. /\ Accounts(Append(old, skipped)) /\ DOMAIN Append(old, skipped) = 1..(Len(old) + 1)
        /\ \A i \in 1..(Len(old) + 1) : Append(old, skipped)[i] = IF i = Len(old) + 1 THEN skipped ELSE old[i]
        /\ DOMAIN old = 1..Len(old) /\ Len(old) \in Nat
    BY <1>6, <2>1, AppendedAccounts
  <2> QED BY <1>5, <2>1, <2>2
<1> HIDE DEF list, d
<1>9. Careful(d) /\ LabelOf(d) \notin InBucketNow
  BY <1>7, <1>8 DEF Careful, LabelOf, Writing, InBucketNow
<1>10. /\ \A u \in Orchs : u # o => orch'[u] = orch[u]
       /\ orch'[o] \in {x, d}
  BY <1>1
<1> QED BY <1>1, <1>2, <1>3, <1>4, <1>7, <1>9, <1>10, RerunMoves DEF InBucketNow

LEMMA RerunStarts ==
  ASSUME SweepInv, RerunInv, NEW o \in Orchs, StartBucket(o)
  PROVE  RerunInv'
<1> DEFINE left == Remaining(Sweep(o), Lane(o))
           a == NewAttempt(Lane(o), Cardinality(InLane(Sweep(o), Lane(o))), "running")
           old == orch[o].run.attempts["full_sweep"]
           list == Append(old, a)
           r == [orch[o].run EXCEPT !.attempts["full_sweep"] = list]
           x == Saving(o, r, "lock")
           none == {}
           d == [x EXCEPT !.todo = left, !.results = none]
<1>1. /\ orch[o] \in Controls /\ orch[o].run \in Runs /\ orch \in [Orchs -> Controls]
      /\ orch[o].at = "bucket" /\ orch[o].bucket <= Len(Buckets)
      /\ UNCHANGED <<plan, child, checkpoint, torn>>
      /\ orch' = [orch EXCEPT ![o] = d]
  BY Working DEF StartBucket, SweepInv, SweepTypeOK
<1>2. Active(orch[o]) /\ Careful(orch[o]) /\ LabelOf(orch[o]) \notin InBucketNow
  BY <1>1 DEF Active, Gone, RerunInv, LabelOf, Writing, InBucketNow
<1>3. /\ Sweep(o) \in Seq(Attempts) /\ SoundAttempts(Sweep(o)) /\ Lane(o) \in Range(Buckets)
      /\ Lane(o) = Buckets[orch[o].bucket] /\ old = Sweep(o) /\ "full_sweep" \in Stages /\ plan \in Plans
  BY <1>1, InBucket, Names DEF Sweeping, LabelOf, Writing, Sweep, SweepInv, SweepTypeOK
<1>4. Accounts(old) /\ \A i \in DOMAIN old : old[i].status # "running"
  BY <1>2 DEF Careful
<1>5. Untouched(Lane(o), left)
  BY <1>3, <1>4, RemainingUntouched DEF RerunInv
<1>6. a.status = "running" /\ a.lane = Lane(o)
  BY DEF NewAttempt
<1> HIDE DEF a, left
<1>7. /\ Accounts(list) /\ list # <<>> /\ Last(list) = a
      /\ \A i \in DOMAIN list : list[i].status = "running" => i = Len(list)
  <2>1. /\ Accounts(Append(old, a)) /\ DOMAIN Append(old, a) = 1..(Len(old) + 1)
        /\ \A i \in 1..(Len(old) + 1) : Append(old, a)[i] = IF i = Len(old) + 1 THEN a ELSE old[i]
        /\ DOMAIN old = 1..Len(old) /\ Len(old) \in Nat /\ Len(Append(old, a)) = Len(old) + 1
    <3>1. old \in Seq(Attempts)
      BY <1>3
    <3> HIDE DEF old
    <3> QED BY <1>4, <3>1, AppendedAccounts
  <2> HIDE DEF old
  <2>2. list # <<>> /\ Last(list) = a
    BY <2>1 DEF Last
  <2>3. \A i \in DOMAIN list : list[i].status = "running" => i = Len(list)
    BY <1>4, <2>1
  <2> QED BY <2>1, <2>2, <2>3
<1> HIDE DEF list
<1>8. r.attempts["full_sweep"] = list
  BY <1>1, <1>3 DEF Runs
<1> HIDE DEF r, none
<1>9. x.at = "truncate" /\ x.then = "lock" /\ x.run = r /\ x.bucket = orch[o].bucket
  BY <1>1 DEF Saving, Controls
<1>10. d.at = x.at /\ d.then = x.then /\ d.run = x.run /\ d.bucket = x.bucket /\ d.todo = left
  BY <1>1 DEF Saving, Controls
<1> HIDE DEF d, x
<1>11. LabelOf(d) = "lock" /\ d.at = "truncate"
  BY <1>9, <1>10 DEF LabelOf, Writing
<1>12. Careful(d)
  BY <1>3, <1>5, <1>6, <1>7, <1>8, <1>9, <1>10, <1>11 DEF Careful, InBucketNow
<1>13. orch'[o] = d /\ \A u \in Orchs : u # o => orch'[u] = orch[u]
  BY <1>1
<1>14. Active(d) /\ d.at \notin InBucketNow \cup {"publish", "arm"} \cup Inner
  BY <1>11 DEF Active, Gone, InBucketNow, Inner
<1> QED BY <1>1, <1>12, <1>13, <1>14, RerunMoves

LEMMA RerunEnds ==
  ASSUME SweepInv, RerunInv, NEW o \in Orchs, NEW v \in Verdicts, BucketReturns(o, v)
  PROVE  RerunInv'
<1> DEFINE old == orch[o].run.attempts["full_sweep"]
           n == Len(old)
           new == [old EXCEPT ![n] = [old[n] EXCEPT !.status = v, !.done = EndedBy(old[n])]]
           r == [orch[o].run EXCEPT !.attempts["full_sweep"] = new]
           x == Saving(o, r, "bucket")
           none == {}
           nil == <<>>
           d == [x EXCEPT !.bucket = @ + 1, !.outcomes = @ \cup {v}, !.results = none, !.todo = nil]
<1>1. /\ orch[o] \in Controls /\ orch[o].run \in Runs /\ orch \in [Orchs -> Controls]
      /\ orch[o].at = "units" /\ UNCHANGED <<plan, child, checkpoint, torn>>
  BY Working DEF BucketReturns, SweepInv, SweepTypeOK
<1>2. orch' = [orch EXCEPT ![o] = d]
  <2>1. r = [orch[o].run EXCEPT !.attempts["full_sweep"][n] =
                [old[n] EXCEPT !.status = v, !.done = EndedBy(old[n])]]
    OBVIOUS
  <2> QED BY <2>1 DEF BucketReturns, Sweep
<1>3. Active(orch[o]) /\ Careful(orch[o]) /\ LabelOf(orch[o]) \in InBucketNow
  BY <1>1 DEF Active, Gone, RerunInv, LabelOf, Writing, InBucketNow
<1>4. old \in Seq(Attempts) /\ "full_sweep" \in Stages
  BY <1>1, Names DEF Runs
<1>5. Accounts(new) /\ \A i \in DOMAIN new : new[i].status # "running"
  <2>1. /\ Accounts(old) /\ old # <<>> /\ old[n].status = "running"
        /\ \A i \in DOMAIN old : old[i].status = "running" => i = n
    BY <1>3 DEF Careful, Last
  <2>2. n = Len(old) /\ \A f \in child : f = <<f[1], f[2], f[3]>>
    BY DEF RerunInv
  <2>3. Len(old) = n /\ v \in Verdicts
    OBVIOUS
  <2> HIDE DEF old, n
  <2> QED BY <1>4, <2>1, <2>2, <2>3, EndedAccounts
<1> HIDE DEF new
<1>6. r.attempts["full_sweep"] = new
  BY <1>1, <1>4 DEF Runs
<1> HIDE DEF r, none, nil
<1>7. x.at = "truncate" /\ x.then = "bucket" /\ x.run = r
  BY <1>1 DEF Saving, Controls
<1>8. d.at = x.at /\ d.then = x.then /\ d.run = x.run
  BY <1>1 DEF Saving, Controls
<1> HIDE DEF d, x
<1>9. orch'[o] = d /\ \A u \in Orchs : u # o => orch'[u] = orch[u]
  BY <1>1, <1>2
<1>10. LabelOf(d) = "bucket" /\ d.at = "truncate"
  BY <1>7, <1>8 DEF LabelOf, Writing
<1>11. Careful(d)
  BY <1>5, <1>6, <1>7, <1>8, <1>10 DEF Careful, InBucketNow
<1>12. Active(d) /\ d.at \notin InBucketNow \cup {"publish", "arm"} \cup Inner
  BY <1>10 DEF Active, Gone, InBucketNow, Inner
<1> QED BY <1>1, <1>9, <1>11, <1>12, RerunMoves

LEMMA RerunAborts ==
  ASSUME SweepInv, RerunInv, NEW o \in Orchs, Abort(o)
  PROVE  RerunInv'
<1> DEFINE s == Stage(o)
           r == [orch[o].run EXCEPT !.state = "aborted", !.resumable = TRUE]
           list == Settled(orch[o].run.attempts[s])
           q == [r EXCEPT !.status[s] = "aborted", !.attempts[s] = list]
           d == Saving(o, q, "finish")
           e == [orch[o] EXCEPT !.at = "finish", !.run = r]
<1>1. /\ orch[o] \in Controls /\ orch[o].run \in Runs /\ orch \in [Orchs -> Controls]
      /\ UNCHANGED <<plan, child, checkpoint, torn>> /\ Local(orch[o])
  BY Working DEF Abort, SweepInv, SweepTypeOK
<1>2. r \in Runs /\ r.attempts = orch[o].run.attempts
  BY <1>1 DEF Runs
<1>3. orch' = [orch EXCEPT ![o] = IF InStage(o) THEN d ELSE e]
  <2>1. q = [r EXCEPT !.status[s] = "aborted", !.attempts[s] = Settled(@)]
    BY <1>2
  <2> QED BY <2>1 DEF Abort
<1>4. Active(orch[o]) /\ Careful(orch[o])
  BY DEF Abort, InStage, Label, Active, Gone, Writing, RerunInv
<1> HIDE DEF r
<1>5. /\ d.at = "truncate" /\ d.then = "finish" /\ d.run = q
      /\ e.at = "finish" /\ e.run = r
  <2> HIDE DEF q
  <2> QED BY <1>1 DEF Saving, Controls
<1>6. orch[o].run.attempts["full_sweep"] \in Seq(Attempts) /\ "full_sweep" \in Stages
  BY <1>1, Names DEF Runs
<1>7. ASSUME InStage(o) PROVE Careful(d)
  <2>1. LabelOf(orch[o]) \in {"invoke", "bucket", "lock", "units"}
    BY <1>7 DEF InStage, Label, LabelOf
  <2>2. s = "full_sweep" \/ LabelOf(orch[o]) \notin InBucketNow
    BY <1>1, <2>1, Names DEF Local, Placed, Sweeping, Stage, InBucketNow
  <2> HIDE DEF s
  <2>3. LabelOf(d) \notin InBucketNow
    BY <1>5 DEF LabelOf, Writing, InBucketNow
  <2>4. CASE s = "full_sweep"
    <3>1. Accounts(list) /\ \A i \in DOMAIN list : list[i].status # "running"
      BY <1>4, <1>6, <2>4, SettledAccounts DEF Careful, RerunInv
    <3> HIDE DEF list
    <3>2. q.attempts["full_sweep"] = list
      BY <1>2, <1>6, <2>4 DEF Runs
    <3> QED BY <1>5, <2>3, <3>1, <3>2 DEF Careful
  <2>5. CASE s # "full_sweep"
    <3> HIDE DEF list
    <3>1. q.attempts["full_sweep"] = orch[o].run.attempts["full_sweep"]
      BY <1>2, <1>6, <2>5 DEF Runs
    <3> HIDE DEF q, d
    <3> QED BY <1>4, <1>5, <2>2, <2>3, <2>5, <3>1, SameAttempts
  <2> QED BY <2>4, <2>5
<1>8. ASSUME ~InStage(o) PROVE Careful(e)
  <2>1. LabelOf(orch[o]) \notin InBucketNow
    BY <1>8 DEF InStage, Label, LabelOf, InBucketNow
  <2>2. LabelOf(e) \notin InBucketNow
    BY <1>5 DEF LabelOf, Writing, InBucketNow
  <2> HIDE DEF e
  <2> QED BY <1>2, <1>4, <1>5, <2>1, <2>2, SameAttempts
<1> HIDE DEF d, e
<1>9. /\ orch'[o] = IF InStage(o) THEN d ELSE e
      /\ \A u \in Orchs : u # o => orch'[u] = orch[u]
  BY <1>1, <1>3
<1>10. /\ orch'[o].at \in {"truncate", "finish"} /\ Careful(orch'[o])
  BY <1>5, <1>7, <1>8, <1>9
<1>11. Active(orch'[o]) /\ orch'[o].at \notin InBucketNow \cup {"publish", "arm"} \cup Inner
  BY <1>10 DEF Active, Gone, InBucketNow, Inner
<1> QED BY <1>1, <1>9, <1>10, <1>11, RerunMoves

LEMMA RerunKills ==
  ASSUME "write" \notin Windows, SweepInv, RerunInv, NEW o \in Orchs, Kill(o)
  PROVE  RerunInv'
<1>1. /\ ~torn /\ UNCHANGED <<plan, child, checkpoint, torn>>
      /\ orch'[o] = Dead /\ \A u \in Orchs : u # o => orch'[u] = orch[u]
  BY DEF Kill, Harmless, SweepInv, SweepTypeOK
<1>2. ~Active(Dead) /\ Dead.at \notin InBucketNow \cup {"publish", "arm"} \cup Inner
  BY DeadControl DEF Active, Gone, InBucketNow, Inner
<1> QED BY <1>1, <1>2, RerunMoves

(* A step that writes a file or resumes: one process is active, and it is    *)
(* the one that goes on.                                                     *)
LEMMA RerunRewrites ==
  ASSUME RerunInv, NEW o \in Orchs, \A u \in Orchs : u # o => orch'[u] = orch[u],
         UNCHANGED <<plan, child>>, \A u \in Orchs : u # o => ~Active(orch[u]),
         Active(orch'[o]) => Careful(orch'[o]),
         torn' => Active(orch'[o]),
         ~torn' => Accounts(checkpoint'.attempts["full_sweep"]),
         orch'[o].at \in Inner \cup {"arm", "publish"} => ~torn',
         orch'[o].at \in InBucketNow => checkpoint'.attempts = orch'[o].run.attempts
  PROVE  RerunInv'
<1>1. \A u \in Orchs :
        /\ Active(orch'[u]) => Careful(orch'[u])
        /\ orch'[u].at \in Inner \cup {"arm", "publish"} => ~torn'
        /\ orch'[u].at \in InBucketNow => checkpoint'.attempts = orch'[u].run.attempts
  <2> SUFFICES ASSUME NEW u \in Orchs, u # o
               PROVE  ~Active(orch'[u]) /\ orch'[u].at \notin Inner \cup {"arm", "publish"} \cup InBucketNow
    OBVIOUS
  <2>1. orch'[u] = orch[u] /\ ~Active(orch[u])
    OBVIOUS
  <2> QED BY <2>1 DEF Active, Gone, Inner, InBucketNow
<1>2. Units' = Units
  BY DEF Units
<1>3. \A c : Careful(c)' <=> Careful(c)
  BY <1>2 DEF Careful, Accounts, LabelOf, Untouched, Ran
<1>4. (\A u \in Orchs : Active(orch[u]) => Careful(orch[u]))'
  <2>1. \A c : Active(c)' <=> Active(c)
    BY DEF Active
  <2> QED BY <1>1, <1>3, <2>1
<1>5. (torn => \E u \in Orchs : Active(orch[u]))'
  BY DEF Active
<1>6. /\ (\A b \in Range(Buckets) : InPlanOrder(b))'
      /\ (\A f \in child : f = <<f[1], f[2], f[3]>>)'
      /\ (~torn => Accounts(checkpoint.attempts["full_sweep"]))'
  BY <1>2 DEF RerunInv, InPlanOrder, Accounts, Ran
<1> QED BY <1>1, <1>4, <1>5, <1>6 DEF RerunInv

LEMMA RerunTruncates ==
  ASSUME SweepInv, ResumeInv, RerunInv, NEW o \in Orchs, Truncate(o)
  PROVE  RerunInv'
<1>1. /\ orch[o] \in Controls /\ orch[o].at = "truncate" /\ orch \in [Orchs -> Controls]
      /\ torn' = TRUE /\ UNCHANGED <<plan, child>>
      /\ orch' = [orch EXCEPT ![o].at = "write"]
  BY Working DEF Truncate, SweepInv, SweepTypeOK
<1>2. /\ \A u \in Orchs : u # o => orch'[u] = orch[u]
      /\ orch'[o].at = "write" /\ orch'[o].then = orch[o].then /\ orch'[o].run = orch[o].run
      /\ orch'[o].bucket = orch[o].bucket /\ orch'[o].todo = orch[o].todo
  BY <1>1 DEF Controls
<1>3. Active(orch[o]) /\ Careful(orch[o]) /\ LabelOf(orch'[o]) = LabelOf(orch[o])
  BY <1>1, <1>2 DEF Active, Gone, RerunInv, LabelOf, Writing
<1>4. Careful(orch'[o])
  BY <1>2, <1>3 DEF Careful
<1>5. \A u \in Orchs : u # o => ~Active(orch[u])
  BY <1>3 DEF ResumeInv
<1>6. Active(orch'[o]) /\ orch'[o].at \notin Inner \cup {"arm", "publish"} \cup InBucketNow
  BY <1>2 DEF Active, Gone, Inner, InBucketNow
<1> QED BY <1>1, <1>2, <1>4, <1>5, <1>6, RerunRewrites

LEMMA RerunWrites ==
  ASSUME SweepInv, ResumeInv, RerunInv, NEW o \in Orchs, WriteCheckpoint(o)
  PROVE  RerunInv'
<1>1. /\ orch[o] \in Controls /\ orch[o].at = "write" /\ orch \in [Orchs -> Controls]
      /\ torn' = FALSE /\ UNCHANGED <<plan, child>> /\ checkpoint' = orch[o].run
      /\ orch' = [orch EXCEPT ![o].at = "publish"]
  BY Working DEF WriteCheckpoint, SweepInv, SweepTypeOK
<1>2. /\ \A u \in Orchs : u # o => orch'[u] = orch[u]
      /\ orch'[o].at = "publish" /\ orch'[o].then = orch[o].then /\ orch'[o].run = orch[o].run
      /\ orch'[o].bucket = orch[o].bucket /\ orch'[o].todo = orch[o].todo
  BY <1>1 DEF Controls
<1>3. Active(orch[o]) /\ Careful(orch[o]) /\ LabelOf(orch'[o]) = LabelOf(orch[o])
  BY <1>1, <1>2 DEF Active, Gone, RerunInv, LabelOf, Writing
<1>4. Careful(orch'[o]) /\ Accounts(checkpoint'.attempts["full_sweep"])
  BY <1>1, <1>2, <1>3 DEF Careful
<1>5. \A u \in Orchs : u # o => ~Active(orch[u])
  BY <1>3 DEF ResumeInv
<1>6. orch'[o].at \notin InBucketNow
  BY <1>2 DEF InBucketNow
<1> QED BY <1>1, <1>2, <1>4, <1>5, <1>6, RerunRewrites

LEMMA RerunPublishes ==
  ASSUME SweepInv, ResumeInv, RerunInv, NEW o \in Orchs, Publish(o)
  PROVE  RerunInv'
<1> DEFINE e == [orch[o] EXCEPT !.at = orch[o].then, !.then = "new"]
           d == IF orch[o].then = "dead" THEN Dead ELSE e
<1>1. /\ orch[o] \in Controls /\ orch[o].at = "publish" /\ orch \in [Orchs -> Controls]
      /\ UNCHANGED <<plan, child, checkpoint, torn>>
      /\ orch' = [orch EXCEPT ![o] = d]
  BY Working DEF Publish, SweepInv, SweepTypeOK
<1>2. orch[o].then \in {"arm", "signals", "next", "invoke", "bucket", "lock", "finish", "dead"}
  BY <1>1, Working DEF Local, Placed, Writing
<1>3. /\ e.at = orch[o].then /\ e.then = "new" /\ e.run = orch[o].run
      /\ e.bucket = orch[o].bucket /\ e.todo = orch[o].todo
  BY <1>1 DEF Controls
<1> HIDE DEF e
<1>4. Active(orch[o]) /\ Careful(orch[o]) /\ ~torn /\ checkpoint = orch[o].run
  BY <1>1 DEF Active, Gone, RerunInv, ResumeInv
<1>5. LabelOf(e) = LabelOf(orch[o])
  BY <1>1, <1>2, <1>3 DEF LabelOf, Writing
<1>6. Careful(e)
  BY <1>3, <1>4, <1>5 DEF Careful
<1>7. \A u \in Orchs : u # o => ~Active(orch[u])
  BY <1>4 DEF ResumeInv
<1>8. ~Active(Dead) /\ Dead.at \notin InBucketNow
  BY DeadControl DEF Active, Gone, InBucketNow
<1>9. /\ Active(d) => Careful(d)
      /\ d.at \in InBucketNow => checkpoint.attempts = d.run.attempts
  BY <1>3, <1>4, <1>6, <1>8
<1> HIDE DEF d
<1>10. orch'[o] = d /\ \A u \in Orchs : u # o => orch'[u] = orch[u]
  BY <1>1
<1>11. Accounts(checkpoint.attempts["full_sweep"])
  BY <1>4 DEF RerunInv
<1> QED BY <1>1, <1>4, <1>7, <1>9, <1>10, <1>11, RerunRewrites

LEMMA RerunResumes ==
  ASSUME "exit" \notin Windows, SweepInv, RerunInv, NEW o \in Orchs, Resume(o)
  PROVE  RerunInv'
<1> DEFINE stale == ~torn /\ checkpoint.state = "running" /\ ~Alive(checkpoint.by)
           n == Normalised(checkpoint, stale)
           r == [n EXCEPT !.state = "running", !.resumable = FALSE, !.by = o]
           list == Settled(checkpoint.attempts["full_sweep"])
           d == Saving(o, r, "arm")
<1>1. /\ orch[o] \in Controls /\ orch[o].at = "load" /\ orch \in [Orchs -> Controls]
      /\ \A p \in Orchs \ {o} : orch[p].at \in Gone
      /\ UNCHANGED <<plan, child, checkpoint, torn>> /\ checkpoint \in Runs
  BY Working DEF SweepInv, SweepTypeOK, Resume
<1>2. \A p \in Orchs : ~Active(orch[p])
  BY <1>1 DEF Active
<1>3. ~torn /\ Accounts(checkpoint.attempts["full_sweep"])
  BY <1>2 DEF RerunInv
<1>4. orch' = [orch EXCEPT ![o] = d]
  BY <1>3 DEF Resume
<1>5. checkpoint.attempts["full_sweep"] \in Seq(Attempts) /\ "full_sweep" \in Stages
  BY <1>1, Names DEF Runs
<1>6. Accounts(list) /\ \A i \in DOMAIN list : list[i].status # "running"
  BY <1>3, <1>5, SettledAccounts DEF RerunInv
<1>7. n.attempts = [s \in Stages |-> Settled(checkpoint.attempts[s])] /\ DOMAIN n = DOMAIN checkpoint
  BY <1>1 DEF Normalised, Runs
<1> HIDE DEF n
<1>8. r.attempts = n.attempts
  BY <1>1, <1>7 DEF Runs
<1>9. r.attempts["full_sweep"] = list
  BY <1>5, <1>7, <1>8
<1> HIDE DEF r, list
<1>10. d.at = "truncate" /\ d.then = "arm" /\ d.run = r
  BY <1>1 DEF Saving, Controls
<1> HIDE DEF d
<1>11. Careful(d)
  BY <1>6, <1>9, <1>10 DEF Careful, LabelOf, Writing, InBucketNow
<1>12. orch'[o] = d /\ \A u \in Orchs : u # o => orch'[u] = orch[u]
  BY <1>1, <1>4
<1>13. d.at \notin Inner \cup {"arm", "publish"} \cup InBucketNow
  BY <1>10 DEF Inner, InBucketNow
<1> QED BY <1>1, <1>2, <1>3, <1>11, <1>12, <1>13, RerunRewrites

LEMMA RerunWatched ==
  ASSUME SweepInv, RerunInv, WatcherStep
  PROVE  RerunInv'
<1>1. UNCHANGED <<plan, child, checkpoint, torn>>
  BY DEF WatcherStep, WatcherReads, WatcherJudges, WatcherReturns
<1> DEFINE n == watcher.count + 2
<1>2. orch' = orch \/ (orch' = [orch EXCEPT ![n].at = "load"] /\ watcher.count < MaxResumes)
  BY DEF WatcherStep, WatcherReads, WatcherJudges, WatcherReturns
<1>3. CASE orch' = orch
  <2>1. Units' = Units
    BY <1>1 DEF Units
  <2>2. \A c : Careful(c)' <=> Careful(c)
    BY <1>1, <2>1 DEF Careful, Accounts, LabelOf, Untouched, Ran
  <2>3. (\A u \in Orchs : Active(orch[u]) => Careful(orch[u]))'
    <3>1. \A c : Active(c)' <=> Active(c)
      BY DEF Active
    <3> QED BY <1>3, <2>2, <3>1 DEF RerunInv
  <2> QED BY <1>1, <1>3, <2>1, <2>3 DEF RerunInv, Accounts, InPlanOrder, Ran, Active
<1>4. CASE orch' = [orch EXCEPT ![n].at = "load"] /\ watcher.count < MaxResumes
  <2>1. n \in Orchs /\ n > watcher.count + 1
    BY <1>4, SweepAssumption DEF SweepInv, SweepTypeOK, Orchs
  <2>2. orch[n].at = "new" /\ orch[n] \in Controls /\ orch \in [Orchs -> Controls]
    BY <2>1 DEF SweepInv, OrderInv, SweepTypeOK
  <2> HIDE DEF n
  <2>3. orch'[n].at = "load" /\ \A u \in Orchs : u # n => orch'[u] = orch[u]
    BY <1>4, <2>1, <2>2 DEF Controls
  <2>4. /\ ~Active(orch'[n]) /\ ~Active(orch[n])
        /\ orch'[n].at \notin InBucketNow \cup {"publish", "arm"} \cup Inner
    BY <2>2, <2>3 DEF Active, Gone, InBucketNow, Inner
  <2> QED BY <1>1, <2>1, <2>3, <2>4, RerunMoves
<1> QED BY <1>2, <1>3, <1>4

(* A child run adds an event to the attempt that runs. *)
LEMMA RerunEvents ==
  ASSUME SweepInv, ResumeInv, RerunInv, NEW o \in Orchs, \A u \in Orchs : u # o => orch'[u] = orch[u],
         UNCHANGED <<plan, checkpoint, torn>>, orch[o].at \in InBucketNow,
         orch'[o].at = "units", orch'[o].run = orch[o].run,
         NEW e, child' = child \cup {e}, e = <<e[1], e[2], e[3]>>,
         e[3] \in Units => e[1] = Last(Sweep(o)).lane /\ e[2] = Last(Sweep(o)).index,
         (\A b \in Range(Buckets) : InPlanOrder(b))',
         Untouched(Buckets[orch[o].bucket], orch[o].todo)',
         orch'[o].bucket = orch[o].bucket
  PROVE  RerunInv'
<1> DEFINE q == orch[o].run.attempts["full_sweep"]
<1>1. /\ Active(orch[o]) /\ Careful(orch[o]) /\ ~torn /\ LabelOf(orch[o]) \in InBucketNow
      /\ checkpoint.attempts = orch[o].run.attempts
  BY DEF RerunInv, Active, Gone, InBucketNow, Inner, LabelOf, Writing
<1>2. /\ q \in Seq(Attempts) /\ q # <<>> /\ Accounts(q) /\ Last(q) = q[Len(q)] /\ Len(q) \in DOMAIN q
      /\ Last(q).status = "running" /\ Last(q).lane = Buckets[orch[o].bucket] /\ q = Sweep(o)
      /\ \A i \in DOMAIN q : q[i].status = "running" => i = Len(q)
  <2>1. q \in Seq(Attempts)
    BY Working, Names DEF Runs
  <2>2. /\ q # <<>> /\ Accounts(q)
        /\ Last(q).status = "running" /\ Last(q).lane = Buckets[orch[o].bucket]
        /\ \A i \in DOMAIN q : q[i].status = "running" => i = Len(q)
    BY <1>1 DEF Careful
  <2> HIDE DEF q
  <2>3. Last(q) = q[Len(q)] /\ Len(q) \in DOMAIN q
    BY <2>1, <2>2 DEF Last
  <2> QED BY <2>1, <2>2, <2>3 DEF q, Sweep
<1> HIDE DEF q
<1>3. Units' = Units
  BY DEF Units
<1>4. ASSUME NEW f \in child', f[3] \in Units
      PROVE  \E i \in DOMAIN q :
               q[i].lane = f[1] /\ IF q[i].status = "running" THEN q[i].index = f[2] ELSE f[3] \in q[i].done
  <2>1. CASE f \in child
    BY <1>2, <1>4, <2>1 DEF Accounts
  <2>2. CASE f = e
    BY <1>2, <1>4, <2>2
  <2> QED BY <1>4, <2>1, <2>2
<1>5. orch'[o].run.attempts["full_sweep"] = q /\ checkpoint'.attempts["full_sweep"] = q
  BY <1>1 DEF q
<1>6. (~torn => Accounts(checkpoint.attempts["full_sweep"]))'
  BY <1>3, <1>4, <1>5 DEF Accounts
<1>7. LabelOf(orch'[o]) = "units" /\ Active(orch'[o])
  BY DEF LabelOf, Writing, Active, Gone
<1>8. Careful(orch[o])'
  BY <1>2, <1>3, <1>4, <1>5, <1>7 DEF Careful, Accounts, LabelOf, InBucketNow
<1>9. \A u \in Orchs : u # o => ~Active(orch[u])
  BY <1>1 DEF ResumeInv
<1>10. (\A u \in Orchs : Active(orch[u]) => Careful(orch[u]))'
  <2> SUFFICES ASSUME NEW u \in Orchs, u # o PROVE ~Active(orch[u])'
    BY <1>8
  <2> QED BY <1>9 DEF Active
<1>11. \A u \in Orchs :
         /\ orch'[u].at \in Inner \cup {"arm", "publish"} => ~torn
         /\ orch'[u].at \in InBucketNow => checkpoint.attempts = orch'[u].run.attempts
  BY <1>1 DEF RerunInv
<1>12. (torn => \E u \in Orchs : Active(orch[u]))'
  BY <1>1
<1>13. (\A f \in child : f = <<f[1], f[2], f[3]>>)'
  BY DEF RerunInv
<1> QED BY <1>6, <1>10, <1>11, <1>12, <1>13 DEF RerunInv

LEMMA RerunStartsChild ==
  ASSUME SweepInv, ResumeInv, RerunInv, NEW o \in Orchs, StartChild(o)
  PROVE  RerunInv'
<1> DEFINE e == <<Lane(o), Last(Sweep(o)).index, "run_start">>
           b0 == Buckets[orch[o].bucket]
<1>1. /\ orch[o] \in Controls /\ orch[o].at = "lock" /\ orch \in [Orchs -> Controls]
      /\ UNCHANGED <<plan, checkpoint, torn>> /\ child' = child \cup {e}
      /\ orch' = [orch EXCEPT ![o].at = "units"]
  BY Working DEF StartChild, SweepInv, SweepTypeOK
<1>2. /\ \A u \in Orchs : u # o => orch'[u] = orch[u]
      /\ orch'[o].at = "units" /\ orch'[o].run = orch[o].run
      /\ orch'[o].bucket = orch[o].bucket /\ orch'[o].todo = orch[o].todo
  BY <1>1 DEF Controls
<1>3. e = <<e[1], e[2], e[3]>> /\ e[3] = "run_start"
  OBVIOUS
<1> HIDE DEF e
<1>4. plan \in Plans
  BY DEF SweepInv, SweepTypeOK
<1>5. "run_start" \notin Units
  BY <1>4, SweepAssumption DEF Units
<1>6. \A b, u : u # "run_start" => (Ran(b, u)' <=> Ran(b, u))
  BY <1>1, <1>3 DEF Ran
<1>7. \A b \in Range(Buckets) : \A i \in DOMAIN plan.units[b] : plan.units[b][i] # "run_start"
  BY <1>4, SweepAssumption DEF Range
<1>8. (\A b \in Range(Buckets) : InPlanOrder(b))'
  BY <1>1, <1>6, <1>7 DEF RerunInv, InPlanOrder
<1>9. Sweeping(orch[o]) /\ LabelOf(orch[o]) \in InBucketNow /\ Active(orch[o]) /\ orch[o].bucket <= Len(Buckets)
  <2>1. LabelOf(orch[o]) = "lock"
    BY <1>1 DEF LabelOf, Writing
  <2> QED BY <1>1, <2>1, Working DEF Sweeping, Active, Gone, Local, Placed, InBucketNow
<1>10. b0 \in Range(Buckets) /\ Untouched(b0, orch[o].todo)
  BY <1>9, InBucket DEF RerunInv, Careful
<1>11. Untouched(Buckets[orch[o].bucket], orch[o].todo)'
  <2> HIDE DEF b0
  <2>1. PICK k \in 1..(Len(plan.units[b0]) + 1) :
          /\ orch[o].todo = SubSeq(plan.units[b0], k, Len(plan.units[b0]))
          /\ \A i \in DOMAIN plan.units[b0] : Ran(b0, plan.units[b0][i]) <=> i < k
    BY <1>10 DEF Untouched
  <2>2. \A i \in DOMAIN plan.units[b0] :
          (\E f \in child' : f[1] = b0 /\ f[3] = plan.units[b0][i]) <=> i < k
    <3> TAKE i \in DOMAIN plan.units[b0]
    <3>1. plan.units[b0][i] # "run_start"
      BY <1>7, <1>10
    <3>2. Ran(b0, plan.units[b0][i]) <=> i < k
      BY <2>1
    <3>3. (\E f \in child' : f[1] = b0 /\ f[3] = plan.units[b0][i]) <=> Ran(b0, plan.units[b0][i])
      BY <1>1, <1>3, <3>1 DEF Ran
    <3> QED BY <3>2, <3>3
  <2>3. b0 = Buckets[orch'[o].bucket] /\ plan' = plan
    BY <1>1, <1>2 DEF b0
  <2>4. Buckets' = Buckets
    BY DEF Buckets
  <2> QED BY <1>2, <2>1, <2>2, <2>3, <2>4 DEF Untouched, Ran
<1>12. orch[o].at \in InBucketNow /\ e[3] \notin Units
  BY <1>1, <1>3, <1>5 DEF InBucketNow
<1> QED BY <1>1, <1>2, <1>3, <1>8, <1>11, <1>12, RerunEvents

(* The unit that a child run has at hand is the first one that did not run.  *)
LEMMA UnitAtHand ==
  ASSUME SweepInv, RerunInv, NEW o \in Orchs, orch[o].at = "units", orch[o].todo # <<>>
  PROVE  /\ Lane(o) \in Range(Buckets) /\ Sweeping(orch[o]) /\ Active(orch[o])
         /\ \E k \in DOMAIN plan.units[Lane(o)] :
              /\ Head(orch[o].todo) = plan.units[Lane(o)][k]
              /\ Tail(orch[o].todo) = SubSeq(plan.units[Lane(o)], k + 1, Len(plan.units[Lane(o)]))
              /\ \A i \in DOMAIN plan.units[Lane(o)] : Ran(Lane(o), plan.units[Lane(o)][i]) <=> i < k
<1> DEFINE b == Lane(o)
           s == plan.units[b]
           todo == orch[o].todo
<1>1. LabelOf(orch[o]) = "units" /\ Sweeping(orch[o]) /\ Active(orch[o])
  BY DEF LabelOf, Writing, Sweeping, Active, Gone
<1>2. orch[o].bucket <= Len(Buckets)
  BY <1>1, Working DEF Local, Placed
<1>3. b \in Range(Buckets)
  BY <1>1, <1>2, InBucket
<1>4. Untouched(b, todo)
  BY <1>1 DEF RerunInv, Careful, InBucketNow, Lane
<1>5. s \in Seq(Units)
  BY <1>3, PlanTypes DEF SweepInv, SweepTypeOK
<1> HIDE DEF b
<1>6. PICK k \in 1..(Len(s) + 1) :
        /\ todo = SubSeq(s, k, Len(s))
        /\ \A i \in DOMAIN s : Ran(b, s[i]) <=> i < k
  BY <1>4 DEF Untouched
<1>7. todo # <<>>
  OBVIOUS
<1> HIDE DEF s, todo
<1>8. k \in DOMAIN s /\ Head(todo) = s[k] /\ Tail(todo) = SubSeq(s, k + 1, Len(s))
  <2>1. Len(s) \in Nat /\ DOMAIN s = 1..Len(s)
    BY <1>5
  <2>2. k <= Len(s)
    BY <1>6, <1>7, <2>1, SubSeqEmpty
  <2>3. k \in 1..Len(s) /\ Len(s) \in k..Len(s)
    BY <2>1, <2>2
  <2> QED BY <1>5, <1>6, <2>1, <2>3, HeadTailOfSubSeq
<1> QED BY <1>1, <1>3, <1>6, <1>8 DEF b, s, todo

LEMMA RerunEndsUnit ==
  ASSUME SweepInv, ResumeInv, RerunInv, NEW o \in Orchs, NEW v \in Results, EndUnit(o, v)
  PROVE  RerunInv'
<1> DEFINE b0 == Lane(o)
           s == plan.units[b0]
           e == <<b0, Last(Sweep(o)).index, Head(orch[o].todo)>>
<1>1. /\ orch[o] \in Controls /\ orch[o].at = "units" /\ orch[o].todo # <<>>
      /\ orch \in [Orchs -> Controls]
      /\ UNCHANGED <<plan, checkpoint, torn>> /\ child' = child \cup {e}
      /\ orch' = [orch EXCEPT ![o].todo = Tail(@), ![o].results = @ \cup {v}]
  BY Working DEF EndUnit, SweepInv, SweepTypeOK
<1>2. /\ \A u \in Orchs : u # o => orch'[u] = orch[u]
      /\ orch'[o].at = "units" /\ orch'[o].run = orch[o].run
      /\ orch'[o].bucket = orch[o].bucket /\ orch'[o].todo = Tail(orch[o].todo)
  BY <1>1 DEF Controls
<1>3. plan \in Plans
  BY DEF SweepInv, SweepTypeOK
<1>4. b0 \in Range(Buckets) /\ Sweeping(orch[o]) /\ Active(orch[o])
  BY <1>1, UnitAtHand
<1>5. PICK k \in DOMAIN s :
        /\ Head(orch[o].todo) = s[k]
        /\ Tail(orch[o].todo) = SubSeq(s, k + 1, Len(s))
        /\ \A i \in DOMAIN s : Ran(b0, s[i]) <=> i < k
  BY <1>1, UnitAtHand
<1>6. s \in Seq(Units) /\ IsInjective(s) /\ DOMAIN s = 1..Len(s) /\ Len(s) \in Nat
  BY <1>3, <1>4, PlanTypes, SweepAssumption
<1>7. \A i \in DOMAIN s : s[i] = s[k] => i = k
  BY <1>5, <1>6 DEF IsInjective
<1>8. b0 = Buckets[orch[o].bucket] /\ b0 = Buckets[orch'[o].bucket]
  BY <1>2 DEF Lane
<1>9. e = <<e[1], e[2], e[3]>> /\ e[1] = b0 /\ e[3] = s[k] /\ e[2] = Last(Sweep(o)).index
  BY <1>5
<1> HIDE DEF e, s, b0
<1>10. \A i \in DOMAIN s : (\E f \in child' : f[1] = b0 /\ f[3] = s[i]) <=> i < k + 1
  <2> TAKE i \in DOMAIN s
  <2>1. Ran(b0, s[i]) <=> i < k
    BY <1>5
  <2>2. (\E f \in child' : f[1] = b0 /\ f[3] = s[i]) <=> Ran(b0, s[i]) \/ s[k] = s[i]
    BY <1>1, <1>9 DEF Ran
  <2>3. s[k] = s[i] <=> i = k
    BY <1>7
  <2>4. i < k + 1 <=> (i < k \/ i = k)
    BY <1>5, <1>6
  <2> QED BY <2>1, <2>2, <2>3, <2>4
<1>11. s = plan'.units[b0]
  BY <1>1 DEF s
<1>12. Untouched(Buckets[orch[o].bucket], orch[o].todo)'
  <2>1. k + 1 \in 1..(Len(s) + 1)
    BY <1>5, <1>6
  <2>2. Buckets' = Buckets
    BY DEF Buckets
  <2>3. PICK n \in 1..(Len(s) + 1) :
          /\ orch'[o].todo = SubSeq(s, n, Len(s))
          /\ \A i \in DOMAIN s : (\E f \in child' : f[1] = b0 /\ f[3] = s[i]) <=> i < n
    BY <1>2, <1>5, <1>10, <2>1
  <2>4. /\ n \in 1..(Len(plan'.units[b0]) + 1)
        /\ orch'[o].todo = SubSeq(plan'.units[b0], n, Len(plan'.units[b0]))
        /\ \A i \in DOMAIN plan'.units[b0] :
             (\E f \in child' : f[1] = b0 /\ f[3] = plan'.units[b0][i]) <=> i < n
    BY <1>11, <2>3, Zenon
  <2> QED BY <1>8, <2>2, <2>4 DEF Untouched, Ran
<1>13. \A b : b # b0 => \A u : (\E f \in child' : f[1] = b /\ f[3] = u) <=> Ran(b, u)
  BY <1>1, <1>9 DEF Ran
<1>14. (\A b \in Range(Buckets) : InPlanOrder(b))'
  <2>1. Range(Buckets)' = Range(Buckets)
    BY DEF Range, Buckets
  <2> SUFFICES ASSUME NEW b \in Range(Buckets),
                      NEW i \in DOMAIN plan.units[b], NEW j \in DOMAIN plan.units[b], i < j,
                      \E f \in child' : f[1] = b /\ f[3] = plan.units[b][j]
               PROVE  \E f \in child' : f[1] = b /\ f[3] = plan.units[b][i]
    BY <1>1, <2>1 DEF InPlanOrder, Ran
  <2>2. CASE b = b0
    <3>1. plan.units[b] = s /\ i \in DOMAIN s /\ j \in DOMAIN s
      BY <2>2 DEF s
    <3>2. j < k + 1
      BY <1>10, <2>2, <3>1
    <3>3. i < k + 1
      BY <1>5, <1>6, <3>1, <3>2
    <3> QED BY <1>10, <2>2, <3>1, <3>3
  <2>3. CASE b # b0
    <3>1. InPlanOrder(b)
      BY DEF RerunInv
    <3>2. Ran(b, plan.units[b][j])
      BY <1>13, <2>3
    <3>3. Ran(b, plan.units[b][i])
      BY <3>1, <3>2 DEF InPlanOrder
    <3> QED BY <1>13, <2>3, <3>3
  <2> QED BY <2>2, <2>3
<1>15. b0 = Last(Sweep(o)).lane
  <2>1. LabelOf(orch[o]) \in InBucketNow
    BY <1>1 DEF LabelOf, Writing, InBucketNow
  <2> QED BY <1>4, <1>8, <2>1 DEF RerunInv, Careful, Sweep
<1>16. orch[o].at \in InBucketNow
  BY <1>1 DEF InBucketNow
<1> QED BY <1>1, <1>2, <1>9, <1>12, <1>14, <1>15, <1>16, RerunEvents

LEMMA RerunInit ==
  ASSUME SweepInit
  PROVE  RerunInv
<1> DEFINE first == [Idle EXCEPT !.at = "start"]
<1>1. /\ orch = [o \in Orchs |-> IF o = 1 THEN first ELSE Idle]
      /\ torn = TRUE /\ child = {} /\ 1 \in Orchs
  BY SweepAssumption DEF SweepInit, Orchs
<1>2. Idle.at = "new" /\ Idle.then = "new" /\ Idle.run = FreshRun /\ Idle \in Controls
  BY DeadControl DEF Idle
<1>3. first.at = "start" /\ first.run = FreshRun
  BY <1>2 DEF Controls
<1> HIDE DEF first
<1>4. ~Active(Idle) /\ Active(first)
  BY <1>2, <1>3 DEF Active, Gone
<1>5. FreshRun.attempts["full_sweep"] = <<>>
  BY Names DEF FreshRun
<1>6. Careful(first)
  <2> DEFINE q == first.run.attempts["full_sweep"]
  <2>1. DOMAIN q = {}
    BY <1>3, <1>5
  <2>2. LabelOf(first) \notin InBucketNow
    BY <1>3 DEF LabelOf, Writing, InBucketNow
  <2>3. Accounts(q)
    BY <1>1 DEF Accounts
  <2> QED BY <2>1, <2>2, <2>3 DEF Careful
<1>7. \A o \in Orchs :
        /\ Active(orch[o]) => Careful(orch[o])
        /\ orch[o].at \notin Inner \cup {"arm", "publish"} \cup InBucketNow
  BY <1>1, <1>2, <1>3, <1>4, <1>6 DEF Inner, InBucketNow
<1>8. \A b \in Range(Buckets) : InPlanOrder(b)
  BY <1>1 DEF InPlanOrder, Ran
<1>9. \E o \in Orchs : Active(orch[o])
  BY <1>1, <1>4
<1> QED BY <1>1, <1>7, <1>8, <1>9 DEF RerunInv

LEMMA RerunStutter ==
  ASSUME RerunInv, UNCHANGED sweepVars
  PROVE  RerunInv'
<1>1. UNCHANGED <<plan, child, checkpoint, torn, orch>>
  BY DEF sweepVars
<1>2. Units' = Units
  BY <1>1 DEF Units
<1>3. \A c : Careful(c)' <=> Careful(c)
  BY <1>1, <1>2 DEF Careful, Accounts, LabelOf, Untouched, Ran
<1>4. (\A u \in Orchs : Active(orch[u]) => Careful(orch[u]))'
  <2>1. \A c : Active(c)' <=> Active(c)
    BY DEF Active
  <2> QED BY <1>1, <1>3, <2>1 DEF RerunInv
<1> QED BY <1>1, <1>2, <1>4 DEF RerunInv, Accounts, InPlanOrder, Ran, Active

LEMMA RerunStep ==
  ASSUME Windows = {}, SweepInv, ResumeInv, RerunInv, [SweepNext]_sweepVars
  PROVE  RerunInv'
<1>1. "exit" \notin Windows /\ "write" \notin Windows
  OBVIOUS
<1>2. ASSUME NEW o \in Orchs, OrchStep(o) PROVE RerunInv'
  <2>1. CASE Truncate(o) \/ WriteCheckpoint(o) \/ Publish(o)
    BY <2>1, RerunTruncates, RerunWrites, RerunPublishes
  <2>2. CASE Resume(o)
    BY <1>1, <2>2, RerunResumes
  <2>3. CASE GatedBucket(o) \/ StartBucket(o) \/ StartChild(o)
    BY <2>3, RerunGated, RerunStarts, RerunStartsChild
  <2>4. CASE \E v \in Results : EndUnit(o, v)
    BY <2>4, RerunEndsUnit
  <2>5. CASE \E v \in Verdicts : BucketReturns(o, v)
    BY <2>5, RerunEnds
  <2> QED BY <1>2, <2>1, <2>2, <2>3, <2>4, <2>5, RerunQuietSteps DEF OrchStep
<1>3. ASSUME NEW o \in Orchs, Abort(o) \/ Kill(o) PROVE RerunInv'
  BY <1>1, <1>3, RerunAborts, RerunKills
<1> QED BY <1>2, <1>3, RerunStutter, RerunWatched DEF SweepNext

(* The event that a step adds is no unit that ran. *)
LEMMA FreshEvent ==
  ASSUME SweepInv, RerunInv, [SweepNext]_sweepVars, NEW e \in child' \ child, e[3] # "run_start"
  PROVE  ~Ran(e[1], e[3])
<1>1. PICK o \in Orchs : StartChild(o) \/ \E v \in Results : EndUnit(o, v)
  <2>1. child' # child
    OBVIOUS
  <2>2. ASSUME NEW o \in Orchs, OrchStep(o)
        PROVE  StartChild(o) \/ (\E v \in Results : EndUnit(o, v)) \/ child' = child
    <3>1. Truncate(o) \/ WriteCheckpoint(o) \/ Publish(o) \/ Begin(o) \/ Resume(o) => child' = child
      BY DEF Truncate, WriteCheckpoint, Publish, Begin, Resume
    <3>2. Arm(o) \/ Handlers(o) \/ SkipStage(o) \/ StartStage(o) => child' = child
      BY DEF Arm, Handlers, SkipStage, StartStage
    <3>3. EmptyBucket(o) \/ GatedBucket(o) \/ EndedBucket(o) \/ StartBucket(o) => child' = child
      BY DEF EmptyBucket, GatedBucket, EndedBucket, StartBucket
    <3>4. (\E v \in Results : StageReturns(o, v)) \/ (\E v \in Verdicts : BucketReturns(o, v)) => child' = child
      BY DEF StageReturns, BucketReturns
    <3>5. FinishFullSweep(o) \/ Complete(o) \/ Finish(o) => child' = child
      BY DEF FinishFullSweep, Complete, Finish
    <3> QED BY <2>2, <3>1, <3>2, <3>3, <3>4, <3>5 DEF OrchStep
  <2>3. \A o \in Orchs : Abort(o) \/ Kill(o) => child' = child
    BY DEF Abort, Kill
  <2>4. WatcherStep \/ UNCHANGED sweepVars => child' = child
    BY DEF WatcherStep, WatcherReads, WatcherJudges, WatcherReturns, sweepVars
  <2> QED BY <2>1, <2>2, <2>3, <2>4 DEF SweepNext
<1>2. CASE StartChild(o)
  <2>1. e = <<Lane(o), Last(Sweep(o)).index, "run_start">>
    BY <1>2 DEF StartChild
  <2> QED BY <2>1
<1>3. CASE \E v \in Results : EndUnit(o, v)
  <2>1. /\ orch[o].at = "units" /\ orch[o].todo # <<>>
        /\ e = <<Lane(o), Last(Sweep(o)).index, Head(orch[o].todo)>>
    BY <1>3 DEF EndUnit
  <2>2. PICK k \in DOMAIN plan.units[Lane(o)] :
          /\ Head(orch[o].todo) = plan.units[Lane(o)][k]
          /\ Ran(Lane(o), plan.units[Lane(o)][k]) <=> k < k
    BY <2>1, UnitAtHand
  <2>3. k \in Nat
    <3>1. plan.units[Lane(o)] \in Seq(Units)
      BY <2>1, UnitAtHand, PlanTypes DEF SweepInv, SweepTypeOK
    <3> QED BY <2>2, <3>1
  <2>4. ~Ran(Lane(o), plan.units[Lane(o)][k])
    BY <2>2, <2>3
  <2> QED BY <2>1, <2>2, <2>4
<1> QED BY <1>1, <1>2, <1>3

(* A unit that some child run ended is run by no later one: the attempts     *)
(* account for every event, the units of a bucket run in the order of its    *)
(* plan, and a resume goes on at the first that no attempt has               *)
(* (_mark_attempt_aborted and _remaining_units_after_completed_units).       *)
THEOREM EndedNotRerun ==
  ASSUME Windows = {}
  PROVE  SweepSpec => EndedUnitsNotRerun
<1>1. "bucket" \notin Windows
  OBVIOUS
<1>2. SweepInit => ResumeInv /\ RerunInv
  BY ResumeInit, RerunInit
<1>3. SweepInv /\ ResumeInv /\ RerunInv /\ [SweepNext]_sweepVars => ResumeInv' /\ RerunInv'
  BY ResumeStep, RerunStep
<1>4. SweepInv /\ RerunInv /\ [SweepNext]_sweepVars =>
        [\A e \in child' \ child : e[3] # "run_start" =>
           \A f \in child : f[1] = e[1] => f[3] # e[3]]_sweepVars
  BY FreshEvent DEF Ran
<1> QED BY <1>1, <1>2, <1>3, <1>4, SweepInvariant, PTL DEF SweepSpec, EndedUnitsNotRerun

-----------------------------------------------------------------------------
(* The sweep keeps its promise: SweepPromise under EndedUnits and Verdict    *)

(* The events of the units are what the promise calls ended.                 *)
LEMMA EndedAreRan ==
  ASSUME NEW b \in Range(Buckets), NEW u, u # "run_start"
  PROVE  u \in Promise!Ended(b) <=> Ran(b, u)
<1> DEFINE events == {x \in child : x[1] = b /\ x[3] # "run_start"}
<1>1. EndedUnits[b] = {<<e[2], e[3]>> : e \in events}
  BY DEF EndedUnits
<1>2. Promise!Ended(b) = {r[2] : r \in {<<e[2], e[3]>> : e \in events}}
  BY <1>1 DEF Promise!Ended
<1>3. u \in Promise!Ended(b) <=> \E e \in events : u = e[3]
  <2>1. ASSUME NEW e \in events, u = e[3] PROVE u \in Promise!Ended(b)
    <3>1. <<e[2], e[3]>> \in {<<f[2], f[3]>> : f \in events} /\ <<e[2], e[3]>>[2] = u
      BY <2>1
    <3> QED BY <1>2, <3>1
  <2>2. ASSUME u \in Promise!Ended(b) PROVE \E e \in events : u = e[3]
    BY <1>2, <2>2
  <2> QED BY <2>1, <2>2
<1> QED BY <1>3 DEF Ran

(* No unit bears the name of the event with which a child run begins.        *)
LEMMA UnitNames ==
  ASSUME plan \in Plans, NEW b \in Range(Buckets), NEW i \in DOMAIN plan.units[b]
  PROVE  plan.units[b][i] # "run_start" /\ plan.units[b][i] \in Range(plan.units[b])
<1>1. plan.units[b][i] \in Range(plan.units[b])
  BY DEF Range
<1> QED BY <1>1, SweepAssumption

(* Every step that writes no checkpoint and ends no unit is a stutter.       *)
LEMMA PromiseUntouched ==
  ASSUME UNCHANGED <<plan, child, checkpoint, torn>>
  PROVE  UNCHANGED <<plan, EndedUnits, Verdict>>
BY DEF EndedUnits, Verdict

LEMMA PromiseQuietSteps ==
  ASSUME NEW o \in Orchs, OrchStep(o), ~Truncate(o), ~WriteCheckpoint(o), ~StartChild(o),
         \A v \in Results : ~EndUnit(o, v)
  PROVE  UNCHANGED <<plan, EndedUnits, Verdict>>
<1> DEFINE Quiet == UNCHANGED <<plan, child, checkpoint, torn>>
<1>1. Publish(o) \/ Begin(o) \/ Resume(o) \/ Arm(o) \/ Handlers(o) => Quiet
  BY DEF Publish, Begin, Resume, Arm, Handlers
<1>2. SkipStage(o) \/ StartStage(o) \/ (\E v \in Results : StageReturns(o, v)) => Quiet
  BY DEF SkipStage, StartStage, StageReturns
<1>3. EmptyBucket(o) \/ GatedBucket(o) \/ EndedBucket(o) \/ StartBucket(o) => Quiet
  BY DEF EmptyBucket, GatedBucket, EndedBucket, StartBucket
<1>4. (\E v \in Verdicts : BucketReturns(o, v)) \/ FinishFullSweep(o) => Quiet
  BY DEF BucketReturns, FinishFullSweep
<1>5. Complete(o) \/ Finish(o) => Quiet
  BY DEF Complete, Finish
<1>6. Quiet
  BY <1>1, <1>2, <1>3, <1>4, <1>5 DEF OrchStep
<1> QED BY <1>6, PromiseUntouched

(* A child run begins: its first event ends no unit.                         *)
LEMMA PromiseStartsChild ==
  ASSUME NEW o \in Orchs, StartChild(o)
  PROVE  UNCHANGED <<plan, EndedUnits, Verdict>>
<1> DEFINE e == <<Lane(o), Last(Sweep(o)).index, "run_start">>
<1>1. child' = child \cup {e} /\ UNCHANGED <<plan, checkpoint, torn>>
  BY DEF StartChild
<1>2. e[3] = "run_start"
  OBVIOUS
<1> HIDE DEF e
<1>3. \A b : {x \in child' : x[1] = b /\ x[3] # "run_start"} = {x \in child : x[1] = b /\ x[3] # "run_start"}
  BY <1>1, <1>2
<1>4. Range(Buckets)' = Range(Buckets)
  BY DEF Range, Buckets
<1> QED BY <1>1, <1>3, <1>4 DEF EndedUnits, Verdict

(* A child run ends a unit: the first that none had ended, of a bucket that  *)
(* the host can run, while the checkpoint says that the run goes on.         *)
LEMMA PromiseRunsUnit ==
  ASSUME SweepInv, ResumeInv, RerunInv, NEW o \in Orchs, NEW v \in Results, EndUnit(o, v)
  PROVE  \E b \in Range(Buckets) : \E i \in DOMAIN plan.units[b] : Promise!RunUnit(b, i)
<1> DEFINE b == Lane(o)
           n == Last(Sweep(o)).index
<1>1. /\ orch[o].at = "units" /\ orch[o].todo # <<>> /\ plan \in Plans
      /\ UNCHANGED <<plan, checkpoint, torn>> /\ child' = child \cup {<<b, n, Head(orch[o].todo)>>}
  BY DEF EndUnit, SweepInv, SweepTypeOK
<1>2. b \in Range(Buckets) /\ Sweeping(orch[o])
  BY <1>1, UnitAtHand
<1>3. PICK k \in DOMAIN plan.units[b] :
        /\ Head(orch[o].todo) = plan.units[b][k]
        /\ \A i \in DOMAIN plan.units[b] : Ran(b, plan.units[b][i]) <=> i < k
  BY <1>1, UnitAtHand
<1>4. checkpoint.state = "running"
  BY <1>1 DEF ResumeInv, Inner
<1>5. Verdict = "none" /\ Verdict' = "none"
  BY <1>1, <1>4 DEF Verdict
<1>6. ~Promise!Beyond(b)
  <2>1. LabelOf(orch[o]) = "units"
    BY <1>1 DEF LabelOf, Writing
  <2>2. ~Gated(Buckets[orch[o].bucket])
    BY <1>2, <2>1, Working DEF Local, Counted
  <2> QED BY <2>2 DEF Promise!Beyond, Gated, Lane
<1> HIDE DEF b, n
<1>7. DOMAIN plan.units[b] = 1..Len(plan.units[b]) /\ k \in Nat
  <2>1. plan.units[b] \in Seq(Units)
    BY <1>1, <1>2, PlanTypes
  <2> QED BY <1>3, <2>1
<1>8. plan.units[b][k] \notin Promise!Ended(b)
  <2>1. ~Ran(b, plan.units[b][k])
    BY <1>3, <1>7
  <2> QED BY <1>1, <1>2, <1>3, <2>1, UnitNames, EndedAreRan
<1>9. \A j \in 1..(k - 1) : plan.units[b][j] \in Promise!Ended(b)
  <2> TAKE j \in 1..(k - 1)
  <2>1. j \in DOMAIN plan.units[b] /\ j < k
    BY <1>3, <1>7
  <2>2. Ran(b, plan.units[b][j])
    BY <1>3, <2>1
  <2> QED BY <1>1, <1>2, <2>1, <2>2, UnitNames, EndedAreRan
<1> DEFINE u == plan.units[b][k]
           e == <<b, n, u>>
           r == <<n, u>>
           Events(c) == {x \in child : x[1] = c /\ x[3] # "run_start"}
<1>10. u # "run_start"
  BY <1>1, <1>2, <1>3, UnitNames
<1>11. EndedUnits' = [EndedUnits EXCEPT ![b] = @ \cup {r}]
  <2>1. child' = child \cup {e}
    BY <1>1, <1>3
  <2>2. e[1] = b /\ e[3] # "run_start" /\ r = <<e[2], e[3]>>
    BY <1>10
  <2> HIDE DEF e, r
  <2>3. \A c : {x \in child' : x[1] = c /\ x[3] # "run_start"} =
                 IF c = b THEN Events(c) \cup {e} ELSE Events(c)
    BY <2>1, <2>2
  <2>4. Range(Buckets)' = Range(Buckets)
    BY DEF Range, Buckets
  <2> DEFINE Later(c) == {x \in child' : x[1] = c /\ x[3] # "run_start"}
  <2>5. /\ EndedUnits = [c \in Range(Buckets) |-> {<<x[2], x[3]>> : x \in Events(c)}]
        /\ EndedUnits' = [c \in Range(Buckets) |-> {<<x[2], x[3]>> : x \in Later(c)}]
    BY <2>4 DEF EndedUnits
  <2>6. \A c : c # b => Later(c) = Events(c)
    BY <2>3
  <2>7. Later(b) = Events(b) \cup {e}
    BY <2>3
  <2> HIDE DEF Later, Events
  <2>8. {<<x[2], x[3]>> : x \in Later(b)} = {<<x[2], x[3]>> : x \in Events(b)} \cup {r}
    BY <2>2, <2>7
  <2>9. \A c \in Range(Buckets) :
          EndedUnits'[c] = IF c = b THEN EndedUnits[c] \cup {r} ELSE EndedUnits[c]
    BY <2>5, <2>6, <2>8
  <2>10. [EndedUnits EXCEPT ![b] = @ \cup {r}] =
           [c \in Range(Buckets) |-> IF c = b THEN EndedUnits[c] \cup {r} ELSE EndedUnits[c]]
    BY <2>5
  <2>11. EndedUnits' = [c \in Range(Buckets) |-> EndedUnits'[c]]
    BY <2>5
  <2> QED BY <2>9, <2>10, <2>11
<1>12. r \in EndedUnits'[b] /\ r[2] = plan.units[b][k]
  <2>1. EndedUnits = [c \in Range(Buckets) |-> EndedUnits[c]]
    BY DEF EndedUnits
  <2>2. r[2] = u
    OBVIOUS
  <2> QED BY <1>2, <1>11, <2>1, <2>2
<1> HIDE DEF r, u
<1>13. Promise!RunUnit(b, k)
  BY <1>1, <1>5, <1>6, <1>8, <1>9, <1>11, <1>12 DEF Promise!RunUnit
<1> QED BY <1>2, <1>3, <1>13

(* The checkpoint is complete again: a verdict that the child runs earned,   *)
(* or a run that goes on.                                                    *)
LEMMA PromiseWrites ==
  ASSUME SweepInv, ResumeInv, NEW o \in Orchs, WriteCheckpoint(o)
  PROVE  Promise!Reopen \/ \E v \in Promise!Outcomes : Promise!Report(v)
<1>1. /\ orch[o].at = "write" /\ checkpoint' = orch[o].run /\ torn' = FALSE
      /\ UNCHANGED <<plan, child>> /\ plan \in Plans
  BY DEF WriteCheckpoint, SweepInv, SweepTypeOK
<1>2. EndedUnits' = EndedUnits
  BY <1>1 DEF EndedUnits
<1>3. CASE orch[o].run.state # "completed"
  <2>1. Verdict' = "none"
    BY <1>1, <1>3 DEF Verdict
  <2> QED BY <1>1, <1>2, <2>1 DEF Promise!Reopen
<1>4. CASE orch[o].run.state = "completed"
  <2> DEFINE v == orch[o].run.status["full_sweep"]
  <2>1. Verdict' = v
    BY <1>1, <1>4 DEF Verdict
  <2>2. torn /\ Verdict = "none"
    BY <1>1 DEF ResumeInv, Verdict
  <2>3. Covers(orch[o].run)
    <3>1. Local(orch[o]) /\ orch[o].pos \in Nat
      BY DEF SweepInv, SweepTypeOK, Controls
    <3> QED BY <1>4, <3>1, Names DEF Local, Placed
  <2>4. v \in Promise!Outcomes
    BY <2>3 DEF Covers, Final, Verdicts, Promise!Outcomes
  <2>5. Promise!Earned(v)
    <3> SUFFICES ASSUME v \in {"succeeded", "partial"}, NEW b \in Range(Buckets),
                        ~(Promise!Beyond(b) /\ v = "partial"),
                        NEW i \in DOMAIN plan.units[b]
                 PROVE  plan.units[b][i] \in Promise!Ended(b)
      BY DEF Promise!Earned
    <3>1. Covered(b)
      BY <2>3 DEF Covers, Gated, Promise!Beyond
    <3>2. Ran(b, plan.units[b][i])
      BY <1>1, <3>1, UnitNames DEF Covered
    <3> QED BY <1>1, <3>2, UnitNames, EndedAreRan
  <2> HIDE DEF v
  <2>6. Promise!Report(v)
    BY <1>1, <1>2, <2>1, <2>2, <2>5 DEF Promise!Report
  <2> QED BY <2>4, <2>6
<1> QED BY <1>3, <1>4

LEMMA PromiseStep ==
  ASSUME SweepInv, ResumeInv, RerunInv, [SweepNext]_sweepVars
  PROVE  [Promise!PromiseNext]_Promise!promiseVars
<1> SUFFICES Promise!PromiseNext \/ UNCHANGED <<plan, EndedUnits, Verdict>>
  BY DEF Promise!promiseVars
<1>1. ASSUME NEW o \in Orchs, OrchStep(o)
      PROVE  Promise!PromiseNext \/ UNCHANGED <<plan, EndedUnits, Verdict>>
  <2>1. CASE Truncate(o)
    <3>1. UNCHANGED <<plan, EndedUnits>> /\ Verdict' = "none"
      BY <2>1 DEF Truncate, EndedUnits, Verdict
    <3> QED BY <3>1 DEF Promise!PromiseNext, Promise!Reopen
  <2>2. CASE WriteCheckpoint(o)
    BY <2>2, PromiseWrites DEF Promise!PromiseNext
  <2>3. CASE StartChild(o)
    BY <2>3, PromiseStartsChild
  <2>4. CASE \E v \in Results : EndUnit(o, v)
    BY <2>4, PromiseRunsUnit DEF Promise!PromiseNext
  <2> QED BY <1>1, <2>1, <2>2, <2>3, <2>4, PromiseQuietSteps
<1>2. ASSUME NEW o \in Orchs, Abort(o) \/ Kill(o) PROVE UNCHANGED <<plan, EndedUnits, Verdict>>
  <2>1. UNCHANGED <<plan, child, checkpoint, torn>>
    BY <1>2 DEF Abort, Kill
  <2> QED BY <2>1, PromiseUntouched
<1>3. CASE WatcherStep
  <2>1. UNCHANGED <<plan, child, checkpoint, torn>>
    BY <1>3 DEF WatcherStep, WatcherReads, WatcherJudges, WatcherReturns
  <2> QED BY <2>1, PromiseUntouched
<1>4. CASE UNCHANGED sweepVars
  BY <1>4, PromiseUntouched DEF sweepVars
<1> QED BY <1>1, <1>2, <1>3, <1>4 DEF SweepNext

LEMMA PromiseBegins ==
  ASSUME SweepInit
  PROVE  Promise!PromiseInit
<1>1. child = {} /\ torn = TRUE /\ plan \in Plans
  BY DEF SweepInit
<1>2. \A b : {<<e[2], e[3]>> : e \in {x \in child : x[1] = b /\ x[3] # "run_start"}} = {}
  BY <1>1
<1>3. EndedUnits = [b \in Range(Buckets) |-> {}]
  BY <1>2 DEF EndedUnits
<1> QED BY <1>1, <1>3 DEF Promise!PromiseInit, Verdict

(* Whatever kills, aborts and resumes happen outside the short windows, the  *)
(* sweep does what SweepPromise allows: units run once and in order and only *)
(* where the host can run them, no unit runs while a verdict stands, and a   *)
(* verdict is earned by all that was run (run_benchmark_e2e_sweep).          *)
THEOREM KeepsPromise ==
  ASSUME Windows = {}
  PROVE  SweepSpec => SweepKeepsPromise
<1>1. "bucket" \notin Windows
  OBVIOUS
<1>2. SweepInit => ResumeInv /\ RerunInv /\ Promise!PromiseInit
  BY ResumeInit, RerunInit, PromiseBegins
<1>3. SweepInv /\ ResumeInv /\ RerunInv /\ [SweepNext]_sweepVars => ResumeInv' /\ RerunInv'
  BY ResumeStep, RerunStep
<1>4. SweepInv /\ ResumeInv /\ RerunInv /\ [SweepNext]_sweepVars
        => [Promise!PromiseNext]_Promise!promiseVars
  BY PromiseStep
<1> QED BY <1>1, <1>2, <1>3, <1>4, SweepInvariant, PTL
        DEF SweepSpec, SweepKeepsPromise, Promise!PromiseSpec
=============================================================================
