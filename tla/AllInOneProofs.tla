--------------------------- MODULE AllInOneProofs ---------------------------
(* The three-stage pipeline implements the dedupe contract for any number of *)
(* rows, keys and workers, any queue size and retry limits, with and without *)
(* a deadline, and whichever way asyncio.wait_for treats a cancellation.     *)
EXTENDS AllInOne, SequenceTheorems, FiniteSetTheorems, TLAPS

Slots == Items \cup {None}
Once(q) == \A m, n \in DOMAIN q : q[m] = q[n] /\ q[m] # None => m = n

(* A row is in one place: not produced yet, in the input queue, with one     *)
(* worker, or in one of the later queues.                                    *)
PlaceInv ==
  /\ Once(inQ) /\ Once(abQ) /\ Once(bcQ)
  /\ \A w \in Workers : task[w].item = None <=> task[w].at \in {"get", "ended"}
  /\ \A w, v \in Workers : task[w].item = task[v].item /\ task[w].item # None => w = v
  /\ Elements(abQ) \cap Elements(bcQ) = {}
  /\ Held(Workers) \cap (Elements(abQ) \cup Elements(bcQ)) = {}
  /\ Elements(inQ) \cap Owners = {}
  /\ Elements(inQ) \cup Owners \subseteq 1..produced

(* Where run_pipeline is tells which tasks are over. *)
ControlInv ==
  /\ main \in {"endB", "joinB", "endC", "joinC"} => Gone(AWorkers)
  /\ main \in {"endC", "joinC"} => Gone(BWorkers)
  /\ main = "done" => Gone(Workers)
  /\ producing => main = "produce"
  /\ \A w \in cancelling : task[w].at # "ended"
  /\ cancelling # {} => stopEvent

(* The key sets and the results tell the same story as the places. *)
Applied == {i \in Items : result[i] = "success"}
KeysOf(S) == {KeyOf[i] : i \in S}

AheadInv == main # "done" => \A i \in Items : i > produced => result[i] = "none"
FlightInv ==
  /\ \A i \in Elements(inQ) \cup Owners : result[i] = "none"
  /\ \A i, j \in Owners : KeyOf[i] = KeyOf[j] => i = j
  /\ \A i \in Owners, j \in Applied : KeyOf[i] # KeyOf[j]
SetsInv ==
  /\ completed = KeysOf(Applied)
  /\ ~stopEvent /\ main # "done" => inProgress = KeysOf(Owners)

KeyInv == AheadInv /\ FlightInv /\ SetsInv

PipeInv == PipeTypeOK /\ PlaceInv /\ ControlInv /\ KeyInv

(* Where nothing is placed or taken. *)
SameQueues == UNCHANGED <<inQ, abQ, bcQ>>

USE DEF pipeVars, keyVars, mainVars

LEMMA NoneIsNoItem == None \notin Items
BY DEF None, Items

(* What get() and put() do to the rows of a queue. *)
LEMMA TailElements ==
  ASSUME NEW q \in Seq(Slots), q # <<>>, Once(q)
  PROVE  /\ Head(q) \in Slots /\ Tail(q) \in Seq(Slots)
         /\ Elements(Tail(q)) = Elements(q) \ {Head(q)}
         /\ Head(q) # None => Head(q) \in Elements(q)
         /\ Once(Tail(q))
<1>1. /\ Tail(q) \in Seq(Slots)
      /\ Len(q) \in Nat /\ Len(q) >= 1
      /\ DOMAIN q = 1..Len(q) /\ DOMAIN Tail(q) = 1..Len(Tail(q))
      /\ Len(Tail(q)) = Len(q) - 1
      /\ \A i \in 1..Len(Tail(q)) : Tail(q)[i] = q[i + 1]
      /\ Head(q) = q[1]
      /\ Head(q) \in Slots
  BY HeadTailProperties, LenProperties, EmptySeq
<1>2. Head(q) # None => Head(q) \in Elements(q)
  BY <1>1 DEF Elements
<1>3. Elements(Tail(q)) \subseteq Elements(q) \ {Head(q)}
  BY <1>1 DEF Elements, Once
<1>4. Elements(q) \ {Head(q)} \subseteq Elements(Tail(q))
  <2> SUFFICES ASSUME NEW n \in 1..Len(q), n # 1, q[n] # None
               PROVE  q[n] \in Elements(Tail(q))
    BY <1>1 DEF Elements
  <2>1. n - 1 \in 1..Len(Tail(q)) /\ Tail(q)[n - 1] = q[n]
    BY <1>1
  <2> QED BY <1>1, <2>1 DEF Elements
<1>5. Once(Tail(q))
  BY <1>1 DEF Once
<1> QED BY <1>1, <1>2, <1>3, <1>4, <1>5

LEMMA AppendElements ==
  ASSUME NEW q \in Seq(Slots), NEW x \in Slots, Once(q), x \notin Elements(q)
  PROVE  /\ Append(q, x) \in Seq(Slots)
         /\ Elements(Append(q, x)) = (Elements(q) \cup {x}) \ {None}
         /\ Once(Append(q, x))
<1> DEFINE p == Append(q, x)
<1>1. /\ p \in Seq(Slots)
      /\ Len(q) \in Nat /\ Len(p) = Len(q) + 1
      /\ DOMAIN q = 1..Len(q) /\ DOMAIN p = 1..Len(p)
      /\ \A i \in 1..Len(q) : p[i] = q[i]
      /\ p[Len(q) + 1] = x
  BY AppendProperties, LenProperties
<1> HIDE DEF p
<1>2. Elements(p) \subseteq (Elements(q) \cup {x}) \ {None}
  BY <1>1 DEF Elements
<1>3. (Elements(q) \cup {x}) \ {None} \subseteq Elements(p)
  <2>1. Len(q) + 1 \in DOMAIN p
    BY <1>1
  <2> QED BY <1>1, <2>1 DEF Elements
<1>4. Once(p)
  BY <1>1 DEF Once, Elements
<1> QED BY <1>1, <1>2, <1>3, <1>4 DEF p

LEMMA NoElements == Elements(<<>>) = {} /\ Once(<<>>) /\ <<>> \in Seq(Slots)
BY EmptySeq DEF Elements, Once

(* What a worker holds after a step that only it takes part in. *)
LEMMA HeldAfter ==
  ASSUME PipeTypeOK, PlaceInv, NEW w \in Workers, NEW t \in TaskState,
         task' = [task EXCEPT ![w] = t]
  PROVE  /\ task' \in [Workers -> TaskState]
         /\ Held(Workers)' = (Held(Workers) \ {task[w].item}) \cup ({t.item} \ {None})
         /\ \A v \in Workers : v # w => task'[v] = task[v]
         /\ task'[w] = t
<1>1. /\ task' \in [Workers -> TaskState]
      /\ \A v \in Workers : v # w => task'[v] = task[v]
      /\ task'[w] = t
  BY DEF PipeTypeOK
<1>2. Held(Workers)' \subseteq (Held(Workers) \ {task[w].item}) \cup ({t.item} \ {None})
  BY <1>1 DEF Held, PlaceInv
<1>3. (Held(Workers) \ {task[w].item}) \cup ({t.item} \ {None}) \subseteq Held(Workers)'
  BY <1>1 DEF Held
<1> QED BY <1>1, <1>2, <1>3

Consistent(t) == t.item = None <=> t.at \in {"get", "ended"}

(* A worker moves on with its item, or lets go of it. *)
LEMMA HoldMove ==
  ASSUME PipeTypeOK, PlaceInv, NEW w \in Workers, NEW t \in TaskState, Consistent(t),
         task' = [task EXCEPT ![w] = t], t.item \in {task[w].item, None},
         SameQueues, UNCHANGED produced
  PROVE  /\ PlaceInv'
         /\ Owners' = IF t.item = None THEN Owners \ {task[w].item} ELSE Owners
<1>1. Held(Workers)' = (Held(Workers) \ {task[w].item}) \cup ({t.item} \ {None})
  BY HeldAfter
<1>2. task[w].item # None => task[w].item \in Held(Workers)
  BY DEF Held
<1>3. Owners' = IF t.item = None THEN Owners \ {task[w].item} ELSE Owners
  <2>1. Elements(abQ)' = Elements(abQ) /\ Elements(bcQ)' = Elements(bcQ)
    BY DEF SameQueues
  <2>2. None \notin Owners
    BY DEF Owners, Held, Elements
  <2>3. task[w].item \notin Elements(abQ) \cup Elements(bcQ)
    BY <1>2, <2>2 DEF PlaceInv, Owners
  <2>4. CASE t.item = None
    BY <1>1, <2>1, <2>3, <2>4 DEF Owners
  <2>5. CASE t.item # None
    BY <1>1, <1>2, <2>1, <2>5 DEF Owners
  <2> QED BY <2>4, <2>5
<1>4. /\ \A v \in Workers : v # w => task'[v] = task[v]
      /\ task'[w] = t
  BY HeldAfter
<1>5. /\ \A v \in Workers : task'[v].item = None <=> task'[v].at \in {"get", "ended"}
      /\ \A v, u \in Workers :
           task'[v].item = task'[u].item /\ task'[v].item # None => v = u
  BY <1>4 DEF PlaceInv, Consistent
<1>6. Held(Workers)' \subseteq Held(Workers)
  BY <1>1, <1>2
<1> QED BY <1>3, <1>5, <1>6 DEF PlaceInv, SameQueues, Owners

(* A worker takes an item from a queue. *)
LEMMA TakeMove ==
  ASSUME PipeTypeOK, PlaceInv, NEW w \in Workers, NEW t \in TaskState, Consistent(t),
         task[w].item = None, task' = [task EXCEPT ![w] = t], t.item # None,
         UNCHANGED produced,
         \/ inQ # <<>> /\ t.item = Head(inQ) /\ inQ' = Tail(inQ) /\ UNCHANGED <<abQ, bcQ>>
         \/ abQ # <<>> /\ t.item = Head(abQ) /\ abQ' = Tail(abQ) /\ UNCHANGED <<inQ, bcQ>>
         \/ bcQ # <<>> /\ t.item = Head(bcQ) /\ bcQ' = Tail(bcQ) /\ UNCHANGED <<inQ, abQ>>
  PROVE  PlaceInv' /\ Owners' = Owners \cup {t.item}
                   /\ Elements(inQ)' = Elements(inQ) \ {t.item}
<1>1. Held(Workers)' = Held(Workers) \cup {t.item}
  <2>1. None \notin Held(Workers)
    BY DEF Held
  <2> QED BY <2>1, HeldAfter
<1>2. /\ \A v \in Workers : v # w => task'[v] = task[v]
      /\ task'[w] = t
  BY HeldAfter
<1>3. inQ \in Seq(Slots) /\ abQ \in Seq(Slots) /\ bcQ \in Seq(Slots)
  BY DEF PipeTypeOK, Slots
<1>4. t.item \notin Held(Workers)
  BY <1>3, TailElements DEF PlaceInv, Owners
<1>5. /\ \A v \in Workers : task'[v].item = None <=> task'[v].at \in {"get", "ended"}
      /\ \A v, u \in Workers :
           task'[v].item = task'[u].item /\ task'[v].item # None => v = u
  BY <1>2, <1>4 DEF PlaceInv, Consistent, Held
<1>6. CASE inQ # <<>> /\ t.item = Head(inQ) /\ inQ' = Tail(inQ) /\ UNCHANGED <<abQ, bcQ>>
  <2>1. /\ Elements(inQ)' = Elements(inQ) \ {t.item} /\ Once(inQ)'
        /\ t.item \in Elements(inQ)
    BY <1>3, <1>6, TailElements DEF PlaceInv
  <2> QED BY <1>1, <1>5, <1>6, <2>1 DEF PlaceInv, Owners
<1>7. CASE abQ # <<>> /\ t.item = Head(abQ) /\ abQ' = Tail(abQ) /\ UNCHANGED <<inQ, bcQ>>
  <2>1. /\ Elements(abQ)' = Elements(abQ) \ {t.item} /\ Once(abQ)'
        /\ t.item \in Elements(abQ)
    BY <1>3, <1>7, TailElements DEF PlaceInv
  <2> QED BY <1>1, <1>5, <1>7, <2>1 DEF PlaceInv, Owners
<1>8. CASE bcQ # <<>> /\ t.item = Head(bcQ) /\ bcQ' = Tail(bcQ) /\ UNCHANGED <<inQ, abQ>>
  <2>1. /\ Elements(bcQ)' = Elements(bcQ) \ {t.item} /\ Once(bcQ)'
        /\ t.item \in Elements(bcQ)
    BY <1>3, <1>8, TailElements DEF PlaceInv
  <2> QED BY <1>1, <1>5, <1>8, <2>1 DEF PlaceInv, Owners
<1> QED BY <1>6, <1>7, <1>8

(* A worker hands its item over to the next queue. *)
LEMMA PutMove ==
  ASSUME PipeTypeOK, PlaceInv, NEW w \in Workers, Back(w), task[w].item # None,
         UNCHANGED <<produced, inQ>>,
         \/ abQ' = Append(abQ, task[w].item) /\ UNCHANGED bcQ
         \/ bcQ' = Append(bcQ, task[w].item) /\ UNCHANGED abQ
  PROVE  PlaceInv' /\ Owners' = Owners
<1> DEFINE i == task[w].item
<1>1. Waiting \in TaskState /\ Waiting.item = None /\ Consistent(Waiting)
  BY DEF Waiting, TaskState, None, Consistent
<1>2. Held(Workers)' = Held(Workers) \ {i}
  BY <1>1, HeldAfter DEF Back
<1>3. /\ \A v \in Workers : v # w => task'[v] = task[v]
      /\ task'[w] = Waiting
  BY <1>1, HeldAfter DEF Back
<1>4. abQ \in Seq(Slots) /\ bcQ \in Seq(Slots)
  BY DEF PipeTypeOK, Slots
<1>5. i \in Held(Workers) /\ i \in Slots
  BY DEF Held, PipeTypeOK, TaskState, Slots
<1>6. /\ \A v \in Workers : task'[v].item = None <=> task'[v].at \in {"get", "ended"}
      /\ \A v, u \in Workers :
           task'[v].item = task'[u].item /\ task'[v].item # None => v = u
  BY <1>1, <1>3 DEF PlaceInv, Consistent
<1>7. None \notin Elements(abQ) /\ None \notin Elements(bcQ)
  BY DEF Elements
<1>8. CASE abQ' = Append(abQ, i) /\ UNCHANGED bcQ
  <2>1. Elements(abQ)' = Elements(abQ) \cup {i} /\ Once(abQ)'
    BY <1>4, <1>5, <1>7, <1>8, AppendElements DEF PlaceInv
  <2> QED BY <1>2, <1>5, <1>6, <1>8, <2>1 DEF PlaceInv, Owners
<1>9. CASE bcQ' = Append(bcQ, i) /\ UNCHANGED abQ
  <2>1. Elements(bcQ)' = Elements(bcQ) \cup {i} /\ Once(bcQ)'
    BY <1>4, <1>5, <1>7, <1>9, AppendElements DEF PlaceInv
  <2> QED BY <1>2, <1>5, <1>6, <1>9, <2>1 DEF PlaceInv, Owners
<1> QED BY <1>8, <1>9

SameItems ==
  \A v \in Workers : /\ task'[v].item = task[v].item
                     /\ task'[v].at \in {"get", "ended"} <=> task[v].at \in {"get", "ended"}

(* A sentinel, or a row that ends on the way, leaves a queue. *)
LEMMA PopMove ==
  ASSUME PipeTypeOK, PlaceInv, SameItems, UNCHANGED produced,
         NEW x,
         \/ inQ # <<>> /\ x = Head(inQ) /\ inQ' = Tail(inQ) /\ UNCHANGED <<abQ, bcQ>>
         \/ abQ # <<>> /\ x = Head(abQ) /\ abQ' = Tail(abQ) /\ UNCHANGED <<inQ, bcQ>>
         \/ bcQ # <<>> /\ x = Head(bcQ) /\ bcQ' = Tail(bcQ) /\ UNCHANGED <<inQ, abQ>>
  PROVE  PlaceInv' /\ Owners' = Owners \ {x} /\ Elements(inQ)' = Elements(inQ) \ {x}
<1>1. inQ \in Seq(Slots) /\ abQ \in Seq(Slots) /\ bcQ \in Seq(Slots)
  BY DEF PipeTypeOK, Slots
<1>2. Held(Workers)' = Held(Workers)
  BY DEF SameItems, Held
<1>3. /\ \A v \in Workers : task'[v].item = None <=> task'[v].at \in {"get", "ended"}
      /\ \A v, u \in Workers :
           task'[v].item = task'[u].item /\ task'[v].item # None => v = u
  BY DEF SameItems, PlaceInv
<1>4. None \notin Owners /\ None \notin Elements(inQ)
  BY DEF Owners, Held, Elements
<1>5. CASE inQ # <<>> /\ x = Head(inQ) /\ inQ' = Tail(inQ) /\ UNCHANGED <<abQ, bcQ>>
  <2>1. /\ Elements(inQ)' = Elements(inQ) \ {x} /\ Once(inQ)'
        /\ x # None => x \in Elements(inQ)
    BY <1>1, <1>5, TailElements DEF PlaceInv
  <2> QED BY <1>2, <1>3, <1>4, <1>5, <2>1 DEF PlaceInv, Owners
<1>6. CASE abQ # <<>> /\ x = Head(abQ) /\ abQ' = Tail(abQ) /\ UNCHANGED <<inQ, bcQ>>
  <2>1. /\ Elements(abQ)' = Elements(abQ) \ {x} /\ Once(abQ)'
        /\ x # None => x \in Elements(abQ)
    BY <1>1, <1>6, TailElements DEF PlaceInv
  <2> QED BY <1>2, <1>3, <1>4, <1>6, <2>1 DEF PlaceInv, Owners
<1>7. CASE bcQ # <<>> /\ x = Head(bcQ) /\ bcQ' = Tail(bcQ) /\ UNCHANGED <<inQ, abQ>>
  <2>1. /\ Elements(bcQ)' = Elements(bcQ) \ {x} /\ Once(bcQ)'
        /\ x # None => x \in Elements(bcQ)
    BY <1>1, <1>7, TailElements DEF PlaceInv
  <2> QED BY <1>2, <1>3, <1>4, <1>7, <2>1 DEF PlaceInv, Owners
<1> QED BY <1>5, <1>6, <1>7

(* run_pipeline puts a sentinel, the producer puts a row or a sentinel. *)
LEMMA PushMove ==
  ASSUME PipeTypeOK, PlaceInv, UNCHANGED task, NEW x \in Slots,
         \/ abQ' = Append(abQ, None) /\ UNCHANGED <<inQ, bcQ, produced>> /\ x = None
         \/ bcQ' = Append(bcQ, None) /\ UNCHANGED <<inQ, abQ, produced>> /\ x = None
         \/ /\ inQ' = Append(inQ, x) /\ UNCHANGED <<abQ, bcQ>>
            /\ produced' = produced + 1 /\ x \in {None, produced + 1}
  PROVE  PlaceInv' /\ Owners' = Owners /\ Elements(inQ)' = (Elements(inQ) \cup {x}) \ {None}
<1>1. /\ inQ \in Seq(Slots) /\ abQ \in Seq(Slots) /\ bcQ \in Seq(Slots)
      /\ None \in Slots /\ produced \in Nat
  BY DEF PipeTypeOK, Slots
<1>2. Held(Workers)' = Held(Workers)
  BY DEF Held
<1>3. None \notin Elements(inQ) /\ None \notin Elements(abQ) /\ None \notin Elements(bcQ)
  BY DEF Elements
<1>4. CASE abQ' = Append(abQ, None) /\ UNCHANGED <<inQ, bcQ, produced>> /\ x = None
  <2>1. Elements(abQ)' = Elements(abQ) /\ Once(abQ)'
    <3>1. /\ Elements(Append(abQ, None)) = (Elements(abQ) \cup {None}) \ {None}
          /\ Once(Append(abQ, None))
      BY <1>1, <1>3, AppendElements DEF PlaceInv
    <3>2. abQ' = Append(abQ, None)
      BY <1>4
    <3> QED BY <1>3, <3>1, <3>2
  <2> QED BY <1>2, <1>3, <1>4, <2>1 DEF PlaceInv, Owners
<1>5. CASE bcQ' = Append(bcQ, None) /\ UNCHANGED <<inQ, abQ, produced>> /\ x = None
  <2>1. Elements(bcQ)' = Elements(bcQ) /\ Once(bcQ)'
    <3>1. /\ Elements(Append(bcQ, None)) = (Elements(bcQ) \cup {None}) \ {None}
          /\ Once(Append(bcQ, None))
      BY <1>1, <1>3, AppendElements DEF PlaceInv
    <3>2. bcQ' = Append(bcQ, None)
      BY <1>5
    <3> QED BY <1>3, <3>1, <3>2
  <2> QED BY <1>2, <1>3, <1>5, <2>1 DEF PlaceInv, Owners
<1>6. CASE /\ inQ' = Append(inQ, x) /\ UNCHANGED <<abQ, bcQ>>
           /\ produced' = produced + 1 /\ x \in {None, produced + 1}
  <2>0. None \notin Owners
    BY <1>3 DEF Owners, Held
  <2>1. x \notin Elements(inQ) /\ x \notin Owners
    <3>1. produced + 1 \notin Elements(inQ) \cup Owners
      BY <1>1 DEF PlaceInv
    <3> QED BY <1>3, <1>6, <2>0, <3>1
  <2>2. Elements(inQ)' = (Elements(inQ) \cup {x}) \ {None} /\ Once(inQ)'
    <3>1. /\ Elements(Append(inQ, x)) = (Elements(inQ) \cup {x}) \ {None}
          /\ Once(Append(inQ, x))
      BY <1>1, <2>1, AppendElements DEF PlaceInv
    <3>2. inQ' = Append(inQ, x)
      BY <1>6
    <3> QED BY <3>1, <3>2
  <2>3. Owners' = Owners
    BY <1>2, <1>6 DEF Owners
  <2>4. (Elements(inQ) \cup Owners)' \subseteq 1..produced'
    <3>1. 1..produced \cup {produced + 1} \subseteq 1..(produced + 1)
      BY <1>1
    <3>2. Elements(inQ)' \subseteq Elements(inQ) \cup {produced + 1}
      BY <1>6, <2>2
    <3> QED BY <1>6, <2>3, <3>1, <3>2 DEF PlaceInv
  <2> QED BY <1>2, <1>6, <2>1, <2>2, <2>3, <2>4 DEF PlaceInv
<1> QED BY <1>4, <1>5, <1>6

-----------------------------------------------------------------------------
(* Types and control *)

LEMMA WorkersOfStages == AWorkers \subseteq Workers /\ BWorkers \subseteq Workers /\ CWorkers \subseteq Workers
BY DEF Workers

(* A row and a task state the queues and the workers can show. *)
LEMMA TypedStates ==
  ASSUME PipeTypeOK
  PROVE  /\ Waiting \in TaskState /\ Ended \in TaskState
         /\ \A w \in Workers : task[w] \in TaskState
         /\ \A i \in Items, at \in {"admit", "call"} :
              [at |-> at, item |-> i, tries |-> 0] \in TaskState
         /\ \A w \in Workers, at \in {"admit", "call", "put"} :
              [task[w] EXCEPT !.at = at] \in TaskState
         /\ \A w \in Workers :
              [task[w] EXCEPT !.at = "admit", !.tries = @ + 1] \in TaskState
<1>1. Waiting \in TaskState /\ Ended \in TaskState
  BY DEF TaskState, Waiting, Ended
<1>2. \A w \in Workers : task[w] \in TaskState
  BY DEF PipeTypeOK
<1>3. \A i \in Items, at \in {"admit", "call"} :
        [at |-> at, item |-> i, tries |-> 0] \in TaskState
  BY DEF TaskState
<1>4. ASSUME NEW t \in TaskState
      PROVE  /\ \A at \in {"admit", "call", "put"} : [t EXCEPT !.at = at] \in TaskState
             /\ [t EXCEPT !.at = "admit", !.tries = @ + 1] \in TaskState
  <2>1. t.item \in Items \cup {None} /\ t.tries + 1 \in Nat
    BY DEF TaskState
  <2> QED BY <2>1 DEF TaskState
<1> QED BY <1>1, <1>2, <1>3, <1>4

(* Heads of queues are rows or sentinels. *)
LEMMA TypedQueues ==
  ASSUME PipeTypeOK
  PROVE  /\ inQ # <<>> => Head(inQ) \in Slots /\ Tail(inQ) \in Seq(Slots)
         /\ abQ # <<>> => Head(abQ) \in Slots /\ Tail(abQ) \in Seq(Slots)
         /\ bcQ # <<>> => Head(bcQ) \in Slots /\ Tail(bcQ) \in Seq(Slots)
         /\ \A x \in Slots : /\ Append(inQ, x) \in Seq(Slots)
                             /\ Append(abQ, x) \in Seq(Slots)
                             /\ Append(bcQ, x) \in Seq(Slots)
<1>1. inQ \in Seq(Slots) /\ abQ \in Seq(Slots) /\ bcQ \in Seq(Slots)
  BY DEF PipeTypeOK, Slots
<1>2. ASSUME NEW q \in Seq(Slots)
      PROVE  /\ q # <<>> => Head(q) \in Slots /\ Tail(q) \in Seq(Slots)
             /\ \A x \in Slots : Append(q, x) \in Seq(Slots)
  BY HeadTailProperties, AppendProperties
<1> QED BY <1>1, <1>2

(* Recording and releasing keep the types of results and keys. *)
LEMMA TypedRecords ==
  ASSUME PipeTypeOK, NEW i \in Items, NEW s \in Status, NEW mark \in BOOLEAN
  PROVE  /\ Record(i, s) => result' \in [Items -> Status]
         /\ ReleaseKey(i, mark) => inProgress' \in SUBSET Keys /\ completed' \in SUBSET Keys
         /\ KeyOf[i] \in Keys
BY AllInOneAssumption DEF PipeTypeOK, Record, ReleaseKey

-----------------------------------------------------------------------------
(* What a step does to the rows, whichever task takes it *)

Quiet ==
  /\ UNCHANGED <<result, keyVars>> /\ Owners' = Owners
  /\ Elements(inQ)' \subseteq Elements(inQ) \cup {i \in Items : i > produced}
  /\ Elements(inQ) \subseteq Elements(inQ)'
  /\ produced' # produced => produced' \in Elements(inQ)' \/ produced' \notin Items

Claims(i) ==
  /\ i \in Elements(inQ) /\ ~stopEvent /\ ~Suppressed(i)
  /\ Owners' = Owners \cup {i} /\ Elements(inQ)' = Elements(inQ) \ {i}
  /\ inProgress' = inProgress \cup {KeyOf[i]} /\ UNCHANGED <<result, completed>>

Skips(i, s) ==
  /\ i \in Elements(inQ)
  /\ s = "cancelled" \/ (s = "deduped" /\ ~stopEvent /\ Suppressed(i))
  /\ Owners' = Owners /\ Elements(inQ)' = Elements(inQ) \ {i}
  /\ Record(i, s) /\ UNCHANGED keyVars

Ends(i, s) ==
  /\ i \in Owners /\ s \in {"success", "failed", "cancelled"}
  /\ Owners' = Owners \ {i} /\ Elements(inQ)' = Elements(inQ)
  /\ Record(i, s) /\ ReleaseKey(i, s = "success")

Abandons(i) ==
  /\ i \in Owners /\ stopEvent
  /\ Owners' = Owners \ {i} /\ Elements(inQ)' = Elements(inQ)
  /\ UNCHANGED <<result, keyVars>>

Effect ==
  \/ Quiet
  \/ \E i \in Items : \/ Claims(i) \/ Abandons(i)
                      \/ \E s \in Status : Skips(i, s) \/ Ends(i, s)
  \/ Reconcile /\ Owners' = {} /\ Elements(inQ)' = {}

Good == PipeTypeOK' /\ PlaceInv' /\ Effect

(* A worker that finishes its item: the record, the release and the end of   *)
(* ownership are one step.                                                   *)
LEMMA FinishGood ==
  ASSUME PipeTypeOK, PlaceInv, NEW w \in Workers, task[w].item \in Items,
         NEW s \in {"success", "failed", "cancelled"}, Finish(w, s),
         SameQueues, UNCHANGED <<swallows, mainVars>>, cancelling' \in SUBSET Workers
  PROVE  Good
<1>1. Waiting \in TaskState /\ Waiting.item = None /\ Consistent(Waiting)
  BY TypedStates DEF Waiting, Consistent
<1>2. task' = [task EXCEPT ![w] = Waiting]
  BY DEF Finish, Back
<1>3. PlaceInv' /\ Owners' = Owners \ {task[w].item}
  BY <1>1, <1>2, HoldMove
<1>4. PipeTypeOK'
  <2>1. s \in Status /\ (s = "success") \in BOOLEAN
    BY DEF Status
  <2>2. /\ result' \in [Items -> Status]
        /\ inProgress' \in SUBSET Keys /\ completed' \in SUBSET Keys
    BY <2>1, TypedRecords DEF Finish
  <2>3. task' \in [Workers -> TaskState]
    BY <1>1, <1>2, HeldAfter
  <2> QED BY <2>2, <2>3 DEF PipeTypeOK, SameQueues
<1>5. Ends(task[w].item, s)
  <2>1. task[w].item \in Owners
    BY NoneIsNoItem DEF Owners, Held
  <2>2. Elements(inQ)' = Elements(inQ)
    BY DEF SameQueues
  <2> QED BY <1>3, <2>1, <2>2 DEF Ends, Finish
<1> QED BY <1>3, <1>4, <1>5 DEF Good, Effect, Status

(* A worker moves on with its item, nobody else notices. *)
LEMMA MoveGood ==
  ASSUME PipeTypeOK, PlaceInv, NEW w \in Workers, NEW t \in TaskState,
         task' = [task EXCEPT ![w] = t], t.item = task[w].item, Consistent(t),
         SameQueues, UNCHANGED <<swallows, mainVars, result, keyVars>>,
         cancelling' \in SUBSET Workers
  PROVE  Good
<1>1. PlaceInv' /\ Owners' = Owners
  <2>1. None \notin Owners
    BY DEF Owners, Held, Elements
  <2>2. t.item \in {task[w].item, None} /\ UNCHANGED produced
    OBVIOUS
  <2>3. PlaceInv' /\ Owners' = IF t.item = None THEN Owners \ {task[w].item} ELSE Owners
    BY <2>2, HoldMove
  <2> QED BY <2>1, <2>3
<1>2. PipeTypeOK'
  BY HeldAfter DEF PipeTypeOK, SameQueues
<1>3. Quiet
  <2>1. Elements(inQ)' = Elements(inQ)
    BY DEF SameQueues
  <2> QED BY <1>1, <2>1 DEF Quiet
<1> QED BY <1>1, <1>2, <1>3 DEF Good, Effect

(* The item of a worker that is not waiting in get() is a row. *)
LEMMA BusyItem ==
  ASSUME PipeTypeOK, PlaceInv, NEW w \in Workers, task[w].at \in {"admit", "call", "put"}
  PROVE  task[w].item \in Items /\ task[w].item # None
BY NoneIsNoItem DEF PipeTypeOK, PlaceInv, TaskState

LEMMA AdmitGood ==
  ASSUME PipeTypeOK, PlaceInv, NEW w \in Workers, NEW W, NEW limit, Admit(w, W, limit)
  PROVE  Good
<1>1. task[w].item \in Items /\ task[w].item # None /\ cancelling' \in SUBSET Workers
  BY BusyItem DEF Admit, PipeTypeOK
<1>2. CASE Goto(w, "call") /\ UNCHANGED <<result, keyVars>>
  <2>1. [task[w] EXCEPT !.at = "call"] \in TaskState
    BY TypedStates
  <2>2. /\ [task[w] EXCEPT !.at = "call"].item = task[w].item
        /\ [task[w] EXCEPT !.at = "call"].at = "call"
    BY DEF PipeTypeOK, TaskState
  <2>3. task' = [task EXCEPT ![w] = [task[w] EXCEPT !.at = "call"]]
    BY <1>2 DEF Goto
  <2> QED BY <1>1, <1>2, <2>1, <2>2, <2>3, MoveGood DEF Admit, SameQueues, Consistent
<1>3. CASE Finish(w, "cancelled")
  BY <1>1, <1>3, FinishGood DEF Admit, SameQueues
<1> QED BY <1>2, <1>3 DEF Admit

(* A sentinel ends the worker that takes it from its queue. *)
LEMMA SentinelGood ==
  ASSUME PipeTypeOK, PlaceInv, NEW w \in Workers,
         \/ EndA(w) \/ EndB(w) \/ EndC(w)
  PROVE  Good
<1>1. /\ Free(w) /\ task' = [task EXCEPT ![w] = Ended]
      /\ UNCHANGED <<swallows, mainVars, cancelling, result, keyVars>>
  BY DEF EndA, EndB, EndC, TakeSentinel
<1>2. task[w].item = None /\ task[w].at = "get" /\ Ended \in TaskState
  BY <1>1, TypedStates DEF PlaceInv, Free
<1>3. SameItems /\ task' \in [Workers -> TaskState]
  BY <1>1, <1>2, HeldAfter DEF SameItems, Ended
<1>4. None \notin Owners /\ None \notin Elements(inQ)
  BY DEF Owners, Held, Elements
<1>5. PlaceInv' /\ Owners' = Owners \ {None} /\ Elements(inQ)' = Elements(inQ) \ {None}
  BY <1>1, <1>3, PopMove DEF EndA, EndB, EndC, TakeSentinel
<1>6. PipeTypeOK'
  <2>1. /\ inQ' \in Seq(Slots) /\ abQ' \in Seq(Slots) /\ bcQ' \in Seq(Slots)
    BY TypedQueues DEF EndA, EndB, EndC, TakeSentinel, PipeTypeOK, Slots
  <2> QED BY <1>1, <1>3, <2>1 DEF PipeTypeOK, Slots
<1>7. Quiet
  BY <1>1, <1>4, <1>5 DEF Quiet
<1> QED BY <1>5, <1>6, <1>7 DEF Good, Effect

LEMMA TakeRowGood ==
  ASSUME PipeTypeOK, PlaceInv, NEW w \in Workers, TakeRow(w)
  PROVE  Good
<1> DEFINE i == Head(inQ)
<1>1. /\ inQ # <<>> /\ i # None /\ inQ' = Tail(inQ) /\ UNCHANGED <<abQ, bcQ>>
      /\ Free(w) /\ UNCHANGED <<swallows, mainVars, cancelling>>
  BY DEF TakeRow
<1>2. i \in Items /\ inQ' \in Seq(Slots) /\ i \in Elements(inQ)
  <2>1. inQ \in Seq(Slots) /\ Once(inQ)
    BY DEF PipeTypeOK, PlaceInv, Slots
  <2> QED BY <1>1, <2>1, TailElements DEF Slots
<1>3. task[w].item = None
  BY <1>1 DEF PlaceInv, Free
<1>4. ASSUME NEW s \in {"cancelled", "deduped"}, Record(i, s), UNCHANGED <<task, keyVars>>,
             s = "cancelled" \/ (~stopEvent /\ Suppressed(i))
      PROVE  Good
  <2>1. SameItems
    BY <1>4 DEF SameItems
  <2>2. PlaceInv' /\ Owners' = Owners \ {i} /\ Elements(inQ)' = Elements(inQ) \ {i}
    BY <1>1, <2>1, PopMove
  <2>3. i \notin Owners
    BY <1>2 DEF PlaceInv
  <2>4. Skips(i, s)
    BY <1>2, <1>4, <2>2, <2>3 DEF Skips
  <2>5. PipeTypeOK'
    <3>1. result' \in [Items -> Status]
      BY <1>2, <1>4, TypedRecords DEF Status
    <3> QED BY <1>1, <1>2, <1>4, <3>1 DEF PipeTypeOK, Slots
  <2> QED BY <1>2, <2>2, <2>4, <2>5 DEF Good, Effect, Status
<1>5. ASSUME Start(w, i), ~stopEvent, ~Suppressed(i), UNCHANGED <<result, completed>>,
             inProgress' = inProgress \cup {KeyOf[i]}
      PROVE  Good
  <2> DEFINE t == [at |-> "admit", item |-> i, tries |-> 0]
  <2>1. t \in TaskState /\ t.item = i /\ Consistent(t) /\ task' = [task EXCEPT ![w] = t]
    BY <1>1, <1>2, <1>5, TypedStates DEF Start, Consistent
  <2>2. PlaceInv' /\ Owners' = Owners \cup {i} /\ Elements(inQ)' = Elements(inQ) \ {i}
    BY <1>1, <1>3, <2>1, TakeMove
  <2>3. Claims(i)
    BY <1>2, <1>5, <2>2 DEF Claims
  <2>4. PipeTypeOK'
    <3>1. KeyOf[i] \in Keys
      BY <1>2, AllInOneAssumption
    <3>2. task' \in [Workers -> TaskState]
      BY <2>1, HeldAfter
    <3> QED BY <1>1, <1>2, <1>5, <3>1, <3>2 DEF PipeTypeOK, Slots
  <2> QED BY <1>2, <2>2, <2>3, <2>4 DEF Good, Effect
<1> QED BY <1>4, <1>5 DEF TakeRow

(* An attempt that fails is tried again or ends the item. *)
LEMMA AttemptGood ==
  ASSUME PipeTypeOK, PlaceInv, NEW w \in Workers, NEW o, NEW retries,
         task[w].at = "call", AttemptFails(w, o, retries),
         SameQueues, UNCHANGED <<swallows, mainVars>>, cancelling' \in SUBSET Workers
  PROVE  Good
<1>1. task[w].item \in Items /\ task[w].item # None
  BY BusyItem
<1>2. CASE /\ task' = [task EXCEPT ![w].at = "admit", ![w].tries = @ + 1]
           /\ UNCHANGED <<result, keyVars>>
  <2> DEFINE t == [task[w] EXCEPT !.at = "admit", !.tries = @ + 1]
  <2>1. t \in TaskState
    BY TypedStates
  <2>2. t.item = task[w].item /\ t.at = "admit"
    BY DEF PipeTypeOK, TaskState
  <2>3. task' = [task EXCEPT ![w] = t]
    BY <1>2 DEF PipeTypeOK, TaskState
  <2> HIDE DEF t
  <2> QED BY <1>1, <1>2, <2>1, <2>2, <2>3, MoveGood DEF Consistent
<1>3. CASE Finish(w, "failed")
  BY <1>1, <1>3, FinishGood
<1> QED BY <1>2, <1>3 DEF AttemptFails

(* A call that succeeds in stage A or B: the worker turns to its hand-over.  *)
LEMMA GotoPutGood ==
  ASSUME PipeTypeOK, PlaceInv, NEW w \in Workers, task[w].at = "call", Goto(w, "put"),
         SameQueues, UNCHANGED <<swallows, mainVars, result, keyVars>>,
         cancelling' \in SUBSET Workers
  PROVE  Good
<1> DEFINE t == [task[w] EXCEPT !.at = "put"]
<1>1. t \in TaskState
  BY TypedStates
<1>2. t.item = task[w].item /\ t.at = "put" /\ task[w].item # None
  BY BusyItem DEF PipeTypeOK, TaskState
<1>3. task' = [task EXCEPT ![w] = t]
  BY DEF Goto
<1> HIDE DEF t
<1> QED BY <1>1, <1>2, <1>3, MoveGood DEF Consistent

LEMMA ReturnsGood ==
  ASSUME PipeTypeOK, PlaceInv, NEW w \in Workers, NEW o,
         \/ FetchReturns(w, o) \/ TransformReturns(w, o) \/ WriteReturns(w, o)
  PROVE  Good
<1>1. /\ task[w].at = "call" /\ cancelling' \in SUBSET Workers
      /\ SameQueues /\ UNCHANGED <<swallows, mainVars>>
  BY DEF FetchReturns, TransformReturns, WriteReturns, Returns, SameQueues, PipeTypeOK
<1>2. task[w].item \in Items /\ task[w].item # None
  BY <1>1, BusyItem
<1>3. CASE FetchReturns(w, o)
  BY <1>1, <1>3, AttemptGood, GotoPutGood DEF FetchReturns
<1>4. CASE TransformReturns(w, o)
  BY <1>1, <1>2, <1>4, FinishGood, GotoPutGood DEF TransformReturns
<1>5. CASE WriteReturns(w, o)
  BY <1>1, <1>2, <1>5, AttemptGood, FinishGood DEF WriteReturns
<1> QED BY <1>3, <1>4, <1>5

LEMMA ForwardGood ==
  ASSUME PipeTypeOK, PlaceInv, NEW w \in Workers, ForwardA(w) \/ ForwardB(w)
  PROVE  Good
<1>1. /\ Back(w) /\ UNCHANGED <<swallows, mainVars, inQ, cancelling, result, keyVars>>
      /\ task[w].at = "put"
  BY DEF ForwardA, ForwardB
<1>2. task[w].item \in Items /\ task[w].item # None
  BY <1>1, BusyItem
<1>3. PlaceInv' /\ Owners' = Owners
  BY <1>1, <1>2, PutMove DEF ForwardA, ForwardB
<1>4. PipeTypeOK'
  <2>1. abQ' \in Seq(Slots) /\ bcQ' \in Seq(Slots)
    BY <1>2, TypedQueues DEF ForwardA, ForwardB, PipeTypeOK, Slots
  <2>2. task' \in [Workers -> TaskState]
    BY <1>1, TypedStates, HeldAfter DEF Back
  <2> QED BY <1>1, <2>1, <2>2 DEF PipeTypeOK, Slots
<1>5. Quiet
  <2>1. Elements(inQ)' = Elements(inQ)
    BY <1>1
  <2> QED BY <1>1, <1>3, <2>1 DEF Quiet
<1> QED BY <1>3, <1>4, <1>5 DEF Good, Effect

(* Stages B and C take an item whose key is owned already. *)
LEMMA TakeLaterGood ==
  ASSUME PipeTypeOK, PlaceInv, NEW w \in Workers, NEW i, NEW t \in TaskState,
         t.item = i, Consistent(t), i # None, Free(w),
         task' = [task EXCEPT ![w] = t],
         UNCHANGED <<swallows, mainVars, inQ, cancelling, result, keyVars>>,
         \/ abQ # <<>> /\ i = Head(abQ) /\ abQ' = Tail(abQ) /\ UNCHANGED bcQ
         \/ bcQ # <<>> /\ i = Head(bcQ) /\ bcQ' = Tail(bcQ) /\ UNCHANGED abQ
  PROVE  Good
<1>1. task[w].item = None
  BY DEF PlaceInv, Free
<1>2. /\ PlaceInv' /\ Owners' = Owners \cup {i}
  BY <1>1, TakeMove
<1>3. i \in Owners
  <2>1. abQ \in Seq(Slots) /\ bcQ \in Seq(Slots) /\ Once(abQ) /\ Once(bcQ)
    BY DEF PipeTypeOK, PlaceInv, Slots
  <2> QED BY <2>1, TailElements DEF Owners
<1>4. PipeTypeOK'
  <2>1. abQ' \in Seq(Slots) /\ bcQ' \in Seq(Slots)
    BY TypedQueues DEF PipeTypeOK, Slots
  <2>2. task' \in [Workers -> TaskState]
    BY HeldAfter
  <2> QED BY <2>1, <2>2 DEF PipeTypeOK, Slots
<1>5. Quiet
  <2>1. Elements(inQ)' = Elements(inQ)
    OBVIOUS
  <2> QED BY <1>2, <1>3, <2>1 DEF Quiet
<1> QED BY <1>2, <1>4, <1>5 DEF Good, Effect

LEMMA TakeParsedGood ==
  ASSUME PipeTypeOK, PlaceInv, NEW w \in Workers, TakeParsed(w)
  PROVE  Good
<1> DEFINE t == [at |-> "admit", item |-> Head(bcQ), tries |-> 0]
<1>1. Head(bcQ) \in Items
  BY TypedQueues DEF TakeParsed, Slots
<1>2. t \in TaskState /\ t.item = Head(bcQ) /\ Consistent(t)
  BY <1>1, TypedStates DEF Consistent, TakeParsed
<1>3. task' = [task EXCEPT ![w] = t]
  BY DEF TakeParsed, Start
<1> HIDE DEF t
<1> QED BY <1>2, <1>3, TakeLaterGood DEF TakeParsed

LEMMA TakeFetchedGood ==
  ASSUME PipeTypeOK, PlaceInv, NEW w \in Workers, TakeFetched(w)
  PROVE  Good
<1> DEFINE i == Head(abQ)
<1>1. /\ abQ # <<>> /\ i # None /\ abQ' = Tail(abQ) /\ Free(w)
      /\ UNCHANGED <<swallows, mainVars, inQ, bcQ, cancelling>>
  BY DEF TakeFetched
<1>2. /\ i \in Items /\ abQ' \in Seq(Slots) /\ i \in Owners
  <2>1. abQ \in Seq(Slots) /\ Once(abQ)
    BY DEF PipeTypeOK, PlaceInv, Slots
  <2> QED BY <1>1, <2>1, TailElements DEF Slots, Owners
<1>3. CASE /\ task' = [task EXCEPT ![w] = [at |-> "call", item |-> i, tries |-> 0]]
           /\ UNCHANGED <<result, keyVars>>
  <2> DEFINE t == [at |-> "call", item |-> i, tries |-> 0]
  <2>1. t \in TaskState /\ t.item = i /\ Consistent(t)
    BY <1>1, <1>2, TypedStates DEF Consistent
  <2>2. task' = [task EXCEPT ![w] = t]
    BY <1>3
  <2> HIDE DEF t
  <2> QED BY <1>1, <1>3, <2>1, <2>2, TakeLaterGood
<1>4. CASE Record(i, "cancelled") /\ ReleaseKey(i, FALSE) /\ UNCHANGED task
  <2>1. SameItems
    BY <1>4 DEF SameItems
  <2>2. PlaceInv' /\ Owners' = Owners \ {i}
    BY <1>1, <2>1, PopMove
  <2>3. Elements(inQ)' = Elements(inQ)
    BY <1>1
  <2>4. Ends(i, "cancelled")
    BY <1>2, <1>4, <2>2, <2>3 DEF Ends
  <2>5. PipeTypeOK'
    <3>1. /\ result' \in [Items -> Status]
          /\ inProgress' \in SUBSET Keys /\ completed' \in SUBSET Keys
      BY <1>2, <1>4, TypedRecords DEF Status
    <3> QED BY <1>1, <1>2, <1>4, <3>1 DEF PipeTypeOK, Slots
  <2> QED BY <1>2, <2>2, <2>4, <2>5 DEF Good, Effect, Status
<1> QED BY <1>3, <1>4 DEF TakeFetched

(* A cancelled worker: stage A records and releases, B and C just end.       *)
LEMMA CancelledGood ==
  ASSUME PipeTypeOK, PlaceInv, ControlInv, NEW w \in Workers, CancelledA(w) \/ Dropped(w)
  PROVE  Good
<1>1. /\ w \in cancelling /\ task' = [task EXCEPT ![w] = Ended] /\ SameQueues
      /\ UNCHANGED <<swallows, mainVars>> /\ cancelling' \in SUBSET Workers
  BY DEF CancelledA, Dropped, SameQueues, PipeTypeOK
<1>2. Ended \in TaskState /\ Ended.item = None /\ Consistent(Ended)
  BY TypedStates DEF Ended, Consistent
<1>3. PlaceInv' /\ Owners' = Owners \ {task[w].item}
  BY <1>1, <1>2, HoldMove
<1>4. task' \in [Workers -> TaskState] /\ Elements(inQ)' = Elements(inQ)
  BY <1>1, <1>2, HeldAfter DEF SameQueues
<1>5. task[w].item \in Slots /\ None \notin Owners
  BY DEF PipeTypeOK, TaskState, Slots, Owners, Held, Elements
<1>6. task[w].item # None => task[w].item \in Owners
  BY DEF Owners, Held
<1>7. CASE UNCHANGED <<result, keyVars>>
  <2>1. PipeTypeOK'
    BY <1>1, <1>4, <1>7 DEF PipeTypeOK, SameQueues
  <2>2. CASE task[w].item = None
    <3>1. Quiet
      BY <1>1, <1>3, <1>4, <1>5, <1>7, <2>2 DEF Quiet
    <3> QED BY <1>3, <2>1, <3>1 DEF Good, Effect
  <2>3. CASE task[w].item # None
    <3>1. Abandons(task[w].item)
      BY <1>1, <1>3, <1>4, <1>6, <1>7, <2>3 DEF Abandons, ControlInv
    <3> QED BY <1>3, <1>5, <2>1, <2>3, <3>1 DEF Good, Effect, Slots
  <2> QED BY <2>2, <2>3
<1>8. CASE /\ task[w].item # None
           /\ Record(task[w].item, "cancelled") /\ ReleaseKey(task[w].item, FALSE)
  <2>1. task[w].item \in Items
    BY <1>5, <1>8 DEF Slots
  <2>2. Ends(task[w].item, "cancelled")
    BY <1>3, <1>4, <1>6, <1>8 DEF Ends
  <2>3. PipeTypeOK'
    <3>1. /\ result' \in [Items -> Status]
          /\ inProgress' \in SUBSET Keys /\ completed' \in SUBSET Keys
      BY <1>8, <2>1, TypedRecords DEF Status
    <3> QED BY <1>1, <1>4, <3>1 DEF PipeTypeOK, SameQueues
  <2> QED BY <1>3, <2>1, <2>2, <2>3 DEF Good, Effect, Status
<1> QED BY <1>7, <1>8 DEF CancelledA, Dropped

LEMMA ProduceGood ==
  ASSUME PipeTypeOK, PlaceInv, Produce
  PROVE  Good /\ Quiet
<1> DEFINE x == IF produced < N THEN produced + 1 ELSE None
<1>1. x \in Slots /\ x \in {None, produced + 1} /\ produced \in Nat
  BY AllInOneAssumption DEF PipeTypeOK, Slots, Items
<1>2. /\ inQ' = Append(inQ, x) /\ produced' = produced + 1
      /\ UNCHANGED <<swallows, main, sent, abQ, bcQ, task, cancelling, stopEvent,
                     result, keyVars>>
      /\ producing' \in BOOLEAN
  BY DEF Produce
<1>3. PlaceInv' /\ Owners' = Owners /\ Elements(inQ)' = (Elements(inQ) \cup {x}) \ {None}
  <2> HIDE DEF x
  <2> QED BY <1>1, <1>2, PushMove
<1>4. Quiet
  <2>1. x = None \/ (x \in Items /\ x > produced)
    BY <1>1 DEF Slots
  <2>2. x = produced + 1 \/ produced + 1 \notin Items
    <3>1. CASE produced < N
      BY <3>1
    <3>2. CASE ~(produced < N)
      <4>1. N \in Nat /\ produced + 1 > N
        BY <1>1, <3>2, AllInOneAssumption
      <4>2. produced + 1 \notin 1..N
        BY <4>1, <1>1
      <4> QED BY <4>2 DEF Items
    <3> QED BY <3>1, <3>2
  <2>3. None \notin Elements(inQ) /\ None \notin Items
    BY NoneIsNoItem DEF Elements
  <2> HIDE DEF x
  <2> QED BY <1>2, <1>3, <2>1, <2>2, <2>3 DEF Quiet
<1>5. PipeTypeOK'
  <2>1. inQ' \in Seq(Slots) /\ produced' \in Nat
    BY <1>1, <1>2, TypedQueues
  <2> QED BY <1>2, <2>1 DEF PipeTypeOK, Slots
<1> QED BY <1>3, <1>4, <1>5 DEF Good, Effect

(* Steps of run_pipeline that only move its own state. *)
LEMMA SteerGood ==
  ASSUME PipeTypeOK, PlaceInv, SameQueues,
         UNCHANGED <<swallows, produced, task, result, keyVars>>,
         main' \in MainAt, sent' \in Nat, producing' \in BOOLEAN, stopEvent' \in BOOLEAN,
         cancelling' \in SUBSET Workers
  PROVE  Good
<1>1. /\ Held(Workers)' = Held(Workers) /\ Elements(inQ)' = Elements(inQ)
      /\ Elements(abQ)' = Elements(abQ) /\ Elements(bcQ)' = Elements(bcQ)
  BY DEF SameQueues, Held
<1>2. Owners' = Owners
  BY <1>1 DEF Owners
<1>3. PlaceInv'
  BY <1>1, <1>2 DEF PlaceInv, SameQueues
<1>4. PipeTypeOK'
  BY DEF PipeTypeOK, SameQueues
<1>5. Quiet
  BY <1>1, <1>2 DEF Quiet
<1> QED BY <1>3, <1>4, <1>5 DEF Good, Effect

LEMMA PutSentinelGood ==
  ASSUME PipeTypeOK, PlaceInv, EndStageB \/ EndStageC
  PROVE  Good
<1>1. /\ UNCHANGED <<swallows, produced, producing, inQ, task, cancelling, stopEvent,
                     result, keyVars>>
      /\ \/ abQ' = Append(abQ, None) /\ UNCHANGED bcQ
         \/ bcQ' = Append(bcQ, None) /\ UNCHANGED abQ
  BY DEF EndStageB, EndStageC, PutSentinels
<1>2. None \in Slots
  BY DEF Slots
<1>3. main' \in MainAt /\ sent' \in Nat
  BY DEF EndStageB, EndStageC, PutSentinels, Move, PipeTypeOK, MainAt
<1>4. PlaceInv' /\ Owners' = Owners
  BY <1>1, <1>2, PushMove
<1>5. PipeTypeOK'
  <2>1. abQ' \in Seq(Slots) /\ bcQ' \in Seq(Slots)
    BY <1>1, <1>2, TypedQueues DEF PipeTypeOK, Slots
  <2> QED BY <1>1, <1>3, <2>1 DEF PipeTypeOK, Slots
<1>6. Quiet
  <2>1. Elements(inQ)' = Elements(inQ)
    BY <1>1
  <2> QED BY <1>1, <1>4, <2>1 DEF Quiet
<1> QED BY <1>4, <1>5, <1>6 DEF Good, Effect

LEMMA ReconcileGood ==
  ASSUME PipeTypeOK, PlaceInv, Gone(Workers), Reconcile
  PROVE  Good
<1>1. Held(Workers)' = {} /\ task' = task
  BY DEF Held, PlaceInv, Gone, Reconcile
<1>2. Elements(inQ)' = {} /\ Elements(abQ)' = {} /\ Elements(bcQ)' = {}
  BY NoElements DEF Reconcile
<1>3. Owners' = {}
  BY <1>1, <1>2 DEF Owners
<1>4. PlaceInv'
  <2>1. Once(inQ)' /\ Once(abQ)' /\ Once(bcQ)'
    BY NoElements DEF Reconcile
  <2> QED BY <1>1, <1>2, <1>3, <2>1 DEF PlaceInv
<1>5. PipeTypeOK'
  <2>1. result' \in [Items -> Status]
    BY DEF Reconcile, PipeTypeOK, Status
  <2>2. inQ' \in Seq(Slots) /\ abQ' \in Seq(Slots) /\ bcQ' \in Seq(Slots)
    BY NoElements DEF Reconcile
  <2>3. main' \in MainAt /\ inProgress' \in SUBSET Keys
    BY DEF Reconcile, MainAt
  <2> QED BY <2>1, <2>2, <2>3 DEF PipeTypeOK, Slots, Reconcile
<1> QED BY <1>2, <1>3, <1>4, <1>5 DEF Good, Effect

LEMMA MainGood ==
  ASSUME PipeTypeOK, PlaceInv, ControlInv, MainStep \/ Expire
  PROVE  Good
<1>1. CASE \/ ProducerDone \/ Expire \/ StopAll
           \/ Join("joinA", inQ, AWorkers, "endB") \/ Join("joinB", abQ, BWorkers, "endC")
  <2>1. SameQueues /\ UNCHANGED <<swallows, produced, task, result, keyVars>>
    BY <1>1 DEF ProducerDone, Expire, StopAll, Join, SameQueues
  <2>2. main' \in MainAt /\ sent' \in Nat
    BY <1>1 DEF ProducerDone, Expire, StopAll, Join, Move, MainAt, PipeTypeOK
  <2>3. producing' \in BOOLEAN /\ stopEvent' \in BOOLEAN /\ cancelling' \in SUBSET Workers
    BY <1>1 DEF ProducerDone, Expire, StopAll, Join, PipeTypeOK
  <2> QED BY <2>1, <2>2, <2>3, SteerGood
<1>2. CASE EndStageB \/ EndStageC
  BY <1>2, PutSentinelGood
<1>3. CASE NormalEnd
  BY <1>3, ReconcileGood DEF NormalEnd, ControlInv, Gone, Workers
<1>4. CASE StoppedEnd
  BY <1>4, ReconcileGood DEF StoppedEnd
<1> QED BY <1>1, <1>2, <1>3, <1>4 DEF MainStep

(* Every step is one of the effects and keeps types and places. *)
LEMMA StepGood ==
  ASSUME PipeTypeOK, PlaceInv, ControlInv, PipeNext
  PROVE  Good
<1>1. ASSUME NEW w \in AWorkers, StepA(w) PROVE Good
  BY <1>1, WorkersOfStages, TakeRowGood, SentinelGood, AdmitGood, ReturnsGood, ForwardGood,
     CancelledGood DEF StepA
<1>2. ASSUME NEW w \in BWorkers, StepB(w) PROVE Good
  BY <1>2, WorkersOfStages, TakeFetchedGood, SentinelGood, ReturnsGood, ForwardGood,
     CancelledGood DEF StepB
<1>3. ASSUME NEW w \in CWorkers, StepC(w) PROVE Good
  BY <1>3, WorkersOfStages, TakeParsedGood, SentinelGood, AdmitGood, ReturnsGood,
     CancelledGood DEF StepC
<1> QED BY <1>1, <1>2, <1>3, MainGood, ProduceGood DEF PipeNext

-----------------------------------------------------------------------------
(* Control: who is over when *)

WorkerStep(w) ==
  \/ TakeRow(w) \/ EndA(w) \/ TakeFetched(w) \/ EndB(w) \/ TakeParsed(w) \/ EndC(w)
  \/ Admit(w, AWorkers, FetchInflight) \/ Admit(w, CWorkers, WriteInflight)
  \/ \E o \in Outcomes : FetchReturns(w, o) \/ TransformReturns(w, o) \/ WriteReturns(w, o)
  \/ ForwardA(w) \/ ForwardB(w) \/ CancelledA(w) \/ Dropped(w)

(* A worker changes its own state only, and never once it has ended. *)
LEMMA WorkerFrame ==
  ASSUME PipeTypeOK, ControlInv, NEW w \in Workers, WorkerStep(w)
  PROVE  /\ UNCHANGED mainVars /\ task[w].at # "ended"
         /\ \A v \in Workers : v # w => task'[v] = task[v]
         /\ cancelling' \subseteq cancelling
         /\ w \in cancelling' => task'[w].at # "ended"
<1> USE DEF PipeTypeOK, TaskState
<1>1. CASE TakeRow(w)
  BY <1>1 DEF TakeRow, Free, Start
<1>2. CASE EndA(w) \/ EndB(w) \/ EndC(w)
  BY <1>2 DEF EndA, EndB, EndC, TakeSentinel, Free
<1>3. CASE TakeFetched(w)
  BY <1>3 DEF TakeFetched, Free
<1>4. CASE TakeParsed(w)
  BY <1>4 DEF TakeParsed, Free, Start
<1>5. CASE Admit(w, AWorkers, FetchInflight) \/ Admit(w, CWorkers, WriteInflight)
  BY <1>5 DEF Admit, Goto, Finish, Back
<1>6. ASSUME NEW o \in Outcomes, FetchReturns(w, o) \/ TransformReturns(w, o) \/ WriteReturns(w, o)
      PROVE  /\ UNCHANGED mainVars /\ task[w].at # "ended"
             /\ \A v \in Workers : v # w => task'[v] = task[v]
             /\ cancelling' \subseteq cancelling
             /\ w \in cancelling' => task'[w].at # "ended"
  BY <1>6 DEF FetchReturns, TransformReturns, WriteReturns, Returns, AttemptFails, Goto, Finish, Back
<1>7. CASE ForwardA(w) \/ ForwardB(w)
  BY <1>7 DEF ForwardA, ForwardB, Back
<1>8. CASE CancelledA(w) \/ Dropped(w)
  BY <1>8 DEF CancelledA, Dropped, ControlInv
<1> QED BY <1>1, <1>2, <1>3, <1>4, <1>5, <1>6, <1>7, <1>8 DEF WorkerStep

LEMMA StageSteps ==
  ASSUME PipeNext
  PROVE  Produce \/ MainStep \/ Expire \/ \E w \in Workers : WorkerStep(w)
BY WorkersOfStages DEF PipeNext, StepA, StepB, StepC, WorkerStep

(* A finished run stays as it is: every task is over. *)
LEMMA DoneIsQuiet ==
  ASSUME PipeTypeOK, ControlInv, PipeNext
  PROVE  main # "done"
<1> SUFFICES ASSUME main = "done" PROVE FALSE
  OBVIOUS
<1>1. ~producing /\ \A w \in Workers : task[w].at = "ended"
  BY DEF ControlInv, Gone
<1>2. ~ \E w \in Workers : WorkerStep(w)
  BY <1>1, WorkerFrame
<1> QED BY <1>1, <1>2, StageSteps
  DEF Produce, MainStep, Expire, ProducerDone, Join, EndStageB, EndStageC, PutSentinels,
      NormalEnd, StopAll, StoppedEnd

(* What run_pipeline knows about its tasks at each point stays true.         *)
LEMMA ControlStep ==
  ASSUME PipeTypeOK, ControlInv, PipeNext
  PROVE  /\ ControlInv'
         /\ stopEvent => stopEvent'
         /\ main' = "done" => Reconcile
<1>1. main # "done"
  BY DoneIsQuiet
<1>2. ASSUME NEW w \in Workers, WorkerStep(w)
      PROVE  /\ ControlInv'
             /\ stopEvent => stopEvent'
             /\ main' = "done" => Reconcile
  <2>1. /\ UNCHANGED mainVars /\ task[w].at # "ended"
        /\ \A v \in Workers : v # w => task'[v] = task[v]
        /\ cancelling' \subseteq cancelling
        /\ w \in cancelling' => task'[w].at # "ended"
    BY <1>2, WorkerFrame
  <2>2. \A v \in Workers : task[v].at = "ended" => task'[v].at = "ended"
    BY <2>1
  <2>3. (Gone(AWorkers) => Gone(AWorkers)') /\ (Gone(BWorkers) => Gone(BWorkers)')
    BY <2>2, WorkersOfStages DEF Gone
  <2>4. \A v \in cancelling' : task'[v].at # "ended"
    BY <2>1 DEF ControlInv, PipeTypeOK
  <2>5. cancelling' # {} => stopEvent'
    BY <2>1 DEF ControlInv
  <2>6. main' = main /\ producing' = producing /\ stopEvent' = stopEvent
    BY <2>1
  <2> QED BY <1>1, <2>3, <2>4, <2>5, <2>6 DEF ControlInv
<1>3. CASE Produce
  BY <1>1, <1>3 DEF Produce, ControlInv, Gone
<1>4. CASE ProducerDone \/ Expire
  BY <1>4 DEF ProducerDone, Expire, Move, ControlInv, Gone
<1>5. CASE Join("joinA", inQ, AWorkers, "endB") \/ Join("joinB", abQ, BWorkers, "endC")
  BY <1>5 DEF Join, Move, ControlInv, Gone
<1>6. CASE EndStageB \/ EndStageC
  BY <1>6 DEF EndStageB, EndStageC, PutSentinels, Move, ControlInv, Gone
<1>7. CASE StopAll
  BY <1>7 DEF StopAll, ControlInv, Gone
<1>8. CASE NormalEnd \/ StoppedEnd
  <2>1. Gone(Workers)
    BY <1>8 DEF NormalEnd, StoppedEnd, ControlInv, Gone, Workers
  <2> QED BY <1>8, <2>1 DEF NormalEnd, StoppedEnd, Reconcile, ControlInv, Gone
<1> QED BY <1>2, <1>3, <1>4, <1>5, <1>6, <1>7, <1>8, StageSteps DEF MainStep

-----------------------------------------------------------------------------
(* Keys, and the contract *)

(* Every effect leaves the key sets and the results in agreement.            *)
LEMMA KeyStep ==
  ASSUME PipeInv, PipeNext
  PROVE  KeyInv'
<1>1. /\ Good /\ main # "done"
      /\ stopEvent => stopEvent'
      /\ main' = "done" => Reconcile
  BY StepGood, DoneIsQuiet, ControlStep DEF PipeInv
<1>2. /\ produced \in Nat /\ produced' \in Nat /\ produced <= produced'
      /\ Elements(inQ) \cup Owners \subseteq 1..produced
      /\ Elements(inQ) \cap Owners = {} /\ Owners \subseteq Items
      /\ Elements(inQ) \subseteq Items
      /\ result \in [Items -> Status] /\ Items \subseteq Nat
  <2>1. produced' = produced \/ produced' = produced + 1
    <3>1. ASSUME NEW w \in Workers, WorkerStep(w) PROVE produced' = produced
      BY <3>1, WorkerFrame DEF PipeInv
    <3> QED BY <3>1, StageSteps DEF Produce, MainStep, Expire, ProducerDone, Join, EndStageB,
          EndStageC, PutSentinels, NormalEnd, StopAll, StoppedEnd, Reconcile
  <2>2. produced \in Nat /\ result \in [Items -> Status] /\ Items \subseteq Nat
    BY DEF PipeInv, PipeTypeOK, Items
  <2>3. Held(Workers) \subseteq Items
    BY DEF PipeInv, PipeTypeOK, TaskState, Held
  <2>4. Elements(inQ) \subseteq Items /\ Elements(abQ) \subseteq Items /\ Elements(bcQ) \subseteq Items
    <3>1. ASSUME NEW q \in Seq(Slots) PROVE Elements(q) \subseteq Items
      BY LenProperties DEF Elements, Slots
    <3> QED BY <3>1 DEF PipeInv, PipeTypeOK, Slots
  <2> QED BY <2>1, <2>2, <2>3, <2>4 DEF PipeInv, PlaceInv, Owners
<1>3. /\ AheadInv /\ FlightInv /\ SetsInv
      /\ KeyOf \in [Items -> Keys]
  BY AllInOneAssumption DEF PipeInv, KeyInv
<1>4. CASE Quiet
  <2>1. Owners' = Owners /\ result' = result /\ Applied' = Applied
    BY <1>4 DEF Quiet, Applied
  <2>2. AheadInv'
    BY <1>1, <1>2, <1>3, <2>1 DEF AheadInv
  <2>3. \A i \in Elements(inQ)' : result[i] = "none"
    BY <1>1, <1>3, <1>4 DEF Quiet, AheadInv, FlightInv
  <2>4. FlightInv'
    BY <1>3, <2>1, <2>3 DEF FlightInv
  <2>5. SetsInv'
    BY <1>1, <1>3, <1>4, <2>1 DEF SetsInv, Quiet
  <2> QED BY <2>2, <2>4, <2>5 DEF KeyInv
<1>5. ASSUME NEW i \in Items, Claims(i) PROVE KeyInv'
  <2>1. /\ Owners' = Owners \cup {i} /\ result' = result /\ Applied' = Applied
        /\ Elements(inQ)' = Elements(inQ) \ {i} /\ i \in Elements(inQ)
        /\ inProgress' = inProgress \cup {KeyOf[i]} /\ completed' = completed
    BY <1>5 DEF Claims, Applied
  <2>2. AheadInv'
    BY <1>1, <1>2, <1>3, <2>1 DEF AheadInv
  <2>3. KeyOf[i] \notin KeysOf(Owners) /\ KeyOf[i] \notin KeysOf(Applied)
    BY <1>1, <1>3, <1>5 DEF Claims, Suppressed, SetsInv
  <2>4. FlightInv'
    BY <1>2, <1>3, <2>1, <2>3 DEF FlightInv, KeysOf
  <2>5. KeysOf(Owners)' = KeysOf(Owners) \cup {KeyOf[i]}
    BY <2>1 DEF KeysOf
  <2>6. SetsInv'
    BY <1>1, <1>3, <2>1, <2>5 DEF SetsInv, KeysOf
  <2> QED BY <2>2, <2>4, <2>6 DEF KeyInv
<1>6. ASSUME NEW i \in Items, Abandons(i) PROVE KeyInv'
  <2>1. /\ Owners' = Owners \ {i} /\ result' = result /\ Applied' = Applied
        /\ Elements(inQ)' = Elements(inQ) /\ stopEvent' /\ completed' = completed
    BY <1>1, <1>6 DEF Abandons, Applied
  <2>2. AheadInv' /\ FlightInv'
    BY <1>1, <1>2, <1>3, <2>1 DEF AheadInv, FlightInv
  <2>3. SetsInv'
    BY <1>3, <2>1 DEF SetsInv, KeysOf
  <2> QED BY <2>2, <2>3 DEF KeyInv
<1>7. ASSUME NEW i \in Items, NEW s \in Status, Skips(i, s) PROVE KeyInv'
  <2>1. /\ Owners' = Owners /\ Elements(inQ)' = Elements(inQ) \ {i} /\ i \in Elements(inQ)
        /\ s # "success" /\ UNCHANGED keyVars
        /\ result[i] = "none"
        /\ result' = [result EXCEPT ![i] = s]
    BY <1>3, <1>7 DEF Skips, Record, FlightInv
  <2>2. Applied' = Applied
    BY <1>2, <2>1 DEF Applied
  <2>3. AheadInv'
    BY <1>1, <1>2, <1>3, <2>1 DEF AheadInv
  <2>4. FlightInv'
    BY <1>2, <1>3, <2>1, <2>2 DEF FlightInv
  <2>5. SetsInv'
    BY <1>1, <1>3, <2>1, <2>2 DEF SetsInv
  <2> QED BY <2>3, <2>4, <2>5 DEF KeyInv
<1>8. ASSUME NEW i \in Items, NEW s \in Status, Ends(i, s) PROVE KeyInv'
  <2>1. /\ Owners' = Owners \ {i} /\ Elements(inQ)' = Elements(inQ) /\ i \in Owners
        /\ result' = [result EXCEPT ![i] = s]
        /\ result[i] = "none"
        /\ inProgress' = inProgress \ {KeyOf[i]}
        /\ completed' = IF s = "success" THEN completed \cup {KeyOf[i]} ELSE completed
    BY <1>3, <1>8 DEF Ends, Record, ReleaseKey, FlightInv
  <2>2. Applied' = IF s = "success" THEN Applied \cup {i} ELSE Applied
    BY <1>2, <2>1 DEF Applied
  <2>3. AheadInv'
    BY <1>1, <1>2, <1>3, <2>1 DEF AheadInv
  <2>4. FlightInv'
    BY <1>2, <1>3, <2>1, <2>2 DEF FlightInv
  <2>5. completed' = KeysOf(Applied)'
    BY <1>3, <2>1, <2>2 DEF SetsInv, KeysOf
  <2>6. KeysOf(Owners)' = KeysOf(Owners) \ {KeyOf[i]}
    BY <1>3, <2>1 DEF FlightInv, KeysOf
  <2>7. SetsInv'
    BY <1>1, <1>3, <2>1, <2>5, <2>6 DEF SetsInv, KeysOf
  <2> QED BY <2>3, <2>4, <2>7 DEF KeyInv
<1>9. CASE Reconcile /\ Owners' = {} /\ Elements(inQ)' = {}
  <2>1. Applied' = Applied /\ main' = "done" /\ completed' = completed
    BY <1>2, <1>9 DEF Reconcile, Applied
  <2> QED BY <1>3, <1>9, <2>1 DEF KeyInv, AheadInv, FlightInv, SetsInv, KeysOf
<1> QED BY <1>1, <1>4, <1>5, <1>6, <1>7, <1>8, <1>9 DEF Good, Effect

(* Every effect is a step of the contract, or none. *)
LEMMA ContractStep ==
  ASSUME PipeInv, PipeNext
  PROVE  [Promise!PromiseNext]_(Promise!promiseVars)
<1>1. /\ Good /\ main # "done"
      /\ AheadInv /\ FlightInv /\ SetsInv
  BY StepGood, DoneIsQuiet DEF PipeInv, KeyInv
<1>2. /\ Elements(inQ) \cap Owners = {} /\ result \in [Items -> Status]
  BY DEF PipeInv, PlaceInv, PipeTypeOK
<1> USE DEF Promise!PromiseNext, Promise!promiseVars
<1>3. CASE Quiet
  BY <1>3 DEF Quiet
<1>4. ASSUME NEW i \in Items, Claims(i) PROVE Promise!Claim(i)
  <2>1. KeyOf[i] \notin KeysOf(Owners) /\ KeyOf[i] \notin KeysOf(Applied)
    BY <1>1, <1>4 DEF Claims, Suppressed, SetsInv
  <2>2. \A j \in Promise!Twins(i) : j \notin Owners /\ result[j] # "success"
    BY <2>1 DEF Promise!Twins, KeysOf, Applied
  <2> QED BY <1>1, <1>2, <1>4, <2>2 DEF Claims, FlightInv, Promise!Claim
<1>5. ASSUME NEW i \in Items, Abandons(i) PROVE Promise!Abandon(i)
  BY <1>5 DEF Abandons, Promise!Abandon
<1>6. ASSUME NEW i \in Items, NEW s \in Status, Skips(i, s)
      PROVE  Promise!Suppress(i) \/ Promise!CancelRest({i})
  <2>1. /\ result[i] = "none" /\ i \notin Owners /\ Owners' = Owners
        /\ result' = [result EXCEPT ![i] = s]
    BY <1>1, <1>2, <1>6 DEF Skips, Record, FlightInv
  <2>2. CASE s = "cancelled"
    <3>1. result' = [j \in Items |-> IF j \in {i} THEN "cancelled" ELSE result[j]]
      BY <1>2, <2>1, <2>2
    <3> QED BY <2>1, <3>1 DEF Promise!CancelRest
  <2>3. CASE s = "deduped" /\ ~stopEvent /\ Suppressed(i)
    <3>1. KeyOf[i] \in KeysOf(Applied) \cup KeysOf(Owners)
      BY <1>1, <2>3 DEF Suppressed, SetsInv
    <3>2. Owners \subseteq Items
      <4>1. Elements(abQ) \subseteq Items /\ Elements(bcQ) \subseteq Items
        BY LenProperties DEF Elements, PipeInv, PipeTypeOK
      <4> QED BY <4>1 DEF Owners, Held, PipeInv, PipeTypeOK, TaskState
    <3>3. \E j \in Promise!Twins(i) : j \in Owners \/ result[j] = "success"
      BY <2>1, <3>1, <3>2 DEF KeysOf, Applied, Promise!Twins
    <3> QED BY <2>1, <2>3, <3>3 DEF Promise!Suppress
  <2> QED BY <1>6, <2>2, <2>3 DEF Skips
<1>7. ASSUME NEW i \in Items, NEW s \in Status, Ends(i, s)
      PROVE  s \in {"success", "failed", "cancelled"} /\ Promise!EndOwner(i, s)
  BY <1>1, <1>7 DEF Ends, Record, FlightInv, Promise!EndOwner
<1>8. CASE Reconcile /\ Owners' = {} /\ Elements(inQ)' = {}
  <2> DEFINE S == {i \in Items : result[i] = "none"}
  <2>1. Owners \subseteq Items
    <3>1. Elements(abQ) \subseteq Items /\ Elements(bcQ) \subseteq Items
      BY LenProperties DEF Elements, PipeInv, PipeTypeOK
    <3> QED BY <3>1 DEF Owners, Held, PipeInv, PipeTypeOK, TaskState
  <2>2. Owners' = Owners \ S
    BY <1>1, <1>8, <2>1 DEF FlightInv
  <2>3. result' = [i \in Items |-> IF i \in S THEN "cancelled" ELSE result[i]]
    BY <1>8 DEF Reconcile
  <2>4. Promise!CancelRest(S)
    BY <2>2, <2>3 DEF Promise!CancelRest
  <2> QED BY <2>4
<1> QED BY <1>1, <1>3, <1>4, <1>5, <1>6, <1>7, <1>8 DEF Good, Effect

-----------------------------------------------------------------------------
LEMMA PipeInitInv == PipeInit => PipeInv
<1> SUFFICES ASSUME PipeInit PROVE PipeInv
  OBVIOUS
<1>1. Elements(inQ) = {} /\ Elements(abQ) = {} /\ Elements(bcQ) = {} /\ Held(Workers) = {}
  BY NoElements DEF PipeInit, Held, Waiting
<1>2. Owners = {}
  BY <1>1 DEF Owners
<1>3. PipeTypeOK
  BY NoElements, None \in Slots DEF PipeInit, PipeTypeOK, TaskState, Waiting, MainAt, Status, Slots
<1>4. PlaceInv
  BY <1>1, <1>2, NoElements DEF PipeInit, PlaceInv, Waiting
<1>5. ControlInv
  BY DEF PipeInit, ControlInv
<1>6. KeyInv
  <2>1. Applied = {} /\ \A i \in Items : result[i] = "none"
    BY DEF PipeInit, Applied
  <2> QED BY <1>1, <1>2, <2>1 DEF PipeInit, KeyInv, AheadInv, FlightInv, SetsInv, KeysOf
<1> QED BY <1>3, <1>4, <1>5, <1>6 DEF PipeInv

LEMMA PipeStep == PipeInv /\ [PipeNext]_pipeVars => PipeInv'
<1>1. ASSUME PipeInv, PipeNext PROVE PipeInv'
  BY <1>1, StepGood, ControlStep, KeyStep DEF PipeInv, Good
<1>2. ASSUME PipeInv, UNCHANGED pipeVars PROVE PipeInv'
  <2>1. PipeTypeOK' /\ ControlInv'
    BY <1>2 DEF PipeInv, PipeTypeOK, ControlInv, Gone
  <2>2. /\ Elements(inQ)' = Elements(inQ) /\ Elements(abQ)' = Elements(abQ)
        /\ Elements(bcQ)' = Elements(bcQ) /\ Held(Workers)' = Held(Workers)
    BY <1>2 DEF Held
  <2>3. Owners' = Owners /\ Applied' = Applied
    BY <1>2, <2>2 DEF Owners, Applied
  <2>4. PlaceInv'
    BY <1>2, <2>2, <2>3 DEF PipeInv, PlaceInv
  <2>5. KeyInv'
    BY <1>2, <2>2, <2>3 DEF PipeInv, KeyInv, AheadInv, FlightInv, SetsInv
  <2> QED BY <2>1, <2>4, <2>5 DEF PipeInv
<1> QED BY <1>1, <1>2

(* The inductive invariant holds in every state. *)
THEOREM PipeInvariant == PipeSpec => []PipeInv
BY PipeInitInv, PipeStep, PTL DEF PipeSpec

(* Every queue, worker, result and key set keeps its type. *)
THEOREM PipeTypeCorrect == PipeSpec => []PipeTypeOK
<1>1. PipeInv => PipeTypeOK
  BY DEF PipeInv
<1> QED BY <1>1, PipeInvariant, PTL

(* A key is in progress exactly while an item with it is in flight.          *)
THEOREM KeysHeldExactly == PipeSpec => []KeyHeldWhileInFlight
<1>1. PipeInv => KeyHeldWhileInFlight
  BY DEF PipeInv, KeyInv, SetsInv, KeyHeldWhileInFlight, KeysOf
<1> QED BY <1>1, PipeInvariant, PTL

(* The pipeline implements the dedupe contract: every step of it is a step   *)
(* of DedupePromise or leaves statuses and ownership alone.                  *)
THEOREM PipelineKeepsPromise == PipeSpec => PromiseKept
<1>1. PipeInit => Promise!PromiseInit
  <2>1. PipeInit => Owners = {}
    BY NoElements DEF PipeInit, Owners, Held, Waiting
  <2> QED BY <2>1 DEF PipeInit, Promise!PromiseInit
<1>2. PipeInv /\ [PipeNext]_pipeVars => [Promise!PromiseNext]_(Promise!promiseVars)
  <2>1. ASSUME PipeInv, UNCHANGED pipeVars PROVE UNCHANGED Promise!promiseVars
    BY <2>1 DEF Promise!promiseVars, Owners, Held, Elements
  <2> QED BY <2>1, ContractStep
<1> QED BY <1>1, <1>2, PipeInvariant, PTL DEF PipeSpec, PromiseKept, Promise!PromiseSpec

Contract == INSTANCE DedupePromiseProofs WITH owner <- Owners

(* No key is applied twice, whatever the pipeline's parameters: the contract *)
(* allows it in no behaviour, and the pipeline keeps the contract.           *)
THEOREM KeysAppliedOnce == PipeSpec => []KeyAppliedOnce
<1>1. Contract!PromiseSpec => []Contract!KeyAppliedOnce
  BY Contract!PromiseAppliesOnce
<1>2. PromiseKept => Contract!PromiseSpec
  <2>1. Promise!PromiseInit => Contract!PromiseInit
    BY DEF Promise!PromiseInit, Contract!PromiseInit
  <2>2. [Promise!PromiseNext]_(Promise!promiseVars)
          => [Contract!PromiseNext]_(Contract!promiseVars)
    BY DEF Promise!PromiseNext, Promise!promiseVars, Contract!PromiseNext, Contract!promiseVars,
       Promise!Claim, Promise!Suppress, Promise!Abandon, Promise!EndOwner, Promise!CancelRest,
       Contract!Claim, Contract!Suppress, Contract!Abandon, Contract!EndOwner,
       Contract!CancelRest, Promise!Twins, Contract!Twins
  <2> QED BY <2>1, <2>2, PTL DEF PromiseKept, Promise!PromiseSpec, Contract!PromiseSpec
<1>3. Contract!KeyAppliedOnce => KeyAppliedOnce
  BY DEF Contract!KeyAppliedOnce, KeyAppliedOnce, Promise!KeyAppliedOnce
<1> QED BY <1>1, <1>2, <1>3, PipelineKeepsPromise, PTL

-----------------------------------------------------------------------------
(* Nothing is lost on the normal path *)

Normal == main \notin {"expired", "stopping", "done"}

(* Without a deadline that passed, every row that was produced is recorded,  *)
(* in the input queue or in flight, and a joined queue stays empty.          *)
NormalInv ==
  /\ Normal => ~stopEvent
  /\ producing => produced < Puts
  /\ Normal /\ ~producing => produced = Puts
  /\ Normal => \A i \in Items : i <= produced =>
       result[i] # "none" \/ i \in Elements(inQ) \cup Owners
  /\ main \in {"endB", "joinB", "endC", "joinC"} => inQ = <<>>
  /\ main \in {"endC", "joinC"} => abQ = <<>>

LEMMA PutsFacts == Puts \in Nat /\ Puts > N
<1>1. AWorkers # {} /\ IsFiniteSet(AWorkers)
  BY AllInOneAssumption
<1>2. Cardinality(AWorkers) \in Nat /\ Cardinality(AWorkers) # 0
  BY <1>1, FS_CardinalityType, FS_EmptySet
<1> QED BY <1>2, AllInOneAssumption DEF Puts

(* The rows: each effect keeps a row, records it, or needs the stop event.   *)
LEMMA RowsStep ==
  ASSUME PipeInv, NormalInv, PipeNext, Normal, Normal'
  PROVE  \A i \in Items : i <= produced' =>
           result'[i] # "none" \/ i \in Elements(inQ)' \cup Owners'
<1>1. Good /\ ~stopEvent /\ main' # "done"
  BY StepGood DEF PipeInv, NormalInv, Normal
<1>2. /\ result \in [Items -> Status] /\ produced \in Nat /\ Items \subseteq Nat
      /\ \A i \in Items : i <= produced => result[i] # "none" \/ i \in Elements(inQ) \cup Owners
  BY DEF PipeInv, PipeTypeOK, NormalInv, Items
<1>3. CASE Quiet
  <2>1. produced' = produced \/ produced' = produced + 1
    <3>1. ASSUME NEW w \in Workers, WorkerStep(w) PROVE produced' = produced
      BY <3>1, WorkerFrame DEF PipeInv
    <3> QED BY <3>1, StageSteps DEF Produce, MainStep, Expire, ProducerDone, Join, EndStageB,
          EndStageC, PutSentinels, NormalEnd, StopAll, StoppedEnd, Reconcile
  <2> QED BY <1>2, <1>3, <2>1 DEF Quiet
<1>4. CASE ~Quiet
  <2>1. produced' = produced
    <3>1. ASSUME NEW w \in Workers, WorkerStep(w) PROVE produced' = produced
      BY <3>1, WorkerFrame DEF PipeInv
    <3>2. CASE Produce
      BY <1>4, <3>2, ProduceGood DEF PipeInv
    <3> QED BY <3>1, <3>2, StageSteps DEF MainStep, Expire, ProducerDone, Join, EndStageB,
          EndStageC, PutSentinels, NormalEnd, StopAll, StoppedEnd, Reconcile
  <2>2. ASSUME NEW i \in Items, Claims(i) \/ Abandons(i)
        PROVE  result' = result /\ Elements(inQ) \cup Owners \subseteq Elements(inQ)' \cup Owners'
    BY <1>1, <2>2 DEF Claims, Abandons
  <2>3. ASSUME NEW i \in Items, NEW s \in Status, Skips(i, s) \/ Ends(i, s)
        PROVE  /\ result' = [result EXCEPT ![i] = s] /\ s # "none"
               /\ Elements(inQ) \cup Owners \subseteq Elements(inQ)' \cup Owners' \cup {i}
    BY <2>3 DEF Skips, Ends, Record
  <2>4. ~Reconcile
    BY <1>1 DEF Reconcile
  <2> QED BY <1>1, <1>2, <1>4, <2>1, <2>2, <2>3, <2>4 DEF Good, Effect
<1> QED BY <1>3, <1>4

(* A queue that was joined stays empty: the tasks that put into it are over. *)
LEMMA JoinedStayEmpty ==
  ASSUME PipeTypeOK, ControlInv, PipeNext
  PROVE  /\ inQ = <<>> /\ ~producing => inQ' = <<>>
         /\ abQ = <<>> /\ Gone(AWorkers) /\ main # "endB" => abQ' = <<>>
<1>1. ASSUME NEW w \in AWorkers, StepA(w)
      PROVE  /\ inQ = <<>> => inQ' = <<>>
             /\ Gone(AWorkers) => FALSE
  <2>1. task[w].at # "ended"
    BY <1>1, WorkersOfStages, WorkerFrame DEF StepA, WorkerStep
  <2>2. inQ = <<>> => inQ' = <<>>
    BY <1>1 DEF StepA, TakeRow, EndA, TakeSentinel, Admit, FetchReturns, ForwardA, CancelledA
  <2> QED BY <2>1, <2>2 DEF Gone
<1>2. ASSUME NEW w \in BWorkers, StepB(w)
      PROVE  inQ' = inQ /\ (abQ = <<>> => abQ' = <<>>)
  BY <1>2 DEF StepB, TakeFetched, EndB, TakeSentinel, TransformReturns, ForwardB, Dropped
<1>3. ASSUME NEW w \in CWorkers, StepC(w) PROVE inQ' = inQ /\ abQ' = abQ
  BY <1>3 DEF StepC, TakeParsed, EndC, TakeSentinel, Admit, WriteReturns, Dropped
<1>4. CASE Produce
  BY <1>4 DEF Produce
<1>5. CASE MainStep \/ Expire
  BY <1>5 DEF MainStep, Expire, ProducerDone, Join, EndStageB, EndStageC, PutSentinels, NormalEnd,
     StopAll, StoppedEnd, Reconcile
<1> QED BY <1>1, <1>2, <1>3, <1>4, <1>5 DEF PipeNext

LEMMA NormalStep ==
  ASSUME PipeInv, NormalInv, PipeNext
  PROVE  NormalInv'
<1>1. PipeTypeOK /\ ControlInv /\ main # "done" /\ produced \in Nat
  BY DoneIsQuiet DEF PipeInv, PipeTypeOK
<1>2. /\ Normal' => Normal /\ stopEvent' = stopEvent
      /\ producing' => produced' < Puts
      /\ Normal' /\ ~producing' => produced' = Puts
      /\ main' \in {"endB", "joinB", "endC", "joinC"} =>
           main \in {"endB", "joinB", "endC", "joinC"} \/ (inQ = <<>> /\ inQ' = inQ)
      /\ main' \in {"endC", "joinC"} => main \in {"endC", "joinC"} \/ (abQ = <<>> /\ abQ' = abQ)
  <2>1. ASSUME NEW w \in Workers, WorkerStep(w) PROVE UNCHANGED mainVars
    BY <1>1, <2>1, WorkerFrame
  <2>2. CASE UNCHANGED mainVars
    BY <2>2 DEF NormalInv, Normal
  <2>3. CASE Produce
    <3>1. /\ produced' = produced + 1 /\ produced < Puts /\ UNCHANGED <<main, stopEvent>>
          /\ producing' = (produced' < Puts)
      BY <2>3 DEF Produce
    <3>2. produced' <= Puts /\ produced' \in Nat
      BY <1>1, <3>1, PutsFacts
    <3>3. producing' => produced' < Puts
      BY <3>1
    <3>4. ~producing' => produced' = Puts
      <4>1. ~producing' => ~(produced' < Puts)
        BY <3>1, Zenon
      <4>2. ~(produced' < Puts) => produced' = Puts
        BY <3>2, PutsFacts
      <4> QED BY <4>1, <4>2
    <3>5. UNCHANGED <<main, stopEvent>>
      BY <3>1
    <3>6. Normal' => Normal /\ stopEvent' = stopEvent
      BY <3>5 DEF Normal
    <3> QED BY <3>3, <3>4, <3>5, <3>6
  <2>4. CASE ProducerDone \/ Join("joinA", inQ, AWorkers, "endB") \/ Join("joinB", abQ, BWorkers, "endC")
    BY <2>4 DEF ProducerDone, Join, Move, NormalInv, Normal
  <2>5. CASE EndStageB \/ EndStageC
    BY <2>5 DEF EndStageB, EndStageC, PutSentinels, Move, NormalInv, Normal
  <2>6. CASE NormalEnd \/ StoppedEnd
    BY <2>6 DEF NormalEnd, StoppedEnd, Reconcile, NormalInv, Normal
  <2>7. CASE StopAll \/ Expire
    BY <2>7 DEF StopAll, Expire, Move, NormalInv, Normal
  <2> QED BY <2>1, <2>2, <2>3, <2>4, <2>5, <2>6, <2>7, StageSteps DEF MainStep
<1>3. Normal' => \A i \in Items : i <= produced' =>
        result'[i] # "none" \/ i \in Elements(inQ)' \cup Owners'
  BY <1>2, RowsStep
<1>4. main \in {"endB", "joinB", "endC", "joinC"} => inQ' = <<>>
  BY <1>1, JoinedStayEmpty DEF NormalInv, ControlInv
<1>5. main \in {"endC", "joinC"} => abQ' = <<>>
  BY <1>1, JoinedStayEmpty DEF NormalInv, ControlInv
<1>6. Normal' => ~stopEvent'
  BY <1>2 DEF NormalInv
<1> QED BY <1>2, <1>3, <1>4, <1>5, <1>6 DEF NormalInv

(* On the normal path every row has its status when the last stage has       *)
(* ended: reconciliation finds nothing to cancel, whatever the queue sizes,  *)
(* the numbers of workers and the outcomes of the calls.                     *)
THEOREM NormalPathRecordsAll == PipeSpec => []NormalEndRecordsAll
<1>1. PipeInit => NormalInv
  BY PutsFacts, AllInOneAssumption DEF PipeInit, NormalInv, Normal, Items
<1>2. PipeInv /\ NormalInv /\ [PipeNext]_pipeVars => NormalInv'
  <2>1. ASSUME NormalInv, UNCHANGED pipeVars PROVE NormalInv'
    BY <2>1 DEF NormalInv, Normal, Owners, Held, Elements
  <2> QED BY <2>1, NormalStep
<1>3. PipeInv /\ NormalInv => NormalEndRecordsAll
  <2> SUFFICES ASSUME PipeInv, NormalInv, main = "joinC", bcQ = <<>>, Gone(CWorkers), NEW i \in Items
               PROVE  result[i] # "none"
    BY DEF NormalEndRecordsAll
  <2>1. Gone(Workers) /\ ~producing
    BY DEF PipeInv, ControlInv, Gone, Workers
  <2>2. inQ = <<>> /\ abQ = <<>> /\ produced = Puts
    BY <2>1 DEF NormalInv, Normal
  <2>3. Held(Workers) = {}
    BY <2>1 DEF PipeInv, PlaceInv, Gone, Held
  <2>4. Elements(inQ) = {} /\ Elements(abQ) = {} /\ Elements(bcQ) = {}
    BY <2>2, NoElements
  <2>5. Elements(inQ) \cup Owners = {}
    BY <2>3, <2>4 DEF Owners
  <2>6. i <= produced
    BY <2>2, PutsFacts, AllInOneAssumption DEF Items
  <2> QED BY <2>5, <2>6 DEF NormalInv, Normal
<1> QED BY <1>1, <1>2, <1>3, PipeInvariant, PTL DEF PipeSpec
=============================================================================
