--------------------- MODULE SubprocessTransportProofs ---------------------
(* Type correctness and the safety invariants of SubprocessTransport, for   *)
(* any number of callers, questions, requests and buffered lines.           *)
EXTENDS SubprocessTransport, SequenceTheorems, TLAPS

-----------------------------------------------------------------------------
(* The inductive invariant, in three parts that depend on different state.  *)

\* The child, start(), close() and the reader have values of their kinds.
LifeOK ==
  /\ proc \in {"none", "running", "exited"} /\ handle \in BOOLEAN
  /\ starter \in {"idle", "handshaking", "done", "failing", "failed"}
  /\ closer \in {"idle", "reader", "exit", "done", "cut"}
  /\ reader \in {"none", "reading", "exit", "stderr", "done"} /\ readerCancel \in BOOLEAN
  /\ exitErr \in ExitKinds \cup {"none"}

\* The requests: every id given out has its question on record and a future,
\* and no two requests under way share an id.
DataOK ==
  /\ nextId \in 1..MaxId + 1 /\ pending \subseteq 1..nextId - 1
  /\ fut \in [Ids -> Outcomes \cup {Open, Unused}]
  /\ asked \in [Ids -> Questions \cup {None}]
  /\ pc \in [Callers -> {"idle", "draining", "waiting"}]
  /\ req \in [Callers -> 0..MaxId] /\ got \in [Callers -> Outcomes]

Registered ==
  /\ \A i \in Ids : i < nextId => asked[i] \in Questions /\ fut[i] # Unused
  /\ \A c \in Callers : Busy(c) => req[c] \in 1..nextId - 1

DataInv == DataOK /\ Registered /\ Correlated

\* The pipes: what is in them was asked, and every answer is the right one.
RightFrame(f) == f.id < nextId /\ (f.kind = "answer" => f.body = asked[f.id])

PipesInv ==
  /\ stdin \in Seq(Ids) /\ stdout \in Seq(Frames)
  /\ \A k \in 1..Len(stdin) : stdin[k] < nextId
  /\ \A k \in 1..Len(stdout) : RightFrame(stdout[k])

\* The invariant that makes TypeOK and Correlated inductive.
IInv == LifeOK /\ DataInv /\ PipesInv

LEMMA IInvImplies == IInv => TypeOK /\ Correlated
BY DEF IInv, LifeOK, DataInv, DataOK, PipesInv, TypeOK

-----------------------------------------------------------------------------
(* Lemmas about outcomes and about the two ends of a pipe.                  *)

LEMMA OutcomeFacts ==
  /\ Failure \in Outcomes
  /\ \A o \in Outcomes : o # Unused /\ o # Open
  /\ Open # Unused /\ Failure.kind # "answer" /\ Open.kind # "answer" /\ Unused.kind # "answer"
  /\ Failure # Open /\ Failure # Unused
BY DEF Outcomes, Failure, Unused, Open

\* Taking the first element of a sequence leaves the others, in their order.
LEMMA TakeHead ==
  ASSUME NEW T, NEW s \in Seq(T), s # <<>>
  PROVE  /\ Head(s) = s[1] /\ 1 \in 1..Len(s) /\ Head(s) \in T /\ Tail(s) \in Seq(T)
         /\ \A k \in 1..Len(Tail(s)) : Tail(s)[k] = s[k + 1] /\ k + 1 \in 1..Len(s)
<1>1. Len(s) \in Nat /\ Len(s) # 0
  BY EmptySeq
<1>2. Head(s) = s[1] /\ Tail(s) \in Seq(T) /\ Len(Tail(s)) = Len(s) - 1
      /\ \A k \in 1..Len(Tail(s)) : Tail(s)[k] = s[k + 1]
  BY HeadTailProperties
<1>3. s[1] \in T
  BY <1>1
<1> QED
  BY <1>1, <1>2, <1>3

\* Appending an element leaves the others where they are.
LEMMA PutLast ==
  ASSUME NEW T, NEW s \in Seq(T), NEW e \in T
  PROVE  /\ Append(s, e) \in Seq(T)
         /\ \A k \in 1..Len(Append(s, e)) :
              \/ k \in 1..Len(s) /\ Append(s, e)[k] = s[k]
              \/ Append(s, e)[k] = e
BY AppendProperties

-----------------------------------------------------------------------------
(* The initial state.                                                       *)

LEMMA InitIInv == Init => IInv
<1> SUFFICES ASSUME Init PROVE IInv
  OBVIOUS
<1>1. LifeOK
  BY DEF Init, LifeOK
<1>2. DataOK
  BY BoundsAssumption, OutcomeFacts DEF Init, DataOK
<1>3. Registered /\ Correlated
  BY BoundsAssumption DEF Init, Registered, Correlated, Busy, Ids, Unused
<1>4. PipesInv
  BY EmptySeq DEF Init, PipesInv
<1> QED
  BY <1>1, <1>2, <1>3, <1>4 DEF IInv, DataInv

-----------------------------------------------------------------------------
(* A step that leaves the requests, or the pipes, alone keeps their part.   *)

LEMMA DataStays ==
  ASSUME DataInv, UNCHANGED <<requests, callers>>
  PROVE  DataInv'
BY DEF DataInv, DataOK, Registered, Correlated, Busy, requests, callers

LEMMA PipesStay ==
  ASSUME PipesInv, UNCHANGED <<stdin, stdout, nextId, asked>>
  PROVE  PipesInv'
BY DEF PipesInv, RightFrame

\* The same, for a pipe to the child that is dropped with the child.
LEMMA PipesDrop ==
  ASSUME PipesInv, stdin' = <<>>, UNCHANGED <<stdout, nextId, asked>>
  PROVE  PipesInv'
BY EmptySeq DEF PipesInv, RightFrame

\* Taking a line from stdout.
LEMMA PipesTake ==
  ASSUME PipesInv, stdout # <<>>, stdout' = Tail(stdout), UNCHANGED <<stdin, nextId, asked>>
  PROVE  PipesInv' /\ Head(stdout) \in Frames /\ RightFrame(Head(stdout))
<1>1. stdout \in Seq(Frames)
  BY DEF PipesInv
<1>2. /\ Head(stdout) = stdout[1] /\ 1 \in 1..Len(stdout) /\ Head(stdout) \in Frames
      /\ Tail(stdout) \in Seq(Frames)
      /\ \A k \in 1..Len(Tail(stdout)) : Tail(stdout)[k] = stdout[k + 1] /\ k + 1 \in 1..Len(stdout)
  BY <1>1, TakeHead
<1>3. RightFrame(Head(stdout))
  BY <1>2 DEF PipesInv
<1>4. \A k \in 1..Len(stdout') : RightFrame(stdout'[k])
  BY <1>2 DEF PipesInv
<1>5. PipesInv'
  BY <1>2, <1>4 DEF PipesInv, RightFrame
<1> QED
  BY <1>2, <1>3, <1>5

\* Adding a right line to stdout.
LEMMA PipesPut ==
  ASSUME PipesInv, NEW f \in Frames, RightFrame(f), stdout' = Append(stdout, f),
         stdin' \in Seq(Ids), \A k \in 1..Len(stdin') : stdin'[k] < nextId,
         UNCHANGED <<nextId, asked>>
  PROVE  PipesInv'
<1>1. stdout \in Seq(Frames)
  BY DEF PipesInv
<1>2. /\ stdout' \in Seq(Frames)
      /\ \A k \in 1..Len(stdout') : \/ k \in 1..Len(stdout) /\ stdout'[k] = stdout[k]
                                    \/ stdout'[k] = f
  BY <1>1, PutLast
<1>3. \A k \in 1..Len(stdout') : RightFrame(stdout'[k])
  BY <1>2 DEF PipesInv
<1> QED
  BY <1>2, <1>3 DEF PipesInv, RightFrame

\* _fail_pending closes futures with failures only.
LEMMA DataFails ==
  ASSUME DataInv, FailPending, UNCHANGED callers
  PROVE  DataInv'
<1>1. /\ nextId' = nextId /\ asked' = asked /\ pending' = {}
      /\ pc' = pc /\ req' = req /\ got' = got
  BY DEF FailPending, callers
<1>2. /\ fut' \in [Ids -> Outcomes \cup {Open, Unused}]
      /\ \A i \in Ids : fut'[i] = fut[i] \/ fut'[i] = Failure
  BY OutcomeFacts DEF DataInv, DataOK, FailPending
<1>3. DataOK'
  BY <1>1, <1>2 DEF DataInv, DataOK
<1>4. Registered'
  BY <1>1, <1>2, OutcomeFacts DEF DataInv, Registered, Busy
<1>5. Correlated'
  BY <1>1, <1>2, OutcomeFacts DEF DataInv, Correlated, Busy
<1> QED
  BY <1>3, <1>4, <1>5 DEF DataInv

-----------------------------------------------------------------------------
(* The actions that move the requests.                                      *)

LEMMA TakesIInv == IInv /\ ReaderTakes => DataInv'
<1> SUFFICES ASSUME IInv, ReaderTakes PROVE DataInv'
  OBVIOUS
<1> DEFINE f == Head(stdout)
           r == [kind |-> f.kind, body |-> f.body]
<1>1. /\ stdout # <<>> /\ stdout' = Tail(stdout) /\ pending' = pending \ {f.id}
      /\ fut' = IF f.id \in pending THEN [fut EXCEPT ![f.id] = r] ELSE fut
      /\ stdin' = stdin /\ nextId' = nextId /\ asked' = asked
      /\ pc' = pc /\ req' = req /\ got' = got
  BY DEF ReaderTakes, callers
<1>2. f \in Frames /\ RightFrame(f)
  BY <1>1, PipesTake DEF IInv
<1>3. f.id \in pending => f.id \in Ids /\ f.id # 0
  <2>1. \A i \in pending : i \in Ids /\ i # 0
    BY BoundsAssumption DEF IInv, DataInv, DataOK, Ids
  <2> QED
    BY <2>1
<1>4. f.id \in pending => r \in Outcomes
  BY <1>2, <1>3 DEF Frames, Outcomes, Failure
<1>5. f.id \in pending => r.kind = f.kind /\ r.body = f.body
  OBVIOUS
<1> HIDE DEF f, r
<1>6. /\ fut' \in [Ids -> Outcomes \cup {Open, Unused}]
      /\ \A i \in Ids : fut'[i] = fut[i] \/ (i = f.id /\ f.id \in pending /\ fut'[i] = r)
  BY <1>1, <1>3, <1>4 DEF IInv, DataInv, DataOK
<1>7. DataOK'
  BY <1>1, <1>6 DEF IInv, DataInv, DataOK
<1>8. Registered'
  BY <1>1, <1>4, <1>6, OutcomeFacts DEF IInv, DataInv, Registered, Busy
<1>9. Correlated'
  BY <1>1, <1>2, <1>5, <1>6 DEF IInv, DataInv, Correlated, Busy, RightFrame
<1> QED
  BY <1>7, <1>8, <1>9 DEF DataInv

LEMMA AskIInv ==
  ASSUME IInv, NEW c \in Callers, NEW q \in Questions, Ask(c, q)
  PROVE  DataInv' /\ PipesInv'
<1>1. /\ nextId <= MaxId /\ nextId' = nextId + 1 /\ pending' = pending \cup {nextId}
      /\ fut' = [fut EXCEPT ![nextId] = Open] /\ asked' = [asked EXCEPT ![nextId] = q]
      /\ stdin' = (IF proc = "running" THEN Append(stdin, nextId) ELSE stdin)
      /\ pc' = [pc EXCEPT ![c] = "draining"] /\ req' = [req EXCEPT ![c] = nextId]
      /\ stdout' = stdout /\ got' = got
  BY DEF Ask
<1>2. nextId \in Ids /\ nextId \in 1..MaxId
  BY <1>1, BoundsAssumption DEF IInv, DataInv, DataOK, Ids
<1>3. DataOK'
  BY <1>1, <1>2, BoundsAssumption DEF IInv, DataInv, DataOK
<1>4. Registered'
  <2>1. \A i \in Ids : i < nextId' => asked'[i] \in Questions /\ fut'[i] # Unused
    BY <1>1, <1>2, OutcomeFacts DEF IInv, DataInv, DataOK, Registered, Ids
  <2>2. \A d \in Callers : pc'[d] # "idle" => req'[d] \in 1..nextId' - 1
    BY <1>1, <1>2 DEF IInv, DataInv, DataOK, Registered, Busy
  <2> QED
    BY <2>1, <2>2 DEF Registered, Busy
<1>5. Correlated'
  <2>1. \A i \in Ids : fut'[i].kind = "answer" => fut'[i].body = asked'[i]
    BY <1>1, <1>2, OutcomeFacts DEF IInv, DataInv, DataOK, Correlated
  <2>2. \A d, e \in Callers :
          pc'[d] # "idle" /\ pc'[e] # "idle" /\ req'[d] = req'[e] => d = e
    BY <1>1, <1>2 DEF IInv, DataInv, DataOK, Correlated, Registered, Busy
  <2> QED
    BY <2>1, <2>2 DEF Correlated, Busy
<1>6. PipesInv'
  <2>1. stdin \in Seq(Ids)
    BY DEF IInv, PipesInv
  <2>2. stdin' \in Seq(Ids)
    BY <1>1, <1>2, <2>1, PutLast
  <2>3. \A k \in 1..Len(stdin') : stdin'[k] < nextId'
    <3>1. \A k \in 1..Len(Append(stdin, nextId)) :
            \/ k \in 1..Len(stdin) /\ Append(stdin, nextId)[k] = stdin[k]
            \/ Append(stdin, nextId)[k] = nextId
      BY <1>2, <2>1, PutLast
    <3>2. \A k \in 1..Len(stdin) : stdin[k] < nextId /\ stdin[k] \in Ids
      BY <2>1 DEF IInv, PipesInv
    <3> QED
      BY <1>1, <1>2, <3>1, <3>2 DEF Ids
  <2>4. \A k \in 1..Len(stdout) : RightFrame(stdout[k])'
    <3> SUFFICES ASSUME NEW k \in 1..Len(stdout)
                 PROVE  stdout[k].id < nextId'
                        /\ (stdout[k].kind = "answer" => stdout[k].body = asked'[stdout[k].id])
      BY <1>1 DEF RightFrame
    <3>1. stdout[k] \in Frames /\ RightFrame(stdout[k])
      BY DEF IInv, PipesInv
    <3>2. stdout[k].id \in Nat
      BY <3>1, BoundsAssumption DEF Frames, Ids
    <3>3. stdout[k].kind = "answer" => stdout[k].id \in Ids
      BY <3>1 DEF Frames
    <3> QED
      BY <1>1, <1>2, <3>1, <3>2, <3>3 DEF RightFrame, IInv, DataInv, DataOK, Ids
  <2> QED
    BY <1>1, <2>2, <2>3, <2>4 DEF PipesInv, IInv
<1> QED
  BY <1>5, <1>3, <1>4, <1>6 DEF DataInv

\* A request that raises or returns frees its caller and touches no future.
LEMMA EndsIInv ==
  ASSUME IInv, NEW c \in Callers, Raises(c) \/ Returns(c)
  PROVE  DataInv'
<1>1. /\ nextId' = nextId /\ fut' = fut /\ asked' = asked /\ req' = req
      /\ pending' \subseteq pending /\ pc' = [pc EXCEPT ![c] = "idle"]
  BY DEF Raises, Returns, requests
<1>2. \E o \in Outcomes : got' = [got EXCEPT ![c] = o]
  <2>1. CASE Raises(c)
    BY <2>1, OutcomeFacts DEF Raises
  <2>2. CASE Returns(c)
    <3>1. req[c] \in Ids /\ req[c] < nextId /\ fut[req[c]] # Open
      BY <2>2 DEF Returns, IInv, DataInv, DataOK, Registered, Busy, Ids
    <3>2. fut[req[c]] \in Outcomes
      BY <3>1 DEF IInv, DataInv, DataOK, Registered
    <3> QED
      BY <2>2, <3>2 DEF Returns
  <2> QED
    BY <2>1, <2>2
<1>3. DataOK'
  BY <1>1, <1>2 DEF IInv, DataInv, DataOK
<1>4. Registered' /\ Correlated'
  BY <1>1 DEF IInv, DataInv, DataOK, Registered, Correlated, Busy
<1> QED
  BY <1>3, <1>4 DEF DataInv

LEMMA DrainedIInv ==
  ASSUME IInv, NEW c \in Callers, Drained(c)
  PROVE  DataInv'
<1>1. pc[c] = "draining" /\ pc' = [pc EXCEPT ![c] = "waiting"]
      /\ UNCHANGED <<nextId, pending, fut, asked, req, got>>
  BY DEF Drained, requests
<1> QED
  BY <1>1 DEF IInv, DataInv, DataOK, Registered, Correlated, Busy

-----------------------------------------------------------------------------
(* Every step keeps the invariant.                                          *)

LEMMA StepLife == IInv /\ Next => LifeOK'
<1> SUFFICES ASSUME IInv, Next PROVE LifeOK'
  OBVIOUS
<1>0. LifeOK
  BY DEF IInv
<1> USE <1>0 DEF LifeOK, lifecycle, readers, child
<1>1. CASE Child
  BY <1>1 DEF Child, ChildGreets, ChildAnswers, ChildExits, ChildSays
<1>2. CASE Spawn
  BY <1>2 DEF Spawn
<1>3. CASE StartRuns
  BY <1>3 DEF StartRuns, StartReads, StartGivesUp, StartFails, StartRaises
<1>4. CASE Reader
  BY <1>4 DEF Reader, ReaderTakes, ReaderBreaks, ReaderSeesEOF, ReaderSeesExit,
    ReaderClassifies, ReaderCancelled
<1>5. CASE CloseBegins
  BY <1>5 DEF CloseBegins
<1>6. CASE CloseRuns
  BY <1>6 DEF CloseRuns, CloseReaderDone, CloseKills, CloseEnds
<1>7. CASE CloseCancelled
  BY <1>7 DEF CloseCancelled
<1>8. ASSUME NEW c \in Callers, RequestRuns(c) \/ \E q \in Questions : Ask(c, q)
      PROVE  LifeOK'
  BY <1>8 DEF RequestRuns, Drained, DrainFails, TimesOut, Raises, Returns, Ask
<1> QED
  BY <1>1, <1>2, <1>3, <1>4, <1>5, <1>6, <1>7, <1>8 DEF Next

LEMMA StepRest == IInv /\ Next => DataInv' /\ PipesInv'
<1> SUFFICES ASSUME IInv, Next PROVE DataInv' /\ PipesInv'
  OBVIOUS
<1>0. LifeOK /\ DataInv /\ PipesInv
  BY DEF IInv
<1>1. CASE ChildGreets
  <2>1. PICK k \in {"hello", "refusal", "noise"} : ChildSays(Frame(0, k, None))
    BY <1>1 DEF ChildGreets
  <2>2. Frame(0, k, None) \in Frames /\ RightFrame(Frame(0, k, None))
    BY <1>0 DEF Frames, Frame, RightFrame, DataInv, DataOK
  <2>3. stdin' \in Seq(Ids) /\ (\A j \in 1..Len(stdin') : stdin'[j] < nextId)
        /\ UNCHANGED <<nextId, asked, requests, callers>>
    BY <1>0, <1>1 DEF ChildGreets, PipesInv, requests
  <2> QED
    BY <1>0, <2>1, <2>2, <2>3, PipesPut, DataStays DEF ChildSays
<1>2. CASE ChildAnswers
  <2> DEFINE i == Head(stdin)
  <2>1. PICK k \in {"answer", "failure"} :
          ChildSays(Frame(i, k, IF k = "answer" THEN asked[i] ELSE None))
    BY <1>2 DEF ChildAnswers
  <2>2. stdin # <<>> /\ stdin' = Tail(stdin) /\ UNCHANGED <<nextId, asked, requests, callers>>
    BY <1>2 DEF ChildAnswers, requests
  <2>3. i = stdin[1] /\ 1 \in 1..Len(stdin) /\ i \in Ids /\ stdin' \in Seq(Ids)
        /\ \A j \in 1..Len(stdin') : stdin'[j] = stdin[j + 1] /\ j + 1 \in 1..Len(stdin)
    BY <1>0, <2>2, TakeHead DEF PipesInv
  <2>4. i < nextId /\ \A j \in 1..Len(stdin') : stdin'[j] < nextId
    BY <1>0, <2>3 DEF PipesInv
  <2>5. asked[i] \in Questions
    BY <1>0, <2>3, <2>4 DEF DataInv, Registered
  <2> DEFINE f == Frame(i, k, IF k = "answer" THEN asked[i] ELSE None)
  <2>6. f \in Frames /\ RightFrame(f)
    BY <2>3, <2>4, <2>5 DEF Frames, Frame, RightFrame
  <2>7. stdout' = Append(stdout, f)
    BY <2>1 DEF ChildSays
  <2> HIDE DEF f, i
  <2> QED
    BY <1>0, <2>2, <2>3, <2>4, <2>6, <2>7, PipesPut, DataStays
<1>3. CASE ChildExits \/ CloseKills
  <2>1. stdin' = <<>> /\ UNCHANGED <<stdout, nextId, asked, requests, callers>>
    BY <1>3 DEF ChildExits, CloseKills, requests
  <2> QED
    BY <1>0, <2>1, PipesDrop, DataStays
<1>4. CASE Spawn \/ StartFails \/ StartRaises \/ ReaderSeesEOF \/ ReaderSeesExit
           \/ CloseBegins \/ CloseReaderDone \/ CloseCancelled
  <2>1. UNCHANGED <<stdin, stdout, nextId, asked, requests, callers>>
    BY <1>4 DEF Spawn, StartFails, StartGivesUp, StartRaises, ReaderSeesEOF, ReaderSeesExit,
      CloseBegins, CloseReaderDone, CloseCancelled, child, requests
  <2> QED
    BY <1>0, <2>1, PipesStay, DataStays
<1>5. CASE StartReads
  <2>1. stdout # <<>> /\ stdout' = Tail(stdout)
        /\ UNCHANGED <<stdin, nextId, asked, requests, callers>>
    BY <1>5 DEF StartReads, StartGivesUp, requests
  <2> QED
    BY <1>0, <2>1, PipesTake, DataStays
<1>6. CASE ReaderTakes
  <2>1. stdout # <<>> /\ stdout' = Tail(stdout) /\ UNCHANGED <<stdin, nextId, asked>>
    BY <1>6 DEF ReaderTakes
  <2> QED
    BY <1>0, <1>6, <2>1, PipesTake, TakesIInv
<1>7. CASE ReaderBreaks \/ ReaderClassifies \/ CloseEnds
  <2>1. FailPending /\ UNCHANGED <<stdin, stdout, nextId, asked, callers>>
    BY <1>7 DEF ReaderBreaks, ReaderClassifies, CloseEnds, FailPending, child
  <2> QED
    BY <1>0, <2>1, PipesStay, DataFails
<1>8. CASE ReaderCancelled
  <2>1. /\ FailPending \/ UNCHANGED requests
        /\ UNCHANGED <<stdin, stdout, nextId, asked, callers>>
    BY <1>8 DEF ReaderCancelled, FailPending, child, requests
  <2> QED
    BY <1>0, <2>1, PipesStay, DataFails, DataStays
<1>9. ASSUME NEW c \in Callers, RequestRuns(c) PROVE DataInv' /\ PipesInv'
  <2>1. UNCHANGED <<stdin, stdout, nextId, asked>>
    BY <1>9 DEF RequestRuns, Drained, DrainFails, TimesOut, Raises, Returns, child, requests
  <2>2. Drained(c) \/ Raises(c) \/ Returns(c)
    BY <1>9 DEF RequestRuns, DrainFails, TimesOut
  <2> QED
    BY <1>0, <2>1, <2>2, PipesStay, DrainedIInv, EndsIInv
<1>10. ASSUME NEW c \in Callers, NEW q \in Questions, Ask(c, q) PROVE DataInv' /\ PipesInv'
  BY <1>10, AskIInv
<1> QED
  BY <1>1, <1>2, <1>3, <1>4, <1>5, <1>6, <1>7, <1>8, <1>9, <1>10
  DEF Next, Child, StartRuns, Reader, CloseRuns

LEMMA StepIInv == IInv /\ [Next]_vars => IInv'
<1>1. IInv /\ Next => IInv'
  BY StepLife, StepRest DEF IInv
<1>2. IInv /\ UNCHANGED vars => IInv'
  <2> SUFFICES ASSUME IInv, UNCHANGED vars PROVE IInv'
    OBVIOUS
  <2>1. UNCHANGED <<child, lifecycle, readers, requests, callers>>
    BY DEF vars
  <2>2. LifeOK'
    BY <2>1 DEF IInv, LifeOK, child, lifecycle, readers
  <2>3. UNCHANGED <<stdin, stdout, nextId, asked, requests, callers>>
    BY <2>1 DEF child, requests
  <2> QED
    BY <2>2, <2>3, PipesStay, DataStays DEF IInv
<1> QED
  BY <1>1, <1>2

-----------------------------------------------------------------------------
(* The theorems.                                                            *)

LEMMA Invariance == Spec => []IInv
BY InitIInv, StepIInv, PTL DEF Spec

\* The state of SubprocessTransport (subprocess.py:113-121) and its two pipes
\* keep their types whatever the tasks and the child do, in any number.
THEOREM Typing == Spec => []TypeOK
BY Invariance, IInvImplies, PTL

\* No request is ever resolved with the answer to another one, whatever is
\* late, out of order or unknown on the pipe (subprocess.py:194-203, 304-308).
THEOREM Correlation == Spec => []Correlated
BY Invariance, IInvImplies, PTL

-----------------------------------------------------------------------------
(* The pending map and the requests under way: PendingExact.                *)

\* Caller c awaits request i, and nothing has resolved it.
Awaits(c, i) == Busy(c) /\ req[c] = i /\ fut[i] = Open

LEMMA PendingPointwise ==
  PendingExact <=> \A i : i \in pending <=> \E c \in Callers : Awaits(c, i)
BY DEF PendingExact, Awaits

LEMMA PendingPointwiseNext ==
  PendingExact' <=> \A i : i \in pending' <=> \E c \in Callers : Awaits(c, i)'
BY DEF PendingExact, Awaits, Busy

LEMMA PendingStays ==
  ASSUME PendingExact, UNCHANGED <<pending, fut, pc, req>>
  PROVE  PendingExact'
BY DEF PendingExact, Busy

LEMMA PendingFails ==
  ASSUME IInv, PendingExact, FailPending, UNCHANGED callers
  PROVE  PendingExact'
<1>1. pending' = {} /\ pc' = pc /\ req' = req
      /\ fut' = [i \in Ids |-> IF i \in pending /\ fut[i] = Open THEN Failure ELSE fut[i]]
  BY DEF FailPending, callers
<1>2. \A c \in Callers : Busy(c) => req[c] \in Ids
  BY DEF IInv, DataInv, DataOK, Registered, Ids
<1>3. \A c \in Callers : \A i : ~ Awaits(c, i)'
  BY <1>1, <1>2, PendingPointwise, OutcomeFacts DEF Awaits, Busy
<1> QED
  BY <1>1, <1>3, PendingPointwiseNext

LEMMA PendingTakes ==
  ASSUME IInv, PendingExact, ReaderTakes
  PROVE  PendingExact'
<1> DEFINE n == Head(stdout).id
           r == [kind |-> Head(stdout).kind, body |-> Head(stdout).body]
<1>1. /\ pending' = pending \ {n} /\ pc' = pc /\ req' = req
      /\ fut' = IF n \in pending THEN [fut EXCEPT ![n] = r] ELSE fut
      /\ stdout # <<>>
  BY DEF ReaderTakes, callers
<1>2. n \in pending => n \in Ids /\ n # 0
  <2>1. \A i \in pending : i \in Ids /\ i # 0
    BY BoundsAssumption DEF IInv, DataInv, DataOK, Ids
  <2> QED
    BY <2>1
<1>3. n \in pending => r # Open
  <2>1. Head(stdout) \in Frames
    BY <1>1, PipesTake, TakeHead DEF IInv, PipesInv
  <2> QED
    BY <1>2, <2>1 DEF Frames, Open
<1>4. fut \in [Ids -> Outcomes \cup {Open, Unused}]
  BY DEF IInv, DataInv, DataOK
<1> HIDE DEF n, r
<1>5. \A i : i \in pending' <=> \E c \in Callers : Awaits(c, i)'
  <2>1. CASE n \in pending
    BY <1>1, <1>2, <1>3, <1>4, <2>1, PendingPointwise DEF Awaits, Busy
  <2>2. CASE n \notin pending
    BY <1>1, <2>2, PendingPointwise DEF Awaits, Busy
  <2> QED
    BY <2>1, <2>2
<1> QED
  BY <1>5, PendingPointwiseNext

LEMMA PendingAsks ==
  ASSUME IInv, PendingExact, NEW c \in Callers, NEW q \in Questions, Ask(c, q)
  PROVE  PendingExact'
<1>1. /\ ~ Busy(c) /\ pending' = pending \cup {nextId} /\ fut' = [fut EXCEPT ![nextId] = Open]
      /\ pc' = [pc EXCEPT ![c] = "draining"] /\ req' = [req EXCEPT ![c] = nextId]
      /\ nextId <= MaxId
  BY DEF Ask, Busy
<1>2. nextId \in Ids /\ \A d \in Callers : Busy(d) => req[d] # nextId
  BY <1>1, BoundsAssumption DEF IInv, DataInv, DataOK, Registered, Ids
<1>3. /\ pc \in [Callers -> {"idle", "draining", "waiting"}] /\ req \in [Callers -> 0..MaxId]
      /\ fut \in [Ids -> Outcomes \cup {Open, Unused}]
  BY DEF IInv, DataInv, DataOK
<1>4. \A i : Awaits(c, i)' <=> i = nextId
  BY <1>1, <1>2, <1>3 DEF Awaits, Busy
<1>5. \A d \in Callers : \A i : d # c => (Awaits(d, i)' <=> Awaits(d, i))
  BY <1>1, <1>2, <1>3 DEF Awaits, Busy
<1>6. \A i : ~ Awaits(c, i)
  BY <1>1 DEF Awaits
<1>7. \A i : i \in pending' <=> \E d \in Callers : Awaits(d, i)'
  BY <1>1, <1>4, <1>5, <1>6, PendingPointwise
<1> QED
  BY <1>7, PendingPointwiseNext

LEMMA PendingEnds ==
  ASSUME IInv, PendingExact, NEW c \in Callers,
         (Raises(c) /\ Busy(c)) \/ Returns(c) \/ Drained(c)
  PROVE  PendingExact'
<1>1. pc \in [Callers -> {"idle", "draining", "waiting"}]
  BY DEF IInv, DataInv, DataOK
<1>2. CASE Raises(c) /\ Busy(c)
  <2>1. pending' = pending \ {req[c]} /\ pc' = [pc EXCEPT ![c] = "idle"]
        /\ req' = req /\ fut' = fut
    BY <1>2 DEF Raises
  <2>2. \A d \in Callers : d # c /\ Busy(d) => req[d] # req[c]
    BY <1>2 DEF IInv, DataInv, Correlated
  <2>3. \A i : ~ Awaits(c, i)'
    BY <1>1, <2>1 DEF Awaits, Busy
  <2>4. \A d \in Callers : \A i : d # c => (Awaits(d, i)' <=> Awaits(d, i))
    BY <1>1, <2>1 DEF Awaits, Busy
  <2>5. \A d \in Callers : \A i : Awaits(d, i) => (i = req[c] <=> d = c)
    BY <2>2 DEF Awaits
  <2> QED
    BY <2>1, <2>3, <2>4, <2>5, PendingPointwise, PendingPointwiseNext
<1>3. CASE Returns(c)
  <2>1. /\ pc' = [pc EXCEPT ![c] = "idle"] /\ fut[req[c]] # Open
        /\ pending' = pending /\ req' = req /\ fut' = fut
    BY <1>3 DEF Returns, requests
  <2>2. \A d \in Callers : \A i : Awaits(d, i)' <=> Awaits(d, i)
    BY <1>1, <2>1 DEF Awaits, Busy
  <2> QED
    BY <2>1, <2>2, PendingPointwise, PendingPointwiseNext
<1>4. CASE Drained(c)
  <2>1. /\ pc[c] = "draining" /\ pc' = [pc EXCEPT ![c] = "waiting"]
        /\ pending' = pending /\ req' = req /\ fut' = fut
    BY <1>4 DEF Drained, requests
  <2>2. \A d \in Callers : \A i : Awaits(d, i)' <=> Awaits(d, i)
    BY <1>1, <2>1 DEF Awaits, Busy
  <2> QED
    BY <2>1, <2>2, PendingPointwise, PendingPointwiseNext
<1> QED
  BY <1>2, <1>3, <1>4

LEMMA StepPending == IInv /\ PendingExact /\ [Next]_vars => PendingExact'
<1> SUFFICES ASSUME IInv, PendingExact, [Next]_vars PROVE PendingExact'
  OBVIOUS
<1>1. CASE Child \/ Spawn \/ StartRuns \/ ReaderSeesEOF \/ ReaderSeesExit
           \/ CloseBegins \/ CloseReaderDone \/ CloseKills \/ CloseCancelled \/ UNCHANGED vars
  <2>1. UNCHANGED <<requests, callers>>
    BY <1>1 DEF Child, ChildGreets, ChildAnswers, ChildExits, Spawn, StartRuns, StartReads,
      StartFails, StartGivesUp, StartRaises, ReaderSeesEOF, ReaderSeesExit, CloseBegins,
      CloseReaderDone, CloseKills, CloseCancelled, vars
  <2> QED
    BY <2>1, PendingStays DEF requests, callers
<1>2. CASE ReaderTakes
  BY <1>2, PendingTakes
<1>3. CASE ReaderBreaks \/ ReaderClassifies \/ CloseEnds
  BY <1>3, PendingFails DEF ReaderBreaks, ReaderClassifies, CloseEnds
<1>4. CASE ReaderCancelled
  <2>1. (FailPending \/ UNCHANGED requests) /\ UNCHANGED callers
    BY <1>4 DEF ReaderCancelled
  <2> QED
    BY <2>1, PendingFails, PendingStays DEF requests, callers
<1>5. ASSUME NEW c \in Callers, RequestRuns(c) PROVE PendingExact'
  BY <1>5, PendingEnds DEF RequestRuns, DrainFails, TimesOut, Busy
<1>6. ASSUME NEW c \in Callers, NEW q \in Questions, Ask(c, q) PROVE PendingExact'
  BY <1>6, PendingAsks
<1> QED
  BY <1>1, <1>2, <1>3, <1>4, <1>5, <1>6 DEF Next, Reader, CloseRuns

\* _pending is exact for any number of coroutines and requests: nothing leaks,
\* and nothing that is awaited is missed (subprocess.py:194, 253-257, 308-320).
THEOREM ExactPending == Spec => []PendingExact
<1>1. Init => PendingExact
  BY DEF Init, PendingExact, Busy
<1> QED
  BY <1>1, StepPending, Invariance, PTL DEF Spec

-----------------------------------------------------------------------------
(* The order of start(), close() and the reader: ClosedIsQuiet.             *)

LifeInv ==
  /\ closer \in {"exit", "done", "cut"} => reader \in {"none", "done"}
  /\ closer # "idle" => handle = FALSE
  /\ starter = "idle" => proc = "none"
  /\ starter \in {"idle", "handshaking"} => reader = "none" /\ closer = "idle"
  /\ starter \in {"failing", "failed"} => reader = "none" /\ handle = FALSE
  /\ readerCancel = TRUE => closer = "reader" /\ reader # "done"
  /\ closer = "done" => proc # "running" /\ pending = {}
  /\ exitErr # "none" => reader = "done"

LEMMA StepLifeInv == IInv /\ LifeInv /\ [Next]_vars => LifeInv'
<1> SUFFICES ASSUME IInv, LifeInv, [Next]_vars PROVE LifeInv'
  OBVIOUS
<1>0. LifeOK
  BY DEF IInv
<1> USE <1>0 DEF LifeInv, LifeOK, lifecycle, readers, child, requests
<1>1. CASE Child
  BY <1>1 DEF Child, ChildGreets, ChildAnswers, ChildExits, ChildSays
<1>2. CASE Spawn
  BY <1>2 DEF Spawn
<1>3. CASE StartRuns
  BY <1>3 DEF StartRuns, StartReads, StartGivesUp, StartFails, StartRaises
<1>4. CASE ReaderTakes \/ ReaderBreaks \/ ReaderSeesEOF \/ ReaderSeesExit
  BY <1>4 DEF ReaderTakes, ReaderBreaks, ReaderSeesEOF, ReaderSeesExit, FailPending
<1>5. CASE ReaderClassifies \/ ReaderCancelled
  BY <1>5 DEF ReaderClassifies, ReaderCancelled, FailPending
<1>6. CASE CloseBegins
  BY <1>6 DEF CloseBegins
<1>7. CASE CloseRuns \/ CloseCancelled
  BY <1>7 DEF CloseRuns, CloseReaderDone, CloseKills, CloseEnds, CloseCancelled, FailPending
<1>8. ASSUME NEW c \in Callers, RequestRuns(c) PROVE LifeInv'
  BY <1>8 DEF RequestRuns, Drained, DrainFails, TimesOut, Raises, Returns
<1>9. ASSUME NEW c \in Callers, NEW q \in Questions, Ask(c, q) PROVE LifeInv'
  BY <1>9 DEF Ask
<1>10. CASE UNCHANGED vars
  BY <1>10 DEF vars
<1> QED
  BY <1>1, <1>2, <1>3, <1>4, <1>5, <1>6, <1>7, <1>8, <1>9, <1>10 DEF Next, Reader

LEMMA LifeInvariance == Spec => []LifeInv
<1>1. Init => LifeInv
  BY DEF Init, LifeInv
<1> QED
  BY <1>1, StepLifeInv, Invariance, PTL DEF Spec

\* A transport that close() has finished with is at rest, in every
\* interleaving of close() with the reader, start() and the requests
\* (subprocess.py:259-289).
THEOREM Quiet == Spec => []ClosedIsQuiet
<1>1. IInv /\ LifeInv /\ PendingExact => ClosedIsQuiet
  <2> SUFFICES ASSUME IInv, LifeInv, PendingExact, closer = "done"
               PROVE  /\ proc # "running" /\ reader \in {"none", "done"} /\ ~readerCancel
                      /\ pending = {} /\ \A c \in Callers : Busy(c) => fut[req[c]] # Open
    BY DEF ClosedIsQuiet
  <2>1. proc # "running" /\ reader \in {"none", "done"} /\ pending = {}
    BY DEF LifeInv
  <2>2. readerCancel = FALSE
    BY DEF LifeInv, IInv, LifeOK
  <2>3. \A c \in Callers : Busy(c) => fut[req[c]] # Open
    BY <2>1, PendingPointwise DEF Awaits
  <2> QED
    BY <2>1, <2>2, <2>3
<1> QED
  BY <1>1, Invariance, LifeInvariance, ExactPending, PTL

\* The exit error is written once (subprocess.py:212): the reader that
\* classifies an exit ends with it.
THEOREM ExitIsFinal == Spec => ExitErrorIsFinal
<1>1. LifeInv /\ [Next]_vars => [exitErr # "none" => exitErr' = exitErr]_vars
  <2> SUFFICES ASSUME LifeInv, Next, exitErr # "none" PROVE exitErr' = exitErr
    OBVIOUS
  <2>1. reader = "done"
    BY DEF LifeInv
  <2> QED
    BY <2>1 DEF Next, Child, ChildGreets, ChildAnswers, ChildExits, Spawn, StartRuns, StartReads,
      StartFails, StartGivesUp, StartRaises, Reader, ReaderTakes, ReaderBreaks, ReaderSeesEOF,
      ReaderSeesExit, ReaderClassifies, ReaderCancelled, CloseBegins, CloseRuns, CloseReaderDone,
      CloseKills, CloseEnds, CloseCancelled, RequestRuns, Drained, DrainFails, TimesOut, Raises,
      Returns, Ask, readers
<1> QED
  BY <1>1, LifeInvariance, PTL DEF Spec, ExitErrorIsFinal

-----------------------------------------------------------------------------
(* The transport contract: every step of SubprocessTransport is a step of   *)
(* TransportContract or leaves what ClientSession sees as it was.           *)

\* The request each caller waits on, as the contract sees it.
Request == [c \in Callers |-> IF Busy(c) THEN asked[req[c]] ELSE None]

\* How the contract lets a transport's life go on while no request moves.
Moves(from, to) ==
  \/ from = to
  \/ from = "new" /\ to \in {"starting", "closed"}
  \/ from = "starting" /\ to \in {"up", "closing"}
  \/ from = "up" /\ to \in {"dead", "closing"}
  \/ from = "dead" /\ to = "closing"
  \/ from = "closing" /\ to = "closed"

LEMMA MovesAreSteps ==
  ASSUME Moves(Status, Status'), Request' = Request, got' = got
  PROVE  [Contract!Next]_(Contract!vars)
<1>1. CASE Status' = Status
  BY <1>1 DEF Contract!vars, Request
<1>2. CASE Status = "new" /\ Status' = "starting"
  BY <1>2 DEF Contract!Next, Contract!Start, Contract!Advance, Request
<1>3. CASE Status = "starting" /\ Status' = "up"
  BY <1>3 DEF Contract!Next, Contract!Handshake, Contract!Advance, Request
<1>4. CASE Status = "up" /\ Status' = "dead"
  BY <1>4 DEF Contract!Next, Contract!Die, Contract!Advance, Request
<1>5. CASE Status \in {"starting", "up", "dead"} /\ Status' = "closing"
  BY <1>5 DEF Contract!Next, Contract!Close, Contract!Live, Contract!Advance, Request
<1>6. CASE Status \in {"new", "closing"} /\ Status' = "closed"
  BY <1>6 DEF Contract!Next, Contract!Closed, Contract!Advance, Request
<1> QED
  BY <1>1, <1>2, <1>3, <1>4, <1>5, <1>6 DEF Moves

\* Only a request that begins or ends changes what the callers wait on.
LEMMA LifeStepsMove ==
  ASSUME IInv, LifeInv,
         \/ Child \/ Spawn \/ StartRuns \/ Reader
         \/ CloseBegins \/ CloseRuns \/ CloseCancelled \/ UNCHANGED vars
  PROVE  Moves(Status, Status') /\ Request' = Request /\ got' = got
<1>0. LifeOK
  BY DEF IInv
<1>1. UNCHANGED <<asked, pc, req, got>>
  BY DEF Child, ChildGreets, ChildAnswers, ChildExits, Spawn, StartRuns, StartReads, StartFails,
    StartGivesUp, StartRaises, Reader, ReaderTakes, ReaderBreaks, ReaderSeesEOF, ReaderSeesExit,
    ReaderClassifies, ReaderCancelled, CloseBegins, CloseRuns, CloseReaderDone, CloseKills,
    CloseEnds, CloseCancelled, FailPending, vars, requests, callers
<1>2. Request' = Request
  BY <1>1 DEF Request, Busy
<1> SUFFICES Moves(Status, Status')
  BY <1>1, <1>2 DEF callers
<1>3. CASE UNCHANGED <<starter, closer, exitErr>> /\ proc' \in {proc, "exited"}
  <2>1. proc # "running" => proc' # "running"
    BY <1>3
  <2> QED
    BY <1>3, <2>1 DEF Status, Moves
<1>4. CASE Spawn
  <2>1. starter = "idle" /\ proc = "none"
    BY <1>4 DEF Spawn, LifeInv
  <2> QED
    BY <1>4, <2>1 DEF Spawn, Status, Moves
<1>5. CASE StartReads
  <2>1. CASE starter' = starter
    BY <1>5, <2>1 DEF StartReads, StartGivesUp, lifecycle, readers, Status, Moves
  <2>2. CASE starter' # starter
    <3>1. starter = "handshaking" /\ closer = "idle" /\ exitErr = "none" /\ exitErr' = exitErr
      BY <1>5, <2>2 DEF StartReads, StartGivesUp, readers, LifeInv
    <3>2. \/ starter' = "done" /\ closer' = "idle"
          \/ starter' = "failing"
      BY <1>5, <2>2, <3>1 DEF StartReads, StartGivesUp, lifecycle
    <3> QED
      BY <3>1, <3>2 DEF Status, Moves
  <2> QED
    BY <2>1, <2>2
<1>6. CASE StartFails \/ StartRaises
  BY <1>6 DEF StartFails, StartGivesUp, StartRaises, Status, Moves
<1>7. CASE ReaderClassifies
  <2>1. /\ starter = "done" /\ closer \in {"idle", "reader"} /\ exitErr = "none"
    BY <1>0, <1>7 DEF ReaderClassifies, LifeInv, LifeOK
  <2>2. UNCHANGED <<starter, closer>> /\ exitErr' # "none"
    BY <1>7, ExitKindsAssumption DEF ReaderClassifies, lifecycle
  <2> QED
    BY <2>1, <2>2 DEF Status, Moves
<1>8. CASE CloseBegins
  <2>1. starter = "done" /\ closer = "idle" /\ starter' = starter /\ closer' \in {"reader", "exit"}
    BY <1>8 DEF CloseBegins
  <2> QED
    BY <2>1 DEF Status, Moves
<1>9. CASE CloseReaderDone \/ CloseEnds \/ CloseCancelled
  <2>1. /\ starter' = starter
        /\ \/ closer = "reader" /\ closer' = "exit"
           \/ closer = "exit" /\ closer' \in {"done", "cut"}
        /\ proc' = proc
    BY <1>9 DEF CloseReaderDone, CloseEnds, CloseCancelled, child
  <2>2. starter \in {"done", "failing", "failed"}
    BY <1>0, <2>1 DEF LifeInv, LifeOK
  <2> QED
    BY <2>1, <2>2 DEF Status, Moves
<1>10. (UNCHANGED <<starter, closer, exitErr>> /\ proc' \in {proc, "exited"})
       \/ Spawn \/ StartReads \/ StartFails \/ StartRaises \/ ReaderClassifies
       \/ CloseBegins \/ CloseReaderDone \/ CloseEnds \/ CloseCancelled
  BY DEF Child, ChildGreets, ChildAnswers, ChildExits, StartRuns, Reader, ReaderTakes,
    ReaderBreaks, ReaderSeesEOF, ReaderSeesExit, ReaderCancelled, CloseRuns, CloseKills,
    vars, child, lifecycle, readers
<1> QED
  BY <1>1, <1>2, <1>3, <1>4, <1>5, <1>6, <1>7, <1>8, <1>9, <1>10

\* A request begins on a transport that is open and not known to be dead; its
\* id is new, so nobody else's question changes (subprocess.py:205-232).
LEMMA AskIsAsk ==
  ASSUME IInv, LifeInv, NEW c \in Callers, NEW q \in Questions, Ask(c, q)
  PROVE  Contract!Ask(c, q)
<1>1. /\ ~Busy(c) /\ exitErr = "none" /\ handle /\ starter = "done" /\ nextId <= MaxId
      /\ asked' = [asked EXCEPT ![nextId] = q]
      /\ pc' = [pc EXCEPT ![c] = "draining"] /\ req' = [req EXCEPT ![c] = nextId]
      /\ UNCHANGED <<starter, closer, exitErr, got>>
  BY DEF Ask, Busy, lifecycle, readers
<1>2. closer = "idle"
  BY <1>1 DEF LifeInv
<1>3. Status = "up" /\ Status' = Status
  BY <1>1, <1>2 DEF Status
<1>4. nextId \in Ids /\ \A d \in Callers : Busy(d) => req[d] # nextId /\ req[d] \in Ids
  BY <1>1, BoundsAssumption DEF IInv, DataInv, DataOK, Registered, Ids
<1>5. /\ pc \in [Callers -> {"idle", "draining", "waiting"}] /\ req \in [Callers -> 0..MaxId]
      /\ asked \in [Ids -> Questions \cup {None}]
  BY DEF IInv, DataInv, DataOK
<1>6. Request'[c] = q /\ \A d \in Callers \ {c} : Request'[d] = Request[d]
  <2>1. Request'[c] = q
    BY <1>1, <1>4, <1>5 DEF Request, Busy
  <2>2. ASSUME NEW d \in Callers \ {c}
        PROVE  Request'[d] = Request[d]
    <3>1. pc'[d] = pc[d] /\ req'[d] = req[d]
      BY <1>1, <1>5
    <3>2. Busy(d) => asked'[req[d]] = asked[req[d]]
      BY <1>1, <1>4, <1>5
    <3> QED
      BY <3>1, <3>2 DEF Request, Busy
  <2> QED
    BY <2>1, <2>2
<1>7. Request' = [Request EXCEPT ![c] = q]
  BY <1>6 DEF Request
<1>8. Request[c] = None
  BY <1>1 DEF Request
<1> QED
  BY <1>1, <1>3, <1>7, <1>8 DEF Contract!Ask, Request

\* A request returns once, with the answer to its own question or a failure
\* (subprocess.py:232-257).
LEMMA EndIsReturn ==
  ASSUME IInv, NEW c \in Callers, Busy(c), Raises(c) \/ Returns(c)
  PROVE  Contract!Return(c)
<1>1. /\ pc' = [pc EXCEPT ![c] = "idle"]
      /\ UNCHANGED <<asked, req, proc, starter, closer, exitErr>>
  BY DEF Raises, Returns, child, lifecycle, readers, requests
<1>2. /\ pc \in [Callers -> {"idle", "draining", "waiting"}]
      /\ req[c] \in Ids /\ req[c] < nextId /\ asked[req[c]] \in Questions
  BY DEF IInv, DataInv, DataOK, Registered, Ids
<1>3. Status' = Status
  BY <1>1 DEF Status
<1>4. Request[c] = asked[req[c]] /\ Request[c] # None
  BY <1>2, NoneAssumption DEF Request
<1>5. Request' = [Request EXCEPT ![c] = None]
  <2>1. \A d \in Callers : Request'[d] = IF d = c THEN None ELSE Request[d]
    BY <1>1, <1>2 DEF Request, Busy
  <2> QED
    BY <2>1 DEF Request
<1>6. got' = [got EXCEPT ![c] = Contract!Answer(Request[c])]
      \/ got' = [got EXCEPT ![c] = Contract!Failure]
  <2>1. CASE Raises(c)
    BY <2>1 DEF Raises, Failure, Contract!Failure
  <2>2. CASE Returns(c)
    <3>1. fut[req[c]] # Open /\ got' = [got EXCEPT ![c] = fut[req[c]]]
      BY <2>2 DEF Returns
    <3>2. fut[req[c]] \in Outcomes
      BY <1>2, <3>1 DEF IInv, DataInv, DataOK, Registered
    <3>3. fut[req[c]].kind = "answer" => fut[req[c]].body = asked[req[c]]
      BY <1>2 DEF IInv, DataInv, Correlated
    <3>4. fut[req[c]] = Contract!Answer(asked[req[c]]) \/ fut[req[c]] = Contract!Failure
      BY <3>2, <3>3 DEF Outcomes, Failure, Contract!Answer, Contract!Failure
    <3> QED
      BY <1>4, <3>1, <3>4
  <2> QED
    BY <2>1, <2>2
<1> QED
  BY <1>3, <1>4, <1>5, <1>6 DEF Contract!Return, Request

LEMMA StepIsContractStep ==
  ASSUME IInv, LifeInv, [Next]_vars
  PROVE  [Contract!Next]_(Contract!vars)
<1>1. CASE \/ Child \/ Spawn \/ StartRuns \/ Reader
           \/ CloseBegins \/ CloseRuns \/ CloseCancelled \/ UNCHANGED vars
  BY <1>1, LifeStepsMove, MovesAreSteps
<1>2. ASSUME NEW c \in Callers, NEW q \in Questions, Ask(c, q)
      PROVE  Contract!Next
  BY <1>2, AskIsAsk DEF Contract!Next
<1>3. ASSUME NEW c \in Callers, Drained(c)
      PROVE  [Contract!Next]_(Contract!vars)
  <2>1. /\ pc[c] = "draining" /\ pc' = [pc EXCEPT ![c] = "waiting"]
        /\ UNCHANGED <<asked, req, got, proc, starter, closer, exitErr>>
    BY <1>3 DEF Drained, child, lifecycle, readers, requests
  <2>2. pc \in [Callers -> {"idle", "draining", "waiting"}]
    BY DEF IInv, DataInv, DataOK
  <2>3. Request' = Request
    BY <2>1, <2>2 DEF Request, Busy
  <2>4. Moves(Status, Status')
    BY <2>1 DEF Status, Moves
  <2> QED
    BY <2>1, <2>3, <2>4, MovesAreSteps
<1>4. ASSUME NEW c \in Callers, DrainFails(c) \/ TimesOut(c) \/ Returns(c)
      PROVE  Contract!Next
  <2>1. Busy(c) /\ (Raises(c) \/ Returns(c))
    BY <1>4 DEF DrainFails, TimesOut, Returns, Busy
  <2>2. Contract!Return(c)
    BY <2>1, EndIsReturn
  <2> QED
    BY <2>2 DEF Contract!Next
<1> QED
  BY <1>1, <1>2, <1>3, <1>4 DEF Next, RequestRuns

\* SubprocessTransport implements the safety part of the contract: one life from
\* start() to close(), and for every request exactly one return, with the answer
\* to its question or a failure (transport/__init__.py:44-64).
THEOREM ImplementsContract == Spec => Contract!Safety
<1>1. Init => Contract!Init
  BY DEF Init, Contract!Init, Status, Busy, Failure, Contract!Failure
<1>2. IInv /\ LifeInv /\ [Next]_vars => [Contract!Next]_(Contract!vars)
  BY StepIsContractStep
<1> QED
  BY <1>1, <1>2, Invariance, LifeInvariance, PTL DEF Spec, Contract!Safety
=============================================================================
