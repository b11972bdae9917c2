------------------------------- MODULE DataProofs -------------------------------
(* The data of core/: what the agent makes of Slurm's records and what its  *)
(* recordings keep of its answers (MCAgentData): the rendering of task      *)
(* masks, for every mask of every length; the two sources of a job, however *)
(* long it lives; the files of a recording, for any jobs, calls and         *)
(* interruptions; and the rows that records of an array become (ArrayRows), *)
(* for an array of any size, an instance with variables of its own.         *)
EXTENDS MCAgentData, MCArrayRows, SequenceTheorems, FiniteSetTheorems, WellFoundedInduction, TLAPS

-----------------------------------------------------------------------------
(* The ranges of a task mask (TaskRange)                                    *)

Bounds == [lo : Nat, hi : Nat]

\* The range being read is a run of the mask, and lies behind the last range
\* written by a gap.
ReadingOK ==
  /\ start = None => ranges = <<>> /\ {b \in bits : b < t} = {}
  /\ start # None => prev # None /\ start <= prev /\ prev < t

BehindOK ==
  start # None /\ t <= Length /\ Len(ranges) > 0 => ranges[Len(ranges)].hi + 1 < start

RangesInv == TypeOK /\ ReadingOK /\ BehindOK /\ Denotes /\ Maximal

-----------------------------------------------------------------------------
(* Appending a range adds what it spans to what is written.                 *)

LEMMA AppendSpan ==
  ASSUME NEW s \in Seq(Bounds), NEW r \in Bounds
  PROVE  UNION {Span(Append(s, r)[k]) : k \in DOMAIN Append(s, r)}
           = (UNION {Span(s[k]) : k \in DOMAIN s}) \cup Span(r)
<1> DEFINE s2 == Append(s, r)
<1>1. DOMAIN s2 = DOMAIN s \cup {Len(s) + 1} /\ s2[Len(s) + 1] = r
  BY DEF Bounds
<1>2. \A k \in DOMAIN s : s2[k] = s[k]
  BY DEF Bounds
<1> QED
  BY <1>1, <1>2

\* A range appended behind the last one by a gap keeps them maximal.
LEMMA AppendMaximal ==
  ASSUME NEW s \in Seq(Bounds), NEW r \in Bounds, r.lo <= r.hi,
         Len(s) > 0 => s[Len(s)].hi + 1 < r.lo,
         \A k \in DOMAIN s : s[k].lo <= s[k].hi /\ (k > 1 => s[k - 1].hi + 1 < s[k].lo)
  PROVE  \A k \in DOMAIN Append(s, r) :
           /\ Append(s, r)[k].lo <= Append(s, r)[k].hi
           /\ k > 1 => Append(s, r)[k - 1].hi + 1 < Append(s, r)[k].lo
<1> DEFINE s2 == Append(s, r)
<1>1. s2 \in Seq(Bounds) /\ Len(s2) = Len(s) + 1 /\ s2[Len(s2)] = r
  BY DEF Bounds
<1>2. \A k \in 1..Len(s) : s2[k] = s[k]
  BY DEF Bounds
<1>3. ASSUME NEW k \in 1..Len(s2)
      PROVE  s2[k].lo <= s2[k].hi /\ (k > 1 => s2[k - 1].hi + 1 < s2[k].lo)
  <2>1. CASE k = Len(s2)
    BY <2>1, <1>1, <1>2
  <2>2. CASE k # Len(s2)
    <3>1. k \in 1..Len(s) /\ k \in DOMAIN s /\ (k > 1 => k - 1 \in 1..Len(s))
      BY <2>2, <1>1
    <3> QED
      BY <3>1, <1>2
  <2> QED
    BY <2>1, <2>2
<1> QED
  BY <1>1, <1>3

-----------------------------------------------------------------------------
\* Before the first bit of the mask is read.
LEMMA InitRangesInv == Init => RangesInv
<1> SUFFICES ASSUME Init PROVE RangesInv
  OBVIOUS
<1>1. ranges = <<>> /\ start = None /\ Written = {} /\ Reading = {} /\ t = 0
  BY DEF Init, Written, Reading
<1>0. \A b \in bits : ~(b < 0)
  BY LengthAssumption DEF Init
<1>2. {b \in bits : b < t} = {}
  BY <1>0, <1>1
<1>3. TypeOK
  BY LengthAssumption DEF Init, TypeOK, None
<1>4. ReadingOK /\ BehindOK /\ Denotes /\ Maximal
  BY <1>1, <1>2 DEF ReadingOK, BehindOK, Denotes, Maximal
<1> QED
  BY <1>3, <1>4 DEF RangesInv

\* Closing the range being read, by Splits and by Ends.
LEMMA Closing ==
  ASSUME RangesInv, start # None, t <= Length
  PROVE  LET r == [lo |-> start, hi |-> prev]
             s == Append(ranges, r)
         IN /\ s \in Seq(Bounds) /\ Len(s) > 0 /\ s[Len(s)] = r
            /\ UNION {Span(s[k]) : k \in DOMAIN s} = {b \in bits : b < t}
            /\ \A k \in DOMAIN s : s[k].lo <= s[k].hi /\ (k > 1 => s[k - 1].hi + 1 < s[k].lo)
<1> DEFINE r == [lo |-> start, hi |-> prev]
           s == Append(ranges, r)
<1>1. /\ r \in Bounds /\ ranges \in Seq(Bounds) /\ start <= prev
      /\ t \in Int /\ Length \in Nat
  BY LengthAssumption DEF RangesInv, TypeOK, ReadingOK, Bounds, None
<1>2. s \in Seq(Bounds) /\ Len(s) > 0 /\ s[Len(s)] = r
  BY <1>1 DEF Bounds
<1>3. UNION {Span(s[k]) : k \in DOMAIN s} = Written \cup Span(r)
  BY <1>1, AppendSpan DEF Written
<1>4. Span(r) = Reading
  BY <1>1 DEF Span, Reading
<1>5. \A k \in DOMAIN ranges :
        ranges[k].lo <= ranges[k].hi /\ (k > 1 => ranges[k - 1].hi + 1 < ranges[k].lo)
  BY DEF RangesInv, Maximal
<1>6. Len(ranges) > 0 => ranges[Len(ranges)].hi + 1 < r.lo
  BY DEF RangesInv, BehindOK
<1>7. \A k \in DOMAIN s : s[k].lo <= s[k].hi /\ (k > 1 => s[k - 1].hi + 1 < s[k].lo)
  BY <1>1, <1>5, <1>6, AppendMaximal
<1> QED
  BY <1>2, <1>3, <1>4, <1>7 DEF RangesInv, Denotes

\* One bit of the mask is read (normalize.py:267-284).
LEMMA StepRangesInv == RangesInv /\ [Next]_vars => RangesInv'
<1> SUFFICES ASSUME RangesInv, [Next]_vars PROVE RangesInv'
  OBVIOUS
<1>t. /\ bits \subseteq 0..(Length - 1) /\ t \in 0..(Length + 1) /\ Length \in Nat
      /\ ranges \in Seq(Bounds) /\ start \in Nat \cup {-1} /\ prev \in Nat \cup {-1}
  BY LengthAssumption DEF RangesInv, TypeOK, Bounds, None
<1>i. \A b \in bits : b \in Int
  BY <1>t
<1>n. \A b \in bits : b < t + 1 <=> b < t \/ b = t
  BY <1>t, <1>i
<1>l. t = Length => \A b \in bits : b < t /\ b < t + 1
  BY <1>t
<1>1. CASE Skip
  <2>1. Written' = Written /\ Reading' = Reading
    BY <1>1, <1>t DEF Skip, Written, Reading
  <2>2. {b \in bits' : b < t'} = {b \in bits : b < t}
    BY <1>1, <1>n DEF Skip
  <2>3. Denotes'
    BY <2>1, <2>2 DEF RangesInv, Denotes
  <2> QED
    BY <1>1, <1>t, <2>2, <2>3 DEF Skip, RangesInv, TypeOK, ReadingOK, BehindOK, Maximal, None
<1>2. CASE Opens
  <2>1. Written' = Written /\ Reading = {} /\ Reading' = {t}
    BY <1>2, <1>t DEF Opens, Written, Reading, None
  <2>2. {b \in bits' : b < t'} = {b \in bits : b < t} \cup {t}
    BY <1>2, <1>n DEF Opens
  <2>3. Denotes'
    BY <2>1, <2>2 DEF RangesInv, Denotes
  <2>4. ranges = <<>> /\ ranges' = <<>>
    BY <1>2 DEF Opens, RangesInv, ReadingOK
  <2> QED
    BY <1>2, <1>t, <2>3, <2>4 DEF Opens, RangesInv, TypeOK, ReadingOK, BehindOK, Maximal, None
<1>3. CASE Extends
  <2>1. start # None /\ prev # None /\ start <= prev
    BY <1>3 DEF Extends, RangesInv, ReadingOK
  <2>2. Written' = Written /\ Reading = start..prev /\ Reading' = start..(prev + 1)
    BY <1>3, <1>t, <2>1 DEF Extends, Written, Reading, None
  <2>3. start..(prev + 1) = (start..prev) \cup {t}
    BY <1>3, <1>t, <2>1 DEF Extends, None
  <2>4. {b \in bits' : b < t'} = {b \in bits : b < t} \cup {t}
    BY <1>3, <1>n DEF Extends
  <2>5. Denotes'
    BY <2>2, <2>3, <2>4 DEF RangesInv, Denotes
  <2> QED
    BY <1>3, <1>t, <2>1, <2>5 DEF Extends, RangesInv, TypeOK, ReadingOK, BehindOK, Maximal, None
<1>4. CASE Splits
  <2> DEFINE r == [lo |-> start, hi |-> prev]
  <2>1. start # None /\ prev # None /\ start <= prev /\ prev < t /\ t <= Length
    BY <1>4, <1>t DEF Splits, RangesInv, ReadingOK
  <2>2. /\ ranges' \in Seq(Bounds) /\ Len(ranges') > 0 /\ ranges'[Len(ranges')] = r
        /\ Written' = {b \in bits : b < t}
        /\ Maximal'
    BY <1>4, <2>1, Closing DEF Splits, Written, Maximal
  <2>3. Reading' = {t}
    BY <1>4, <1>t DEF Splits, Reading, None
  <2>6. {b \in bits' : b < t'} = {b \in bits : b < t} \cup {t}
    BY <1>4, <1>n DEF Splits
  <2>4. Denotes'
    BY <2>2, <2>3, <2>6 DEF Denotes
  <2>5. BehindOK'
    BY <1>4, <1>t, <2>1, <2>2 DEF Splits, BehindOK, None
  <2> QED
    BY <1>4, <1>t, <2>1, <2>2, <2>4, <2>5 DEF Splits, RangesInv, TypeOK, ReadingOK, Bounds, None
<1>5. CASE Ends
  <2>0. Reading' = {}
    BY <1>5, <1>t DEF Ends, Reading
  <2>1. Reading' = {} /\ {b \in bits' : b < t'} = {b \in bits : b < t}
    BY <1>5, <1>l, <2>0 DEF Ends
  <2>2. CASE start = None
    <3>1. ranges' = ranges /\ Reading = {}
      BY <1>5, <2>2 DEF Ends, Reading
    <3>2. Denotes'
      BY <2>1, <3>1 DEF RangesInv, Denotes, Written
    <3>3. TypeOK'
      BY <1>5, <1>t, <3>1 DEF Ends, TypeOK, Bounds, None
    <3>4. ReadingOK'
      BY <1>5, <2>1, <2>2, <3>1 DEF Ends, RangesInv, ReadingOK
    <3>5. BehindOK' /\ Maximal'
      BY <1>5, <2>2, <3>1 DEF Ends, RangesInv, BehindOK, Maximal
    <3> QED
      BY <3>2, <3>3, <3>4, <3>5 DEF RangesInv
  <2>3. CASE start # None
    <3>1. ranges' \in Seq(Bounds) /\ Written' = {b \in bits : b < t} /\ Maximal'
      BY <1>5, <1>t, <2>3, Closing DEF Ends, Written, Maximal
    <3>2. Denotes'
      BY <2>1, <3>1 DEF Denotes
    <3> QED
      BY <1>5, <1>t, <2>3, <3>1, <3>2 DEF Ends, RangesInv, TypeOK, ReadingOK, BehindOK, Bounds, None
  <2> QED
    BY <2>2, <2>3
<1>6. CASE UNCHANGED vars
  BY <1>6 DEF vars, RangesInv, TypeOK, ReadingOK, BehindOK, Denotes, Maximal, Written, Reading
<1> QED
  BY <1>1, <1>2, <1>3, <1>4, <1>5, <1>6 DEF Next

-----------------------------------------------------------------------------
\* The ranges written so far are right, at any bit of the mask.
LEMMA Inductive == Spec => []RangesInv
  BY InitRangesInv, StepRangesInv, PTL DEF Spec

\* The rendered text names the tasks of the mask and no others, for every mask
\* of every length (normalize.py:267-284).
THEOREM RangesDenote == Spec => []Denotes
  BY Inductive, PTL DEF RangesInv

\* The ranges are ascending and none could be longer.
THEOREM RangesMaximal == Spec => []Maximal
  BY Inductive, PTL DEF RangesInv

-----------------------------------------------------------------------------
(* The records of a job (JobRecords)                                        *)

Facts == [state : Active \cup Terminal, run : {1, 2}, start : Nat, end : Nat]

\* The times a job has in each state.
Timed(f) ==
  /\ f.state = "PENDING" => f.start = Unset
  /\ f.state = "RUNNING" => f.start # Unset
  /\ f.state \in Terminal \cup {"COMPLETING"} => f.end # Unset

\* How a job was submitted.
Submitted ==
  /\ kind \in {"plain", "task", "waiting"} /\ (kind = "waiting" <=> bits # {})
  /\ task \in IF kind = "task" THEN {0, 1} ELSE {None}
  /\ named \in [out : SUBSET Places, err : SUBSET Places]
  /\ keeps \in {"used", "named", "nothing"}

\* slurmdbd is behind slurmctld: of the same run it has the same times, or none.
Behind ==
  /\ stored.run <= fact.run
  /\ stored.run = fact.run =>
       /\ stored.start # Unset => fact.state # "PENDING" /\ fact.start = stored.start
       /\ IsTerminal(stored.state) => fact = stored

JobInv ==
  /\ RangesInv /\ Submitted /\ now \in Nat \ {0}
  /\ fact \in Facts /\ Timed(fact) /\ stored \in Facts /\ Timed(stored) /\ Behind

USE DEF Unset, Active, Terminal

-----------------------------------------------------------------------------
\* A job that is submitted.
LEMMA InitJobInv == RecordsInit => JobInv
<1> SUFFICES ASSUME RecordsInit PROVE JobInv
  OBVIOUS
<1>1. RangesInv
  BY InitRangesInv DEF RecordsInit
<1>2. Submitted
  BY DEF RecordsInit, Submitted
<1>3. /\ now \in Nat \ {0} /\ fact \in Facts /\ Timed(fact)
      /\ stored \in Facts /\ Timed(stored) /\ Behind
  BY DEF RecordsInit, Facts, Timed, Behind, IsTerminal
<1> QED
  BY <1>1, <1>2, <1>3 DEF JobInv

Slurm ==
  Guesses \/ Begins \/ Completes \/ IsOver \/ CancelledEarly \/ Requeues \/ Ticks \/ Stores

\* What Slurm does to a job, slurmctld first and slurmdbd after it.
LEMMA SlurmJobInv ==
  ASSUME JobInv, Slurm
  PROVE  /\ now' \in Nat \ {0} /\ fact' \in Facts /\ Timed(fact')
         /\ stored' \in Facts /\ Timed(stored') /\ Behind'
<1>1. /\ now \in Nat \ {0} /\ fact \in Facts /\ Timed(fact)
      /\ stored \in Facts /\ Timed(stored) /\ Behind
  BY DEF JobInv
<1>2. CASE Guesses
  BY <1>1, <1>2 DEF Guesses, Behind, IsTerminal
<1>3. CASE Begins
  BY <1>1, <1>3 DEF Begins, Becomes, Facts, Timed, Behind, IsTerminal
<1>4. CASE Completes
  BY <1>1, <1>4 DEF Completes, Becomes, Facts, Timed, Behind, IsTerminal
<1>5. CASE IsOver
  BY <1>1, <1>5 DEF IsOver, Becomes, Facts, Timed, Behind, IsTerminal
<1>6. CASE CancelledEarly
  BY <1>1, <1>6 DEF CancelledEarly, Becomes, Facts, Timed, Behind, IsTerminal
<1>7. CASE Requeues
  BY <1>1, <1>7 DEF Requeues, Facts, Timed, Behind, IsTerminal
<1>8. CASE Ticks
  BY <1>1, <1>8 DEF Ticks, Behind, IsTerminal
<1>9. CASE Stores
  BY <1>1, <1>9 DEF Stores, Facts, Timed, Behind, IsTerminal
<1> QED
  BY <1>2, <1>3, <1>4, <1>5, <1>6, <1>7, <1>8, <1>9 DEF Slurm

\* Every step of a job or of the rendering of its mask.
LEMMA StepJobInv == JobInv /\ [RecordsNext]_<<vars, records>> => JobInv'
<1> SUFFICES ASSUME JobInv, [RecordsNext]_<<vars, records>> PROVE JobInv'
  OBVIOUS
<1>1. RangesInv' /\ bits' = bits
  <2>1. [Next]_vars
    BY DEF RecordsNext
  <2>2. bits' = bits
    BY <2>1 DEF Next, vars, Skip, Opens, Extends, Splits, Ends
  <2> QED
    BY <2>1, <2>2, StepRangesInv DEF JobInv
<1>2. UNCHANGED job
  BY DEF RecordsNext, records, Guesses, Begins, Completes, IsOver, CancelledEarly, Requeues, Ticks, Stores
<1>3. Submitted'
  BY <1>1, <1>2 DEF JobInv, Submitted, job
<1>4. CASE Slurm
  BY <1>1, <1>3, <1>4, SlurmJobInv DEF JobInv
<1>5. CASE UNCHANGED records
  BY <1>1, <1>3, <1>5 DEF JobInv, records, Behind, IsTerminal
<1> QED
  BY <1>4, <1>5 DEF RecordsNext, Slurm

\* The invariant holds of every job.
LEMMA RecordsInductive == RecordsSpec => []JobInv
  BY InitJobInv, StepJobInv, PTL DEF RecordsSpec

-----------------------------------------------------------------------------
\* The mask as a whole is rendered: both sources name the same waiting tasks.
LEMMA SameWaiting ==
  ASSUME RangesInv, t > Length
  PROVE  Written = bits
<1>1. bits \subseteq 0..(Length - 1) /\ Length \in Nat /\ t \in 0..(Length + 1)
  BY LengthAssumption DEF RangesInv, TypeOK
<1>0. \A b \in bits : b < t
  BY <1>1
<1>2. {b \in bits : b < t} = bits
  BY <1>0
<1>3. Reading = {}
  BY DEF Reading
<1> QED
  BY <1>2, <1>3 DEF RangesInv, Denotes

\* Where the output goes is resolved from what slurmdbd has as from what the
\* controller tells.
LEMMA SamePaths ==
  ASSUME Submitted, Written = bits, OneName, DefaultKnown
  PROVE  StdioPaths(ControllerRecord) = StdioPaths(AccountingRecord)
<1> DEFINE c == ControllerRecord
           a == AccountingRecord
<1>1. /\ c.out = UsedOut /\ c.err = (IF named.err = {} THEN "none" ELSE Named("err"))
      /\ c.array = a.array /\ c.task = a.task /\ c.waiting = a.waiting
      /\ a.out = Kept("out") /\ a.err = Kept("err") /\ a.script = {"script"}
      /\ c.array = (kind # "plain") /\ c.task = RawTask /\ c.waiting = bits /\ c.script = {}
  BY DEF ControllerRecord, AccountingRecord
<1>2. ArrayFields(c) = ArrayFields(a)
  BY <1>1 DEF ArrayFields
<1>3. ArrayFields(a).task # None <=> kind = "task"
  <2>1. CASE kind = "task"
    <3>1. RawTask \in {None, 1} /\ None = -1
      BY <2>1 DEF RawTask, Submitted, None
    <3>2. ArrayFields(a).task = IF RawTask = None THEN 0 ELSE RawTask
      BY <1>1, <2>1 DEF ArrayFields, Submitted
    <3>3. (IF RawTask = None THEN 0 ELSE RawTask) \in {0, 1}
      BY <3>1
    <3> QED
      BY <2>1, <3>1, <3>2, <3>3
  <2>2. CASE kind # "task"
    BY <1>1, <2>2 DEF ArrayFields, Submitted
  <2> QED
    BY <2>1, <2>2
<1>4. /\ named.out \subseteq Places /\ named.err \subseteq Places
      /\ named["out"] = named.out /\ named["err"] = named.err
  BY DEF Submitted
<1>5. UsedOut # "none" /\ Named("out") # "none" /\ Named("err") # "none"
  BY DEF UsedOut, Default, Named
<1>6. /\ SbatchPath(c, "err") = IF "line" \in named.err THEN "line" ELSE "none"
      /\ \A which \in {"out", "err"} :
           SbatchPath(a, which) = IF "script" \in named[which] THEN "script"
                                  ELSE IF "line" \in named[which] THEN "line" ELSE "none"
  BY <1>1, <1>4 DEF SbatchPath
<1>7. StdioPaths(c) = [out |-> UsedOut, err |-> IF named.err = {} THEN UsedOut ELSE Named("err")]
  <2>1. (IF c.err # "none" THEN c.err ELSE SbatchPath(c, "err"))
          = IF named.err = {} THEN "none" ELSE Named("err")
    BY <1>1, <1>4, <1>5, <1>6
  <2> QED
    BY <1>1, <1>5, <2>1 DEF StdioPaths, Guessed
<1>8. StdioPaths(a) = [out |-> UsedOut, err |-> IF named.err = {} THEN UsedOut ELSE Named("err")]
  <2>1. (IF a.err # "none" THEN a.err ELSE SbatchPath(a, "err"))
          = IF named.err = {} THEN "none" ELSE Named("err")
    BY <1>1, <1>4, <1>5, <1>6 DEF Kept, Named, OneName, Places
  <2> DEFINE out == IF a.out # "none" THEN a.out ELSE SbatchPath(a, "out")
  <2>2. CASE named.out # {}
    BY <1>1, <1>4, <1>5, <1>6, <2>2, <2>1 DEF Kept, Named, OneName, Places, UsedOut, StdioPaths, Guessed
  <2>3. CASE named.out = {}
    <3>1. CASE keeps = "used"
      <4>1. a.out = UsedOut
        BY <1>1, <3>1 DEF Kept
      <4> QED
        BY <1>5, <2>1, <4>1 DEF StdioPaths, Guessed
    <3>2. CASE keeps # "used"
      <4>1. out = "none"
        BY <1>1, <1>4, <1>6, <2>3, <3>2 DEF Kept
      <4>2. kind = "plain" \/ kind = "task"
        BY <2>3, <3>2 DEF DefaultKnown, Submitted
      <4>3. UsedOut = IF ArrayFields(a).task # None THEN "slurm-%A_%a.out" ELSE "slurm-%j.out"
        BY <1>3, <2>3, <4>2 DEF UsedOut, Default
      <4> QED
        BY <1>5, <2>1, <4>1, <4>3 DEF StdioPaths, Guessed
    <3> QED
      BY <3>1, <3>2
  <2> QED
    BY <2>2, <2>3
<1> QED
  BY <1>7, <1>8

\* Records of the same stage are normalised alike (normalize.py:310-376).
LEMMA Agreeing == JobInv => SourcesAgree
<1> SUFFICES ASSUME JobInv, t > Length, stored = fact, OneName, DefaultKnown
             PROVE  ControllerDetail = AccountingDetail
  BY DEF SourcesAgree
<1>1. Written = bits /\ Submitted /\ Timed(fact)
  BY SameWaiting DEF JobInv
<1>2. StdioPaths(ControllerRecord) = StdioPaths(AccountingRecord)
  BY <1>1, SamePaths
<1>3. ArrayFields(ControllerRecord) = ArrayFields(AccountingRecord)
  BY <1>1 DEF ControllerRecord, AccountingRecord, ArrayFields
<1>4. ControllerRecord.state = AccountingRecord.state /\ ControllerRecord.elapsed = AccountingRecord.elapsed
  BY DEF ControllerRecord, AccountingRecord
<1>5. (IF fact.state = "PENDING" THEN Unset ELSE ControllerRecord.start) = AccountingRecord.start
  BY <1>1 DEF ControllerRecord, AccountingRecord, Timed
<1>6. IsTerminal(fact.state) => ControllerRecord.end = AccountingRecord.end
  BY DEF ControllerRecord, AccountingRecord, IsTerminal
<1>7. ControllerRecord.state = fact.state /\ AccountingRecord.state = fact.state
  BY DEF ControllerRecord, AccountingRecord
<1> QED
  BY <1>2, <1>3, <1>4, <1>5, <1>6, <1>7 DEF ControllerDetail, AccountingDetail, Detail

\* The times each source reports, from what it has of the job.
Reported ==
  /\ ControllerDetail.start = (IF fact.state = "PENDING" THEN Unset ELSE fact.start)
  /\ ControllerDetail.end = (IF IsTerminal(fact.state) THEN fact.end ELSE Unset)
  /\ AccountingDetail.start = stored.start
  /\ AccountingDetail.end = (IF IsTerminal(stored.state) THEN stored.end ELSE Unset)

\* The times that each source reports of a job (normalize.py:310-376).
LEMMA Reporting == Reported
  BY DEF Reported, ControllerDetail, AccountingDetail, Detail, ControllerRecord, AccountingRecord, IsTerminal

\* Both dumps of one job, taken when slurmdbd has stored it as it is, normalize
\* to the same shared fields (tests/test_normalize.py:387).
THEOREM SourcesDoAgree == RecordsSpec => []SourcesAgree
  BY RecordsInductive, Agreeing, PTL

\* A start or an end that was reported is not withdrawn or moved within a run
\* (normalize.py:327-330).
THEOREM TimesStay == RecordsSpec => TimesAreFinal
<1> DEFINE Unmoved == /\ fact'.run = fact.run => Final(ControllerDetail, ControllerDetail')
                      /\ stored'.run = stored.run => Final(AccountingDetail, AccountingDetail')
<1>1. JobInv /\ [RecordsNext]_<<vars, records>> => [Unmoved]_records
  <2> SUFFICES ASSUME JobInv, RecordsNext, ~UNCHANGED records PROVE Unmoved
    BY DEF RecordsNext
  <2>1. Slurm
    BY DEF RecordsNext, Slurm
  <2>2. fact \in Facts /\ Timed(fact) /\ stored \in Facts /\ Timed(stored) /\ Behind
    BY DEF JobInv
  <2>3. Reported /\ Reported'
    BY Reporting, PTL
  <2>4. ASSUME fact'.run = fact.run PROVE Final(ControllerDetail, ControllerDetail')
    <3>1. /\ fact.state # "PENDING" /\ fact.start # Unset => fact'.state # "PENDING" /\ fact'.start = fact.start
          /\ IsTerminal(fact.state) => fact' = fact
      <4>1. CASE Begins
        BY <2>2, <4>1 DEF Begins, Becomes, Facts, IsTerminal
      <4>2. CASE Completes
        BY <2>2, <4>2 DEF Completes, Becomes, Facts, IsTerminal
      <4>3. CASE IsOver
        BY <2>2, <4>3 DEF IsOver, Becomes, Facts, IsTerminal
      <4>4. CASE CancelledEarly
        BY <2>2, <4>4 DEF CancelledEarly, Becomes, Facts, IsTerminal
      <4>5. CASE Requeues
        BY <2>2, <2>4, <4>5 DEF Requeues, Facts, IsTerminal
      <4>6. CASE Guesses \/ Ticks \/ Stores
        BY <4>6 DEF Guesses, Ticks, Stores, IsTerminal
      <4> QED
        BY <2>1, <4>1, <4>2, <4>3, <4>4, <4>5, <4>6 DEF Slurm
    <3> QED
      BY <2>3, <3>1 DEF Reported, Final
  <2>5. ASSUME stored'.run = stored.run PROVE Final(AccountingDetail, AccountingDetail')
    <3>1. stored' = stored \/ stored' = fact
      BY <2>1 DEF Slurm, Guesses, Begins, Completes, IsOver, CancelledEarly, Requeues, Ticks, Stores
    <3> QED
      BY <2>2, <2>3, <2>5, <3>1 DEF Reported, Final, Behind
  <2> QED
    BY <2>4, <2>5
<1> QED
  BY <1>1, RecordsInductive, PTL DEF RecordsSpec, TimesAreFinal

-----------------------------------------------------------------------------
(* The files of a recording (Recording)                                     *)

\* The results of calls, and what a file may hold of them.
Res == [call : Nat, lists : SUBSET Jobs]
Contents == [form : {"absent", "torn", "one", "list"}, items : Seq(Res)]

RecordingOK ==
  /\ calls \in Nat /\ dir \in [R!Files -> Contents]
  /\ agent \in {"off", "hello", "writing", "answering", "ready"}
  /\ writing.file \in R!Files /\ told \subseteq [of : R!Files, result : Res]
  /\ fixture \in {"none", "failed", "loaded", "started", "closed"}
  /\ asked \in R!Files /\ index \in Nat

\* Every result on disk or answered is of a call made before; a file that is
\* not there or was cut short has none.
Past ==
  /\ \A f \in R!Files :
       /\ dir[f].form \in {"absent", "torn"} => dir[f].items = <<>>
       /\ \A k \in 1..Len(dir[f].items) : dir[f].items[k].call <= calls
  /\ \A a \in told : a.result.call <= calls

\* In the order of the calls, each once.
InOrder(items) == \A m, n \in 1..Len(items) : m < n => items[m].call < items[n].call

\* `items` has what the client was told of file f.
Holds(items, f) ==
  IF R!Overwritten(f)
  THEN \A a \in told : a.of = f => items # <<>> /\ items[1].call >= a.result.call
  ELSE /\ \A a \in told : a.of = f => \E k \in 1..Len(items) : items[k] = a.result
       /\ InOrder(items)

AllHeld == \A f \in R!Files : dir[f].form # "torn" => Holds(dir[f].items, f)

\* The result in hand is of the latest call, and its file holds it and
\* everything told before as soon as it is written.
InHand ==
  agent \in {"writing", "answering"} =>
    LET f == writing.file  w == writing.whole IN
      /\ writing.result \in Res /\ writing.result.call = calls
      /\ w \in Contents /\ w.form \in {"one", "list"} /\ Holds(w.items, f)
      /\ \A k \in 1..Len(w.items) : w.items[k].call <= calls
      /\ IF R!Overwritten(f) THEN w.items = <<writing.result>>
         ELSE \E k \in 1..Len(w.items) : w.items[k] = writing.result
      /\ dir[f] = IF agent = "writing" THEN R!Torn ELSE w

\* A file is cut short by a write that is under way or was interrupted.
TornIsCut ==
  \A f \in R!Files : dir[f].form = "torn" => f \in cut \/ (agent = "writing" /\ f = writing.file)

\* The item a replay has got to.
Position(f) == IF R!Overwritten(f) THEN 1
               ELSE IF index <= Len(dir[f].items) THEN index ELSE Len(dir[f].items)

\* A replay runs when no agent does, over files that are whole, and its last
\* answer is where its index says.
Replaying ==
  /\ fixture = "none" => index = 0
  /\ fixture = "failed" => cut # {}
  /\ index = 0 => served = R!NotFound
  /\ fixture \in {"loaded", "started", "closed"} =>
       /\ agent = "off" /\ \A f \in R!Files : dir[f].form # "torn"
       /\ index > 0 /\ dir[asked].items # <<>> => served = dir[asked].items[Position(asked)]

FilesInv ==
  RecordingOK /\ Past /\ AllHeld /\ InHand /\ TornIsCut /\ Replaying

-----------------------------------------------------------------------------
(* The files                                                                *)

\* Every request has a file; of the lists every answer is kept, of a job's detail the last.
LEMMA FileFacts ==
  /\ R!Hello \in R!Files /\ R!Active \in R!Files /\ R!Requests \subseteq R!Files
  /\ ~R!Overwritten(R!Active)
  /\ \A f \in R!Files : f.of = "cancel" => R!Detail(f.job) \in R!Files /\ R!Overwritten(R!Detail(f.job))
<1>1. /\ R!Hello \in R!Files /\ R!Active \in R!Files /\ R!Requests \subseteq R!Files
      /\ ~R!Overwritten(R!Active)
  BY DEF R!Files, R!Requests, R!Overwritten, R!Active, R!File
<1>2. ASSUME NEW f \in R!Files, f.of = "cancel"
      PROVE  R!Detail(f.job) \in R!Files /\ R!Overwritten(R!Detail(f.job))
  <2>1. f.job \in Jobs
    BY <1>2 DEF R!Files, R!Requests, R!Hello, R!Active, R!History, R!Detail, R!Usage, R!File
  <2>2. QED
    BY <2>1 DEF R!Files, R!Requests, R!Overwritten, R!Detail, R!File
<1>3. QED
  BY <1>1, <1>2

\* A file that is not there, or was cut short, holds nothing.
LEMMA EmptyContents ==
  /\ R!Torn \in Contents /\ R!Absent \in Contents
  /\ R!Torn.items = <<>> /\ R!Absent.items = <<>> /\ Len(<<>>) = 0
  /\ R!Torn.form = "torn" /\ R!Absent.form = "absent"
BY EmptySeq DEF Contents, R!Torn, R!Absent

\* A result added to the end of a file keeps its order and what it had.
LEMMA OneMore ==
  ASSUME NEW items \in Seq(Res), NEW r \in Res,
         \A k \in 1..Len(items) : items[k].call < r.call,
         InOrder(items)
  PROVE  /\ Append(items, r) \in Seq(Res) /\ InOrder(Append(items, r))
         /\ Len(Append(items, r)) = Len(items) + 1 /\ Len(items) \in Nat
         /\ \A k \in 1..Len(items) : Append(items, r)[k] = items[k]
         /\ Append(items, r)[Len(items) + 1] = r
<1>1. /\ Append(items, r) \in Seq(Res) /\ Len(items) \in Nat
      /\ Len(Append(items, r)) = Len(items) + 1
      /\ \A k \in 1..Len(items) : Append(items, r)[k] = items[k]
      /\ Append(items, r)[Len(items) + 1] = r
  BY AppendProperties
<1>2. ASSUME NEW m \in 1..Len(items) + 1, NEW n \in 1..Len(items) + 1, m < n
      PROVE  Append(items, r)[m].call < Append(items, r)[n].call
  <2>1. m \in 1..Len(items)
    BY <1>1, <1>2
  <2>2. CASE n \in 1..Len(items)
    BY <1>1, <1>2, <2>1, <2>2 DEF InOrder
  <2>3. CASE n = Len(items) + 1
    BY <1>1, <2>1, <2>3
  <2>4. QED
    BY <1>1, <2>2, <2>3
<1>3. QED
  BY <1>1, <1>2 DEF InOrder

\* What _write, _append or _append_or_single makes of a file it can read
\* (recording.py:40-75).
LEMMA WrittenHolds ==
  ASSUME FilesInv, NEW f \in R!Files, R!Readable(f), NEW r \in Res, r.call = calls + 1
  PROVE  LET w == R!Written(f, r) IN
           /\ w \in Contents /\ w.form \in {"one", "list"} /\ Holds(w.items, f)
           /\ \A k \in 1..Len(w.items) : w.items[k].call <= calls + 1
           /\ IF R!Overwritten(f) THEN w.items = <<r>>
              ELSE \E k \in 1..Len(w.items) : w.items[k] = r
<1> DEFINE w == R!Written(f, r)
<1>1. calls \in Nat /\ dir[f] \in Contents /\ dir[f].items \in Seq(Res)
  BY DEF FilesInv, RecordingOK, Contents
<1>2. CASE R!Overwritten(f)
  <2>1. w = [form |-> "one", items |-> <<r>>]
    BY <1>2 DEF R!Written
  <2>2. <<r>> \in Seq(Res) /\ Len(<<r>>) = 1 /\ <<r>>[1] = r
    OBVIOUS
  <2>3. \A a \in told : a.result.call <= calls /\ a.result.call \in Nat
    BY DEF FilesInv, Past, RecordingOK, Res
  <2>4. Holds(w.items, f)
    BY <1>1, <1>2, <2>1, <2>2, <2>3 DEF Holds
  <2>5. QED
    BY <1>1, <1>2, <2>1, <2>2, <2>4 DEF Contents
<1>3. CASE ~R!Overwritten(f)
  <2>1. Holds(dir[f].items, f)
    BY <1>3 DEF R!Readable, FilesInv, AllHeld
  <2>2. \A k \in 1..Len(dir[f].items) : dir[f].items[k].call < r.call
    <3>1. ASSUME NEW k \in 1..Len(dir[f].items)
          PROVE  dir[f].items[k].call < r.call
      <4>1. dir[f].items[k] \in Res /\ dir[f].items[k].call <= calls
        BY <1>1 DEF FilesInv, Past
      <4>2. QED
        BY <1>1, <4>1 DEF Res
    <3>2. QED
      BY <3>1
  <2>3. w.form \in {"one", "list"} /\ w = [form |-> w.form, items |-> Append(dir[f].items, r)]
    <3>1. CASE f.of = "job_usage" /\ dir[f].form = "absent"
      <4>1. dir[f].items = <<>>
        BY <3>1 DEF FilesInv, Past
      <4>2. Append(dir[f].items, r) = <<r>>
        BY <4>1
      <4>3. QED
        BY <3>1, <4>2 DEF R!Written
    <3>2. CASE ~(f.of = "job_usage" /\ dir[f].form = "absent")
      BY <1>3, <3>2 DEF R!Written
    <3>3. QED
      BY <3>1, <3>2
  <2>4. InOrder(dir[f].items)
    BY <1>3, <2>1 DEF Holds
  <2> DEFINE s == dir[f].items
  <2>5. /\ Append(s, r) \in Seq(Res) /\ InOrder(Append(s, r))
        /\ Len(Append(s, r)) = Len(s) + 1 /\ Len(s) \in Nat
        /\ \A k \in 1..Len(s) : Append(s, r)[k] = s[k]
        /\ Append(s, r)[Len(s) + 1] = r
    BY <1>1, <2>2, <2>4, OneMore
  <2>6. \A a \in told : a.of = f => \E k \in 1..Len(s) : s[k] = a.result
    BY <1>3, <2>1 DEF Holds
  <2>7. w.items = Append(s, r)
    BY <2>3
  <2> HIDE DEF w
  <2>8. w \in Contents /\ w.form \in {"one", "list"}
    <3>1. \A x \in {"one", "list"} : [form |-> x, items |-> Append(s, r)] \in Contents
      BY <2>5 DEF Contents
    <3>2. QED
      BY <2>3, <3>1
  <2> HIDE DEF s
  <2>9. \A k \in 1..Len(s) : k \in 1..Len(s) + 1
    BY <2>5
  <2>10. Holds(w.items, f)
    BY <1>3, <2>5, <2>6, <2>7, <2>9 DEF Holds
  <2>11. \A k \in 1..Len(w.items) : w.items[k].call <= calls + 1
    <3>1. \A k \in 1..Len(s) : s[k].call <= calls + 1
      <4>1. s \in Seq(Res) /\ \A k \in 1..Len(s) : s[k].call <= calls
        BY <1>1 DEF s, FilesInv, Past
      <4>2. \A k \in 1..Len(s) : s[k] \in Res
        BY <4>1
      <4>3. \A k \in 1..Len(s) : s[k].call \in Nat
        BY <4>2 DEF Res
      <4>4. QED
        BY <1>1, <4>1, <4>3
    <3>2. ASSUME NEW k \in 1..Len(s) + 1
          PROVE  Append(s, r)[k].call <= calls + 1
      <4>1. CASE k \in 1..Len(s)
        BY <2>5, <3>1, <4>1
      <4>2. CASE k = Len(s) + 1
        BY <1>1, <2>5, <4>2
      <4>3. QED
        BY <2>5, <4>1, <4>2
    <3>3. QED
      BY <2>5, <2>7, <3>2
  <2>12. Len(s) + 1 \in 1..Len(w.items)
    BY <2>5, <2>7
  <2>13. QED
    BY <1>3, <2>5, <2>7, <2>8, <2>10, <2>11, <2>12 DEF w
<1>4. QED
  BY <1>2, <1>3

-----------------------------------------------------------------------------
(* The steps of an agent                                                    *)

\* A call is made and its file opened, which empties it (recording.py:46-77, 86-101).
LEMMA OpensKeeps ==
  ASSUME FilesInv, NEW f \in R!Files, NEW lists \in SUBSET Jobs, agent \in {"hello", "ready"},
         R!Opens(f, R!Result(calls + 1, lists)),
         UNCHANGED <<cut, told, fixture, asked, index, failNext, served>>
  PROVE  FilesInv'
<1> DEFINE r == R!Result(calls + 1, lists)
           w == R!Written(f, r)
<1>1. /\ R!Readable(f) /\ writing' = [file |-> f, result |-> r, whole |-> w]
      /\ dir' = [dir EXCEPT ![f] = R!Torn] /\ agent' = "writing" /\ calls' = calls + 1
  BY DEF R!Opens
<1>2. calls \in Nat /\ dir \in [R!Files -> Contents]
  BY DEF FilesInv, RecordingOK
<1>3. r \in Res /\ r.call = calls + 1
  BY <1>2 DEF R!Result, Res
<1>4. /\ w \in Contents /\ w.form \in {"one", "list"} /\ Holds(w.items, f)
      /\ \A k \in 1..Len(w.items) : w.items[k].call <= calls + 1
      /\ IF R!Overwritten(f) THEN w.items = <<r>>
         ELSE \E k \in 1..Len(w.items) : w.items[k] = r
  BY <1>1, <1>3, WrittenHolds
<1> HIDE DEF r, w
<1>5. /\ dir' \in [R!Files -> Contents] /\ dir'[f] = R!Torn
      /\ \A g \in R!Files \ {f} : dir'[g] = dir[g]
  BY <1>1, <1>2, EmptyContents
<1>6. writing'.file = f /\ writing'.result = r /\ writing'.whole = w
  BY <1>1
<1>7. RecordingOK'
  BY <1>1, <1>2, <1>5, <1>6 DEF FilesInv, RecordingOK
<1>8. Past'
  <2>1. ASSUME NEW g \in R!Files
        PROVE  /\ dir'[g].form \in {"absent", "torn"} => dir'[g].items = <<>>
               /\ \A k \in 1..Len(dir'[g].items) : dir'[g].items[k].call <= calls + 1
    <3>1. CASE g = f
      BY <1>5, <3>1, EmptyContents
    <3>2. CASE g # f
      <4>1. dir'[g] = dir[g] /\ dir[g].items \in Seq(Res)
        BY <1>2, <1>5, <3>2 DEF Contents
      <4>2. \A k \in 1..Len(dir[g].items) : dir[g].items[k] \in Res
        BY <4>1
      <4>3. \A k \in 1..Len(dir[g].items) : dir[g].items[k].call \in Nat /\ dir[g].items[k].call <= calls
        BY <4>2 DEF FilesInv, Past, Res
      <4>4. QED
        BY <1>2, <4>1, <4>3 DEF FilesInv, Past
    <3>3. QED
      BY <3>1, <3>2
  <2>2. \A a \in told : a.result.call \in Nat /\ a.result.call <= calls
    BY DEF FilesInv, RecordingOK, Past, Res
  <2>3. QED
    BY <1>1, <1>2, <2>1, <2>2 DEF Past
<1>9. AllHeld'
  BY <1>5, EmptyContents DEF FilesInv, AllHeld, Holds
<1>10. InHand'
  BY <1>1, <1>2, <1>3, <1>4, <1>5, <1>6 DEF InHand, Holds
<1>11. TornIsCut'
  BY <1>1, <1>5, <1>6 DEF FilesInv, TornIsCut
<1>12. Replaying'
  BY <1>1 DEF FilesInv, Replaying
<1>13. QED
  BY <1>7, <1>8, <1>9, <1>10, <1>11, <1>12 DEF FilesInv

\* The file is whole: what is in it holds what was told (recording.py:40-58).
LEMMA FinishWriteKeeps ==
  ASSUME FilesInv, R!FinishWrite
  PROVE  FilesInv'
<1> DEFINE f == writing.file
<1>1. /\ agent = "writing" /\ agent' = "answering"
      /\ dir' = [dir EXCEPT ![f] = writing.whole]
      /\ UNCHANGED <<cut, writing, calls, told, fixture, asked, index, failNext, served>>
  BY DEF R!FinishWrite, R!replay
<1>2. /\ f \in R!Files /\ dir \in [R!Files -> Contents] /\ calls \in Nat
      /\ writing.whole \in Contents /\ writing.whole.form \in {"one", "list"}
      /\ Holds(writing.whole.items, f)
      /\ \A k \in 1..Len(writing.whole.items) : writing.whole.items[k].call <= calls
  BY <1>1 DEF FilesInv, RecordingOK, InHand
<1> HIDE DEF f
<1>3. /\ dir' \in [R!Files -> Contents] /\ dir'[f] = writing.whole
      /\ \A g \in R!Files \ {f} : dir'[g] = dir[g]
  BY <1>1, <1>2
<1>4. RecordingOK'
  BY <1>1, <1>3 DEF FilesInv, RecordingOK
<1>5. Past'
  BY <1>1, <1>2, <1>3 DEF FilesInv, Past
<1>6. AllHeld'
  BY <1>1, <1>2, <1>3 DEF FilesInv, AllHeld, Holds
<1>7. InHand'
  BY <1>1, <1>3 DEF FilesInv, InHand, Holds, f
<1>8. TornIsCut'
  BY <1>1, <1>2, <1>3 DEF FilesInv, TornIsCut, f
<1>9. Replaying'
  BY <1>1 DEF FilesInv, Replaying
<1>10. QED
  BY <1>4, <1>5, <1>6, <1>7, <1>8, <1>9 DEF FilesInv

\* A write that fails, and the end of the agent, leave the file as it is.
LEMMA StopsKeep ==
  ASSUME FilesInv, R!Launch \/ R!WriteFails \/ R!Exit
  PROVE  FilesInv'
<1>1. /\ agent' \in {"off", "hello", "ready"} /\ agent # agent'
      /\ UNCHANGED <<dir, writing, calls, told, fixture, asked, index, failNext, served>>
      /\ cut' = IF agent = "writing" THEN cut \cup {writing.file} ELSE cut
      /\ agent' = "off" \/ agent \notin {"off"} \/ fixture = "none"
  BY DEF R!Launch, R!WriteFails, R!Exit, R!replay, R!files
<1>2. RecordingOK' /\ Past' /\ AllHeld' /\ InHand' /\ TornIsCut'
  BY <1>1 DEF FilesInv, RecordingOK, Past, AllHeld, Holds, InHand, TornIsCut
<1>3. Replaying'
  <2>1. fixture \in {"loaded", "started", "closed"} => agent = "off"
    BY DEF FilesInv, Replaying
  <2>2. CASE fixture \in {"loaded", "started", "closed"}
    BY <1>1, <2>1, <2>2
  <2>3. CASE fixture \notin {"loaded", "started", "closed"}
    BY <1>1, <2>3 DEF FilesInv, Replaying
  <2>4. QED
    BY <2>2, <2>3
<1>4. QED
  BY <1>2, <1>3 DEF FilesInv

\* An answer is sent when its file holds it (recording.py:60-101).
LEMMA AnswerKeeps ==
  ASSUME FilesInv, R!Answer
  PROVE  FilesInv'
<1> DEFINE f == writing.file
           r == writing.result
           a == [of |-> f, result |-> r]
<1>1. /\ agent = "answering" /\ agent' = "ready" /\ told' = told \cup {a}
      /\ UNCHANGED <<dir, cut, writing, calls, fixture, asked, index, failNext, served>>
  BY DEF R!Answer, R!replay, R!files
<1>2. /\ f \in R!Files /\ r \in Res /\ r.call = calls /\ calls \in Nat
      /\ IF R!Overwritten(f) THEN dir[f].items = <<r>>
         ELSE \E k \in 1..Len(dir[f].items) : dir[f].items[k] = r
  BY <1>1 DEF FilesInv, RecordingOK, InHand
<1>3. a.of = f /\ a.result = r /\ a \in [of : R!Files, result : Res]
  BY <1>2
<1> HIDE DEF f, r, a
<1>4. RecordingOK'
  BY <1>1, <1>3 DEF FilesInv, RecordingOK
<1>5. Past'
  BY <1>1, <1>2, <1>3 DEF FilesInv, Past
<1>6. AllHeld'
  <2>1. SUFFICES ASSUME NEW g \in R!Files, dir[g].form # "torn"
                 PROVE  IF R!Overwritten(g)
                        THEN \A b \in told \cup {a} : b.of = g =>
                               dir[g].items # <<>> /\ dir[g].items[1].call >= b.result.call
                        ELSE /\ \A b \in told \cup {a} : b.of = g =>
                                  \E k \in 1..Len(dir[g].items) : dir[g].items[k] = b.result
                             /\ InOrder(dir[g].items)
    BY <1>1 DEF AllHeld, Holds
  <2>2. Holds(dir[g].items, g)
    BY <2>1 DEF FilesInv, AllHeld
  <2>3. g = f /\ R!Overwritten(g) => dir[g].items # <<>> /\ dir[g].items[1].call >= r.call
    <3>1. <<r>> # <<>> /\ <<r>>[1] = r
      OBVIOUS
    <3>2. SUFFICES ASSUME g = f, R!Overwritten(f)
                   PROVE  dir[f].items # <<>> /\ dir[f].items[1].call >= r.call
      OBVIOUS
    <3>3. dir[f].items = <<r>>
      BY <1>2, <3>2
    <3>4. r.call >= r.call
      BY <1>2
    <3>5. QED
      BY <3>1, <3>3, <3>4
  <2>4. QED
    BY <1>2, <1>3, <2>2, <2>3 DEF Holds
<1>7. InHand' /\ TornIsCut' /\ Replaying'
  BY <1>1 DEF FilesInv, InHand, TornIsCut, Replaying
<1>8. QED
  BY <1>4, <1>5, <1>6, <1>7 DEF FilesInv

-----------------------------------------------------------------------------
(* The steps of a replay                                                    *)

\* FixtureTransport reads the directory (fixture.py:57, 123-141).
LEMMA LoadKeeps ==
  ASSUME FilesInv, R!Load
  PROVE  FilesInv'
<1>1. /\ agent = "off" /\ fixture = "none" /\ asked' \in R!Files
      /\ fixture' = IF \E f \in R!Files : dir[f].form = "torn" THEN "failed" ELSE "loaded"
      /\ UNCHANGED <<dir, cut, agent, writing, calls, told, index, failNext, served>>
  BY DEF R!Load, R!files, R!process
<1>2. RecordingOK' /\ Past' /\ AllHeld' /\ InHand' /\ TornIsCut'
  BY <1>1 DEF FilesInv, RecordingOK, Past, AllHeld, Holds, InHand, TornIsCut
<1>3. Replaying'
  BY <1>1 DEF FilesInv, Replaying, TornIsCut
<1>4. QED
  BY <1>2, <1>3 DEF FilesInv

\* What a replay does besides answering.
LEMMA FixtureKeeps ==
  ASSUME FilesInv, R!StartReplay \/ R!CloseReplay \/ R!FailNext
  PROVE  FilesInv'
<1>1. /\ fixture \in {"loaded", "started", "closed"} /\ fixture' \in {"loaded", "started", "closed"}
      /\ UNCHANGED <<dir, cut, agent, writing, calls, told, asked, index, served>>
  BY DEF R!StartReplay, R!CloseReplay, R!FailNext, R!files, R!process
<1>2. RecordingOK' /\ Past' /\ AllHeld' /\ InHand' /\ TornIsCut'
  BY <1>1 DEF FilesInv, RecordingOK, Past, AllHeld, Holds, InHand, TornIsCut
<1>3. Replaying'
  BY <1>1 DEF FilesInv, Replaying, Position
<1>4. QED
  BY <1>2, <1>3 DEF FilesInv

\* The smaller of two numbers.
LEMMA Smaller ==
  ASSUME NEW m \in Nat, NEW n \in Nat
  PROVE  R!Min({m, n}) = IF m <= n THEN m ELSE n
<1>1. \E x \in {m, n} : \A y \in {m, n} : x <= y
  OBVIOUS
<1>2. R!Min({m, n}) \in {m, n} /\ R!Min({m, n}) <= m /\ R!Min({m, n}) <= n
  BY <1>1 DEF R!Min
<1>3. QED
  BY <1>2

\* What a request that is counted is answered with: the next item, or the last.
LEMMA ReplayStep ==
  ASSUME FilesInv, R!Replay
  PROVE  /\ fixture \in {"started", "closed"} /\ fixture' = fixture
         /\ UNCHANGED <<dir, cut, agent, writing, calls, told, asked>>
         /\ \/ index' = index /\ served' = served
            \/ /\ index' \in {index, index + 1} /\ (index' # index => index' = index + 1)
               /\ index' = IF index <= Len(dir[asked].items) THEN index + 1 ELSE index
               /\ served' = R!ReplayOf(asked)
               /\ dir[asked].items # <<>> =>
                    index' > 0 /\ served' = dir[asked].items[Position(asked)']
<1>1. /\ fixture \in {"started", "closed"} /\ fixture' = fixture
      /\ UNCHANGED <<dir, cut, agent, writing, calls, told, asked>>
      /\ \/ index' = index /\ served' = served
         \/ index' = R!Count /\ served' = R!ReplayOf(asked)
  BY DEF R!Replay, R!files, R!process
<1>2. index \in Nat /\ asked \in R!Files /\ dir[asked].items \in Seq(Res)
  BY DEF FilesInv, RecordingOK, Contents
<1>3. Len(dir[asked].items) \in Nat
  BY <1>2
<1>4. ASSUME index' = R!Count, served' = R!ReplayOf(asked), dir[asked].items # <<>>
      PROVE  index' > 0 /\ served' = dir[asked].items[Position(asked)']
  <2>1. index' = IF index <= Len(dir[asked].items) THEN index + 1 ELSE index
    BY <1>4 DEF R!Count
  <2>2. served' = dir[asked].items[IF R!Overwritten(asked) THEN 1
                                   ELSE R!Min({index + 1, Len(dir[asked].items)})]
    BY <1>4 DEF R!ReplayOf
  <2>3. R!Min({index + 1, Len(dir[asked].items)}) =
          IF index + 1 <= Len(dir[asked].items) THEN index + 1 ELSE Len(dir[asked].items)
    BY <1>2, <1>3, Smaller
  <2>4. Position(asked)' = IF R!Overwritten(asked) THEN 1
                           ELSE IF index' <= Len(dir[asked].items) THEN index'
                                ELSE Len(dir[asked].items)
    BY <1>1 DEF Position
  <2>5. Len(dir[asked].items) > 0
    BY <1>2, <1>3, <1>4, EmptySeq
  <2>6. index' > 0
    BY <1>2, <1>3, <2>1, <2>5
  <2>7. (IF index' <= Len(dir[asked].items) THEN index' ELSE Len(dir[asked].items)) =
          R!Min({index + 1, Len(dir[asked].items)})
    BY <1>2, <1>3, <2>1, <2>3, <2>5
  <2>8. QED
    BY <2>2, <2>4, <2>6, <2>7
<1>5. QED
  BY <1>1, <1>2, <1>4 DEF R!Count

\* A replay answers a request.
LEMMA ReplayKeeps ==
  ASSUME FilesInv, R!Replay
  PROVE  FilesInv'
<1>1. /\ fixture \in {"started", "closed"} /\ fixture' = fixture
      /\ UNCHANGED <<dir, cut, agent, writing, calls, told, asked>>
      /\ \/ index' = index /\ served' = served
         \/ /\ index' \in {index, index + 1}
            /\ index' = IF index <= Len(dir[asked].items) THEN index + 1 ELSE index
            /\ dir[asked].items # <<>> =>
                 index' > 0 /\ served' = dir[asked].items[Position(asked)']
  BY ReplayStep
<1>2. index \in Nat /\ Len(dir[asked].items) \in Nat
  BY DEF FilesInv, RecordingOK, Contents
<1>3. RecordingOK' /\ Past' /\ AllHeld' /\ InHand' /\ TornIsCut'
  BY <1>1, <1>2 DEF FilesInv, RecordingOK, Past, AllHeld, Holds, InHand, TornIsCut
<1>4. Replaying'
  <2>1. CASE index' = index /\ served' = served
    BY <1>1, <2>1 DEF FilesInv, Replaying, Position
  <2>2. CASE ~(index' = index /\ served' = served)
    <3>1. index' > 0
      BY <1>1, <1>2, <2>2
    <3>2. QED
      BY <1>1, <1>2, <2>2, <3>1 DEF FilesInv, Replaying
  <2>3. QED
    BY <2>1, <2>2
<1>5. QED
  BY <1>3, <1>4 DEF FilesInv

-----------------------------------------------------------------------------
(* The machine                                                              *)

\* The directory a behaviour starts with.
LEMMA StartsWhole ==
  ASSUME R!Init
  PROVE  FilesInv
<1>1. PICK active \in {R!Absent, [form |-> "one", items |-> <<R!Result(0, Jobs)>>],
                       [form |-> "list", items |-> <<>>]} :
        dir = [f \in R!Files |-> IF f = R!Active THEN active ELSE R!Absent]
  BY DEF R!Init
<1>2. /\ agent = "off" /\ writing = [file |-> R!Hello, result |-> R!Synthetic, whole |-> R!Absent]
      /\ calls = 0 /\ told = {} /\ cut = {} /\ fixture = "none" /\ asked = R!Hello
      /\ index = 0 /\ served = R!NotFound
  BY DEF R!Init
<1>3. R!Result(0, Jobs) \in Res /\ R!Result(0, Jobs).call = 0
  BY DEF R!Result, Res
<1> DEFINE r == R!Result(0, Jobs)
<1>4. <<r>> \in Seq(Res) /\ Len(<<r>>) = 1 /\ <<r>>[1] = r
  BY <1>3
<1> HIDE DEF r
<1>5. /\ active \in Contents /\ active.form # "torn" /\ (active.form = "absent" => active.items = <<>>)
      /\ Len(active.items) \in {0, 1} /\ \A k \in 1..Len(active.items) : active.items[k].call = 0
  <2>1. CASE active = [form |-> "one", items |-> <<R!Result(0, Jobs)>>]
    <3>1. active = [form |-> "one", items |-> <<r>>]
      BY <2>1 DEF r
    <3>2. QED
      BY <1>3, <1>4, <3>1 DEF Contents, r
  <2>2. CASE active = [form |-> "list", items |-> <<>>]
    BY <2>2, EmptyContents DEF Contents
  <2>3. CASE active = R!Absent
    BY <2>3, EmptyContents
  <2>4. QED
    BY <1>1, <2>1, <2>2, <2>3 DEF r
<1>6. \A f \in R!Files : dir[f] = active \/ dir[f] = R!Absent
  BY <1>1
<1>7. RecordingOK
  BY <1>1, <1>2, <1>5, EmptyContents, FileFacts DEF RecordingOK
<1>8. Past
  BY <1>2, <1>5, <1>6, EmptyContents DEF Past
<1>9. AllHeld
  <2>1. \A f \in R!Files : InOrder(dir[f].items)
    <3>1. \A f \in R!Files : Len(dir[f].items) \in {0, 1}
      BY <1>5, <1>6, EmptyContents
    <3>2. \A l \in {0, 1} : \A m, n \in 1..l : ~(m < n)
      OBVIOUS
    <3>3. QED
      BY <3>1, <3>2 DEF InOrder
  <2>2. QED
    BY <1>2, <2>1 DEF AllHeld, Holds
<1>10. InHand /\ Replaying
  BY <1>2 DEF InHand, Replaying
<1>11. TornIsCut
  BY <1>5, <1>6, EmptyContents DEF TornIsCut
<1>12. QED
  BY <1>7, <1>8, <1>9, <1>10, <1>11 DEF FilesInv

\* Every step of the recording and of its replay.
LEMMA RecordingStep ==
  ASSUME FilesInv, R!Next \/ UNCHANGED recordings
  PROVE  FilesInv'
<1>1. CASE R!CallHello
  <2>1. /\ agent = "hello" /\ R!Opens(R!Hello, R!Result(calls + 1, {}))
        /\ UNCHANGED <<cut, told, fixture, asked, index, failNext, served>>
    BY <1>1 DEF R!CallHello, R!replay
  <2>2. {} \in SUBSET Jobs
    OBVIOUS
  <2>3. QED
    BY <2>1, <2>2, FileFacts, OpensKeeps
<1>2. ASSUME NEW f \in R!Requests, R!Call(f)
      PROVE  FilesInv'
  <2>1. PICK lists \in IF f = R!Active THEN SUBSET Jobs ELSE {{}} :
          R!Opens(f, R!Result(calls + 1, lists))
    BY <1>2 DEF R!Call
  <2>2. agent = "ready" /\ UNCHANGED <<cut, told, fixture, asked, index, failNext, served>>
    BY <1>2 DEF R!Call, R!replay
  <2>3. lists \in SUBSET Jobs /\ f \in R!Files
    BY FileFacts
  <2>4. QED
    BY <2>1, <2>2, <2>3, OpensKeeps
<1>3. CASE R!Launch \/ R!WriteFails \/ R!Exit
  BY <1>3, StopsKeep
<1>4. CASE R!FinishWrite
  BY <1>4, FinishWriteKeeps
<1>5. CASE R!Answer
  BY <1>5, AnswerKeeps
<1>6. CASE R!Load
  BY <1>6, LoadKeeps
<1>7. CASE R!StartReplay \/ R!CloseReplay \/ R!FailNext
  BY <1>7, FixtureKeeps
<1>8. CASE R!Replay
  BY <1>8, ReplayKeeps
<1>9. CASE UNCHANGED recordings
  BY <1>9 DEF recordings, FilesInv, RecordingOK, Past, AllHeld, Holds, InHand, TornIsCut, Replaying, Position
<1>10. QED
  BY <1>1, <1>2, <1>3, <1>4, <1>5, <1>6, <1>7, <1>8, <1>9 DEF R!Next

\* The invariant holds of every directory.
LEMMA RecordingHolds == DataSpec => []FilesInv
<1>1. DataInit => FilesInv
  BY StartsWhole DEF DataInit
<1>2. FilesInv /\ [DataNext]_<<side, vars, records, recordings>> => FilesInv'
  BY RecordingStep DEF DataNext
<1>3. QED
  BY <1>1, <1>2, PTL DEF DataSpec

\* A file that can be read holds what was answered, whatever was interrupted
\* (recording.py:40-101): see Recording.
THEOREM NothingIsLost == DataSpec => []NothingLost
<1>1. FilesInv => NothingLost
  <2>1. SUFFICES ASSUME FilesInv, NEW f \in R!Files, dir[f].form # "torn"
                 PROVE  IF R!Overwritten(f)
                        THEN \A r \in R!ToldOf(f) : dir[f].items # <<>> /\ dir[f].items[1].call >= r.call
                        ELSE /\ R!ToldOf(f) \subseteq R!Range(dir[f].items)
                             /\ \A m, n \in DOMAIN dir[f].items :
                                  m < n => dir[f].items[m].call < dir[f].items[n].call
    BY DEF NothingLost, R!NothingLost
  <2>2. Holds(dir[f].items, f) /\ DOMAIN dir[f].items = 1..Len(dir[f].items)
    BY <2>1 DEF FilesInv, AllHeld, RecordingOK, Contents
  <2>3. \A r \in R!ToldOf(f) : \E a \in told : a.of = f /\ a.result = r
    BY DEF R!ToldOf
  <2>4. CASE R!Overwritten(f)
    BY <2>2, <2>3, <2>4 DEF Holds
  <2>5. CASE ~R!Overwritten(f)
    BY <2>2, <2>3, <2>5 DEF Holds, InOrder, R!Range
  <2>6. QED
    BY <2>4, <2>5
<1>2. QED
  BY <1>1, RecordingHolds, PTL

\* A directory fails to load only after an interrupted write (fixture.py:57,
\* 123-141): see Recording.
THEOREM WholeUnlessCut == DataSpec => []LoadsWhole
<1>1. FilesInv => LoadsWhole
  BY DEF FilesInv, Replaying, LoadsWhole, R!LoadsWhole
<1>2. QED
  BY <1>1, RecordingHolds, PTL

\* What a counted request is answered with follows the answer before it.
LEMMA AnswersFollow ==
  ASSUME FilesInv, R!Replay, index' # index
  PROVE  IF served' = R!NotFound
         THEN /\ R!ToldOf(asked) = {}
              /\ asked.of = "cancel" =>
                   /\ R!ToldOf(R!Detail(asked.job)) = {}
                   /\ \A r \in R!ToldOf(R!Active) : asked.job \notin r.lists
         ELSE IF served' = R!Synthetic THEN R!ToldOf(asked) = {}
         ELSE R!Follows(served, served', asked)
<1> DEFINE items == dir[asked].items
<1>1. /\ fixture \in {"started", "closed"} /\ asked' = asked /\ dir' = dir
      /\ index <= Len(items) /\ index' = index + 1 /\ served' = R!ReplayOf(asked)
      /\ items # <<>> => served' = items[Position(asked)']
  BY ReplayStep
<1>2. /\ index \in Nat /\ asked \in R!Files /\ dir \in [R!Files -> Contents]
      /\ items \in Seq(Res) /\ Len(items) \in Nat
  BY DEF FilesInv, RecordingOK, Contents
<1>3. \A f \in R!Files : Holds(dir[f].items, f)
  BY <1>1 DEF FilesInv, AllHeld, Replaying
<1>4. \A f \in R!Files : \A r \in R!ToldOf(f) : \E a \in told : a.of = f /\ a.result = r
  BY DEF R!ToldOf
<1>5. \A f \in R!Files : dir[f].items = <<>> => R!ToldOf(f) = {}
  BY <1>3, <1>4, EmptyContents DEF Holds
<1>6. CASE items = <<>>
  <2>1. R!ToldOf(asked) = {}
    BY <1>2, <1>5, <1>6
  <2>2. R!NotFound # R!Synthetic
    <3>1. R!NotFound.call = -1 /\ R!Synthetic.call = -2
      BY DEF R!NotFound, R!Synthetic, R!Result
    <3>2. QED
      BY <3>1
  <2>3. served' \in {R!NotFound, R!Synthetic}
    BY <1>1, <1>6 DEF R!ReplayOf
  <2>4. ASSUME served' = R!NotFound, asked.of = "cancel"
        PROVE  /\ R!ToldOf(R!Detail(asked.job)) = {}
               /\ \A r \in R!ToldOf(R!Active) : asked.job \notin r.lists
    <3>1. ~R!Known(asked.job)
      BY <1>1, <1>6, <2>2, <2>4 DEF R!ReplayOf
    <3>2. R!Active \in R!Files /\ ~R!Overwritten(R!Active) /\ R!Detail(asked.job) \in R!Files
      BY <1>2, <2>4, FileFacts
    <3>3. R!ToldOf(R!Detail(asked.job)) = {}
      BY <1>5, <3>1, <3>2 DEF R!Known
    <3>4. \A r \in R!ToldOf(R!Active) :
            \E k \in 1..Len(dir[R!Active].items) : dir[R!Active].items[k] = r
      BY <1>3, <1>4, <3>2 DEF Holds
    <3>5. DOMAIN dir[R!Active].items = 1..Len(dir[R!Active].items)
      BY <1>2, <3>2 DEF Contents
    <3>6. R!ToldOf(R!Active) \subseteq R!Range(dir[R!Active].items)
      BY <3>4, <3>5 DEF R!Range
    <3>7. QED
      BY <3>1, <3>3, <3>6 DEF R!Known, R!JobListed
  <2>5. QED
    BY <2>1, <2>3, <2>4
<1>7. CASE items # <<>>
  <2>1. Len(items) > 0
    BY <1>2, <1>7, EmptySeq
  <2>2. Position(asked)' = IF R!Overwritten(asked) THEN 1
                           ELSE IF index + 1 <= Len(items) THEN index + 1 ELSE Len(items)
    BY <1>1 DEF Position
  <2>3. Position(asked)' \in 1..Len(items)
    BY <1>2, <2>1, <2>2
  <2>4. served' = items[Position(asked)']
    BY <1>1, <1>7
  <2>5. served' \in Res
    BY <1>2, <2>3, <2>4
  <2>6. served' # R!NotFound /\ served' # R!Synthetic
    <3>1. R!NotFound.call = -1 /\ R!Synthetic.call = -2
      BY DEF R!NotFound, R!Synthetic, R!Result
    <3>2. served'.call \in Nat
      BY <2>5 DEF Res
    <3>3. QED
      BY <3>1, <3>2
  <2>7. \A k \in 1..Len(items) : items[k].call \in Nat
    <3>1. \A k \in 1..Len(items) : items[k] \in Res
      BY <1>2
    <3>2. QED
      BY <3>1 DEF Res
  <2>8. Holds(items, asked)
    BY <1>2, <1>3
  <2>9. /\ index = 0 => served.call = -1
        /\ index > 0 => served = items[Position(asked)]
    BY <1>1, <1>7 DEF FilesInv, Replaying, R!NotFound, R!Result
  <2> HIDE DEF items
  <2>10. SUFFICES ASSUME NEW a \in told, a.of = asked
                  PROVE  /\ served.call < a.result.call /\ a.result.call < served'.call => R!Overwritten(asked)
                         /\ served.call >= served'.call \/ R!Overwritten(asked) => a.result.call <= served'.call
    BY <1>2, <1>4, <2>6 DEF R!Follows
  <2>11. CASE R!Overwritten(asked)
    <3>1. items[1].call >= a.result.call /\ a.result.call \in Nat
      <4>1. items[1].call >= a.result.call
        BY <2>8, <2>10, <2>11 DEF Holds
      <4>2. a.result \in Res
        BY DEF FilesInv, RecordingOK
      <4>3. QED
        BY <4>1, <4>2 DEF Res
    <3>2. 1 \in 1..Len(items)
      BY <1>2, <2>1
    <3>3. QED
      BY <2>2, <2>4, <2>7, <2>11, <3>1, <3>2
  <2>12. CASE ~R!Overwritten(asked)
    <3>1. PICK k \in 1..Len(items) : items[k] = a.result
      BY <2>8, <2>10, <2>12 DEF Holds
    <3>2. \A m, n \in 1..Len(items) : m < n => items[m].call < items[n].call
      BY <2>8, <2>12 DEF Holds, InOrder
    <3>3. CASE index = 0
      <4>1. served' = items[1] /\ 1 \in 1..Len(items)
        BY <1>2, <2>1, <2>2, <2>4, <2>12, <3>3
      <4>2. k = 1 \/ items[1].call < items[k].call
        BY <1>2, <3>1, <3>2, <4>1
      <4>3. items[1].call \in Nat /\ items[k].call \in Nat
        BY <2>7, <4>1
      <4>4. QED
        BY <2>9, <2>12, <3>1, <3>3, <4>1, <4>2, <4>3
    <3>4. CASE index > 0 /\ index + 1 <= Len(items)
      <4>1. /\ index \in 1..Len(items) /\ index + 1 \in 1..Len(items)
            /\ served' = items[index + 1]
        BY <1>2, <2>2, <2>4, <2>12, <3>4
      <4>2. served = items[index]
        BY <1>1, <2>9, <2>12, <3>4 DEF Position, items
      <4>3. items[index].call < items[index + 1].call
        BY <1>2, <3>2, <4>1
      <4>4. k = index \/ k = index + 1 \/ items[k].call < items[index].call
            \/ items[index + 1].call < items[k].call
        BY <1>2, <3>1, <3>2, <4>1
      <4>5. items[index].call \in Nat /\ items[index + 1].call \in Nat /\ items[k].call \in Nat
        BY <2>7, <4>1
      <4>6. QED
        BY <2>12, <3>1, <4>1, <4>2, <4>3, <4>4, <4>5
    <3>5. CASE index > 0 /\ ~(index + 1 <= Len(items))
      <4>1. index = Len(items) /\ served' = items[Len(items)] /\ Len(items) \in 1..Len(items)
        BY <1>1, <1>2, <2>1, <2>2, <2>4, <2>12, <3>5 DEF items
      <4>2. served = items[Len(items)]
        BY <1>1, <2>9, <2>12, <3>5, <4>1 DEF Position, items
      <4>3. k = Len(items) \/ items[k].call < items[Len(items)].call
        BY <1>2, <3>1, <3>2, <4>1
      <4>4. items[k].call \in Nat /\ items[Len(items)].call \in Nat
        BY <2>7, <4>1
      <4>5. QED
        BY <2>12, <3>1, <4>1, <4>2, <4>3, <4>4
    <3>6. QED
      BY <1>2, <3>3, <3>4, <3>5
  <2>13. QED
    BY <2>11, <2>12
<1>8. QED
  BY <1>6, <1>7

\* A replay answers the way the agent did, in that order (fixture.py:5-14,
\* 143-214): see Recording.
THEOREM ReplayFollows == DataSpec => ReplaysInOrder
<1>1. R!Next /\ index' # index => R!Replay
  <2>1. R!Next => R!Replay \/ index' = index
    BY DEF R!Next, R!Launch, R!CallHello, R!Call, R!FinishWrite, R!WriteFails, R!Answer, R!Exit,
           R!Load, R!StartReplay, R!CloseReplay, R!FailNext, R!replay
  <2>2. QED
    BY <2>1
<1>2. FilesInv /\ [DataNext]_<<side, vars, records, recordings>> =>
        [index' # index =>
           IF served' = R!NotFound
           THEN /\ R!ToldOf(asked) = {}
                /\ asked.of = "cancel" =>
                     /\ R!ToldOf(R!Detail(asked.job)) = {}
                     /\ \A r \in R!ToldOf(R!Active) : asked.job \notin r.lists
           ELSE IF served' = R!Synthetic THEN R!ToldOf(asked) = {}
           ELSE R!Follows(served, served', asked)]_(R!vars)
  BY <1>1, AnswersFollow DEF DataNext, recordings
<1>3. QED
  BY <1>2, RecordingHolds, PTL DEF DataSpec, ReplaysInOrder, R!ReplaysInOrder

\* What holds of the rendering and the records holds of them beside the recordings.
THEOREM RecordsBeside ==
  DataSpec => [](Denotes /\ Maximal /\ SourcesAgree) /\ TimesAreFinal
<1>1. DataInit => RecordsInit
  BY DEF DataInit
<1>2. [DataNext]_<<side, vars, records, recordings>> => [RecordsNext]_<<vars, records>>
  BY DEF DataNext
<1>3. DataSpec => RecordsSpec
  BY <1>1, <1>2, PTL DEF DataSpec, RecordsSpec
<1>4. JobInv => Denotes /\ Maximal
  BY DEF JobInv, RangesInv
<1>5. QED
  BY <1>3, <1>4, RecordsInductive, SourcesDoAgree, TimesStay, PTL

-----------------------------------------------------------------------------
(* The rows of an array (ArrayRows)                                         *)

\* A set of numbers that is not empty has a least one.
LEMMA Least ==
  ASSUME NEW S \in SUBSET Nat, S # {}
  PROVE  \E m \in S : \A n \in S : m <= n
<1>1. IsWellFoundedOn(OpToRel(<, Nat), Nat)
  BY NatLessThanWellFounded
<1>2. PICK m \in S : \A n \in S : ~ (<<n, m>> \in OpToRel(<, Nat))
  BY <1>1, WFMin
<1>3. ASSUME NEW n \in S PROVE m <= n
  <2>1. ~ (n < m)
    BY <1>2 DEF OpToRel
  <2>2. QED
    BY <2>1
<1>4. QED
  BY <1>3

\* The longest ranges of a set of tasks cover it: the one around a task begins at
\* the least number from which all are waiting, and ends before the next that is not.
LEMMA ExpandRuns ==
  ASSUME NEW w \in SUBSET A!Tasks
  PROVE  A!Expand(A!Runs(w)) = w
<1>1. ASSUME NEW p \in A!Runs(w), NEW n \in p.lo..p.hi PROVE n \in w
  BY DEF A!Runs
<1>2. ASSUME NEW n \in w PROVE \E p \in A!Runs(w) : n \in p.lo..p.hi /\ (n - p.lo) % p.step = 0
  <2> DEFINE L == {a \in 0..n : a..n \subseteq w}
             H == {b \in Nat : n < b /\ b \notin w}
  <2>0. w \subseteq Nat /\ n \in Nat /\ \A c \in w : c < Size
    BY SizeAssumption DEF A!Tasks
  <2>1. PICK lo \in L : \A a \in L : lo <= a
    <3>1. n \in L
      BY <2>0
    <3>2. L \in SUBSET Nat
      BY <2>0
    <3>3. QED
      BY <3>1, <3>2, Least
  <2>2. PICK top \in H : \A b \in H : top <= b
    <3>1. Size \in H
      BY <2>0, SizeAssumption
    <3>2. QED
      BY <3>1, Least
  <2>3. lo \in w /\ lo <= n /\ lo..n \subseteq w
    BY <2>0, <2>1
  <2>4. \A c \in w : c + 1 # lo
    <3>1. SUFFICES ASSUME NEW c \in w, c + 1 = lo PROVE FALSE
      OBVIOUS
    <3>2. c \in L
      BY <2>0, <2>3, <3>1
    <3>3. QED
      BY <2>0, <2>1, <3>1, <3>2
  <2>5. n..(top - 1) \subseteq w /\ top \notin w /\ top > n /\ top \in Nat
    <3>1. SUFFICES ASSUME NEW b \in n..(top - 1), b \notin w PROVE FALSE
      BY <2>2
    <3>2. b \in H
      BY <2>0, <3>1
    <3>3. QED
      BY <2>0, <2>2, <3>1, <3>2
  <2> DEFINE p == [lo |-> lo, hi |-> top - 1, step |-> 1]
  <2>6. p \in A!Runs(w)
    <3>1. top - 1 \in w /\ (top - 1) + 1 \notin w /\ lo <= top - 1
      BY <2>0, <2>3, <2>5
    <3>2. lo..(top - 1) \subseteq w
      BY <2>0, <2>3, <2>5
    <3>3. QED
      BY <2>3, <2>4, <3>1, <3>2 DEF A!Runs
  <2>7. n \in p.lo..p.hi /\ (n - p.lo) % p.step = 0
    BY <2>0, <2>3, <2>5
  <2>8. QED
    BY <2>6, <2>7
<1>3. QED
  BY <1>1, <1>2 DEF A!Expand

\* Multiples of a step.
LEMMA Multiples ==
  ASSUME NEW s \in Nat, s >= 1, NEW n \in Nat
  PROVE  /\ \A k \in Nat : k * s \in Nat /\ (k * s) % s = 0
         /\ \A k \in Nat : k <= n <=> k * s <= n * s
         /\ \A m \in Nat : m % s = 0 => \E k \in Nat : m = k * s
<1>1. ASSUME NEW k \in Nat PROVE k * s \in Nat /\ (k * s) % s = 0
  OBVIOUS
<1>2. ASSUME NEW k \in Nat, k <= n PROVE k * s <= n * s
  BY <1>2
<1>3. ASSUME NEW k \in Nat, k >= n + 1 PROVE k * s > n * s
  <2>1. k * s >= (n + 1) * s
    BY <1>3
  <2>2. (n + 1) * s = n * s + s
    OBVIOUS
  <2>3. k * s \in Nat /\ n * s \in Nat
    OBVIOUS
  <2>4. QED
    BY <2>1, <2>2, <2>3
<1>4. ASSUME NEW m \in Nat, m % s = 0 PROVE \E k \in Nat : m = k * s
  <2>1. m = s * (m \div s) + (m % s) /\ m \div s \in Nat
    OBVIOUS
  <2>2. QED
    BY <1>4, <2>1
<1>5. ASSUME NEW k \in Nat PROVE k <= n <=> k * s <= n * s
  <2>1. k * s \in Nat /\ n * s \in Nat
    OBVIOUS
  <2>2. QED
    BY <1>2, <1>3, <2>1
<1>6. QED
  BY <1>1, <1>4, <1>5

\* So does one range with a step, where there is one.
LEMMA ExpandStepped ==
  ASSUME NEW w \in SUBSET A!Tasks, NEW r \in A!Stepped(w)
  PROVE  A!Expand({r}) = w
<1> DEFINE lo == r.lo
           s == r.step
<1>1. lo \in Nat /\ r.hi \in Nat /\ s \in Nat /\ s >= 1
  <2>1. r \in [lo : w, hi : w, step : 2..Size]
    BY Zenon DEF A!Stepped
  <2>2. w \subseteq Nat
    BY SizeAssumption DEF A!Tasks
  <2>3. r.lo \in w /\ r.hi \in w /\ r.step \in 2..Size
    BY <2>1
  <2>4. r.lo \in Nat /\ r.hi \in Nat
    BY <2>2, <2>3
  <2>5. r.step \in Nat /\ r.step >= 2
    BY <2>3, SizeAssumption
  <2>6. QED
    BY <2>4, <2>5
<1>2. PICK n \in 1..Size : r.hi = lo + n * s /\ w = {lo + k * s : k \in 0..n}
  BY Zenon DEF A!Stepped
<1>3. n \in Nat
  BY <1>2, SizeAssumption
<1> HIDE DEF lo, s
<1>4. ASSUME NEW k \in 0..n
      PROVE  lo + k * s \in lo..r.hi /\ (lo + k * s - lo) % s = 0
  <2>1. k * s \in Nat /\ n * s \in Nat /\ k * s <= n * s /\ (k * s) % s = 0
    BY <1>1, <1>3, <1>4, Multiples
  <2>2. lo + k * s - lo = k * s /\ lo <= lo + k * s /\ lo + k * s <= lo + n * s
    BY <1>1, <2>1
  <2>3. QED
    BY <1>1, <1>2, <2>1, <2>2
<1>5. ASSUME NEW m \in lo..r.hi, (m - lo) % s = 0
      PROVE  \E k \in 0..n : m = lo + k * s
  <2>1. m - lo \in Nat /\ m - lo <= n * s /\ n * s \in Nat
    BY <1>1, <1>2, <1>3, <1>5, Multiples
  <2>2. PICK k \in Nat : m - lo = k * s
    BY <1>1, <1>3, <1>5, <2>1, Multiples
  <2>3. k <= n
    BY <1>1, <1>3, <2>1, <2>2, Multiples
  <2>4. m = lo + k * s
    BY <1>1, <2>2, Multiples
  <2>5. QED
    BY <1>3, <2>3, <2>4
<1>6. A!Expand({r}) = {m \in lo..r.hi : (m - lo) % s = 0}
  BY DEF A!Expand, lo, s
<1>7. {m \in lo..r.hi : (m - lo) % s = 0} = {lo + k * s : k \in 0..n}
  <2>1. ASSUME NEW m \in {lo + k * s : k \in 0..n} PROVE m \in lo..r.hi /\ (m - lo) % s = 0
    <3>1. PICK k \in 0..n : m = lo + k * s
      OBVIOUS
    <3>2. lo + k * s \in lo..r.hi /\ (lo + k * s - lo) % s = 0
      BY <1>4, <3>1
    <3>3. QED
      BY <1>1, <3>1, <3>2
  <2>2. QED
    BY <1>5, <2>1
<1>8. QED
  BY <1>2, <1>6, <1>7

-----------------------------------------------------------------------------
(* The rows of a snapshot                                                   *)

\* The snapshot js has the live tasks and the plain job of st, each once.
SnapshotOf(js, st) ==
  /\ \A r \in js :
       IF A!IsArrayMember(r)
       THEN /\ r.array = A!Base /\ r.id \in Nat /\ r.id # A!SoloId /\ r.state \in A!Active
            /\ A!Members(r) # {} /\ \A u \in A!Members(r) : u \in A!Tasks /\ st[u] = r.state
       ELSE r.array = NoTarget /\ r.id = A!SoloId /\ st[Solo] \in A!Active
  /\ \A u \in A!Tasks : st[u] \in A!Active => \E r \in js : A!IsArrayMember(r) /\ u \in A!Members(r)
  /\ \A q, r \in js : \A u \in A!Tasks :
       A!IsArrayMember(q) /\ A!IsArrayMember(r) /\ u \in A!Members(q) /\ u \in A!Members(r) => q = r
  /\ st[Solo] \in A!Active => \E r \in js : ~A!IsArrayMember(r)

Fates == A!Active \cup {"over", "killed"}

ClusterOK ==
  /\ state \in [A!Jobs -> Fates] /\ ids \in [A!Jobs -> Nat]
  /\ ids[Solo] = A!SoloId /\ \A u \in A!Tasks : ids[u] # A!SoloId

\* The records of the tasks that run, of those that wait, and of the plain job,
\* as active_jobs returns them.
OfTask(u) == [id |-> ids[u], state |-> state[u], array |-> A!Base, task |-> u, range |-> {}]
OfWaiting(spec) == [id |-> A!Base, state |-> "pending", array |-> A!Base, task |-> NoTarget, range |-> spec]
OfSolo == [id |-> ids[Solo], state |-> state[Solo], array |-> NoTarget, task |-> NoTarget, range |-> {}]

\* The ways the controller writes the waiting tasks name exactly them.
LEMMA SpecsExact ==
  ASSUME NEW spec, spec \in IF A!Waiting = {} THEN {{}} ELSE A!Specs(A!Waiting)
  PROVE  A!Expand(spec) = A!Waiting /\ (spec = {} <=> A!Waiting = {})
<1>1. A!Expand({}) = {}
  BY DEF A!Expand
<1>2. A!Waiting \in SUBSET A!Tasks
  BY DEF A!Waiting
<1>3. CASE A!Waiting = {}
  BY <1>1, <1>3
<1>4. CASE A!Waiting # {}
  <2>1. CASE spec = A!Runs(A!Waiting)
    BY <1>1, <1>2, <1>4, <2>1, ExpandRuns
  <2>2. CASE \E r \in A!Stepped(A!Waiting) : spec = {r}
    BY <1>2, <1>4, <2>2, ExpandStepped
  <2>3. QED
    BY <1>4, <2>1, <2>2 DEF A!Specs
<1>5. QED
  BY <1>3, <1>4

\* What active_jobs makes of a record.
LEMMA ActiveJob ==
  ASSUME ClusterOK, NEW spec
  PROVE  /\ \A r : r \in A!ActiveJobs(A!Records(spec)) <=>
                \/ \E u \in A!Tasks : state[u] = "running" /\ r = OfTask(u)
                \/ spec # {} /\ r = OfWaiting(spec)
                \/ state[Solo] \in A!Active /\ r = OfSolo
<1> DEFINE Seen(r) == [id |-> r.id, state |-> r.state, array |-> r.array,
                       task |-> A!ArrayFields(r).task, range |-> A!ArrayFields(r).range]
<1>1. A!ActiveJobs(A!Records(spec)) = {Seen(r) : r \in {q \in A!Records(spec) : q.state \in A!Active}}
  BY DEF A!ActiveJobs
<1>2. ASSUME NEW u \in A!Tasks PROVE Seen(A!Record(u)) = OfTask(u) /\ A!Record(u).state = state[u]
  <2>1. u # Solo /\ u # NoTarget /\ A!Base # NoTarget
    BY SizeAssumption DEF A!Tasks, A!Base
  <2>2. A!Record(u) = [id |-> ids[u], state |-> state[u], array |-> A!Base,
                       task |-> IF u = 0 THEN NoTarget ELSE u, waiting |-> {}]
    BY <2>1 DEF A!Record
  <2>3. A!ArrayFields(A!Record(u)) = [task |-> u, range |-> {}]
    BY <2>1, <2>2 DEF A!ArrayFields
  <2>4. QED
    BY <2>2, <2>3 DEF OfTask
<1>3. Seen(A!Record(Solo)) = OfSolo /\ A!Record(Solo).state = state[Solo]
  BY DEF A!Record, OfSolo, A!ArrayFields
<1>4. spec # {} => Seen(A!WaitingRecord(spec)) = OfWaiting(spec) /\ A!WaitingRecord(spec).state = "pending"
  <2>1. A!Base # NoTarget
    BY SizeAssumption DEF A!Base
  <2>2. QED
    BY <2>1 DEF A!WaitingRecord, OfWaiting, A!ArrayFields
<1> HIDE DEF Seen
<1>5. \A u \in A!Tasks : state[u] \in A!Active /\ u \notin A!Waiting <=> state[u] = "running"
  BY DEF A!Waiting, A!Active
<1>6. Solo \notin A!Tasks /\ Solo \notin A!Waiting /\ A!Jobs = A!Tasks \cup {Solo} /\ "pending" \in A!Active
  BY SizeAssumption DEF A!Tasks, A!Waiting, A!Jobs, A!Active
<1>7. A!Records(spec) = {A!Record(j) : j \in A!Jobs \ A!Waiting}
                          \cup (IF spec = {} THEN {} ELSE {A!WaitingRecord(spec)})
  BY DEF A!Records
<1>8. ASSUME NEW r, r \in A!ActiveJobs(A!Records(spec))
      PROVE  \/ \E u \in A!Tasks : state[u] = "running" /\ r = OfTask(u)
             \/ spec # {} /\ r = OfWaiting(spec)
             \/ state[Solo] \in A!Active /\ r = OfSolo
  <2>1. PICK q \in A!Records(spec) : q.state \in A!Active /\ r = Seen(q)
    BY <1>1, <1>8
  <2>2. CASE spec # {} /\ q = A!WaitingRecord(spec)
    BY <1>4, <2>1, <2>2
  <2>3. CASE \E j \in A!Jobs \ A!Waiting : q = A!Record(j)
    BY <1>2, <1>3, <1>5, <1>6, <2>1, <2>3
  <2>4. QED
    BY <1>7, <2>1, <2>2, <2>3
<1>9. ASSUME NEW u \in A!Tasks, state[u] = "running" PROVE OfTask(u) \in A!ActiveJobs(A!Records(spec))
  BY <1>1, <1>2, <1>5, <1>6, <1>7, <1>9
<1>10. spec # {} => OfWaiting(spec) \in A!ActiveJobs(A!Records(spec))
  BY <1>1, <1>4, <1>6, <1>7
<1>11. state[Solo] \in A!Active => OfSolo \in A!ActiveJobs(A!Records(spec))
  BY <1>1, <1>3, <1>6, <1>7
<1>12. QED
  BY <1>8, <1>9, <1>10, <1>11

\* A refresh has each live job once (normalize.py:287-301).
LEMMA RefreshIsExact ==
  ASSUME ClusterOK, NEW spec, spec \in IF A!Waiting = {} THEN {{}} ELSE A!Specs(A!Waiting)
  PROVE  SnapshotOf(A!ActiveJobs(A!Records(spec)), state)
<1> DEFINE js == A!ActiveJobs(A!Records(spec))
<1>1. A!Expand(spec) = A!Waiting /\ (spec = {} <=> A!Waiting = {})
  BY SpecsExact
<1>2. \A r : r \in js <=> \/ \E u \in A!Tasks : state[u] = "running" /\ r = OfTask(u)
                          \/ spec # {} /\ r = OfWaiting(spec)
                          \/ state[Solo] \in A!Active /\ r = OfSolo
  BY ActiveJob
<1> HIDE DEF js
<1>3. ASSUME NEW u \in A!Tasks
      PROVE  /\ A!IsArrayMember(OfTask(u)) /\ A!Members(OfTask(u)) = {u}
             /\ OfTask(u).array = A!Base /\ OfTask(u).id = ids[u] /\ OfTask(u).state = state[u]
  BY SizeAssumption DEF OfTask, A!IsArrayMember, A!Members, A!Tasks, A!Base
<1>4. spec # {} =>
        /\ A!IsArrayMember(OfWaiting(spec)) /\ A!Members(OfWaiting(spec)) = A!Waiting
        /\ OfWaiting(spec).array = A!Base /\ OfWaiting(spec).id = A!Base /\ OfWaiting(spec).state = "pending"
  BY <1>1, SizeAssumption DEF OfWaiting, A!IsArrayMember, A!Members, A!Base
<1>5. ~A!IsArrayMember(OfSolo) /\ OfSolo.array = NoTarget /\ OfSolo.id = A!SoloId
  BY DEF OfSolo, A!IsArrayMember, ClusterOK
<1>6. /\ \A u \in A!Tasks : ids[u] \in Nat /\ ids[u] # A!SoloId /\ state[u] \in Fates
      /\ A!Waiting = {u \in A!Tasks : state[u] = "pending"}
  BY DEF ClusterOK, A!Jobs, A!Waiting
<1>7. A!Base \in Nat /\ A!Base # A!SoloId /\ A!Active = {"pending", "running"}
  BY DEF A!Base, A!SoloId, A!Active
<1>8. ASSUME NEW r \in js
      PROVE  IF A!IsArrayMember(r)
             THEN /\ r.array = A!Base /\ r.id \in Nat /\ r.id # A!SoloId /\ r.state \in A!Active
                  /\ A!Members(r) # {} /\ \A u \in A!Members(r) : u \in A!Tasks /\ state[u] = r.state
             ELSE r.array = NoTarget /\ r.id = A!SoloId /\ state[Solo] \in A!Active
  <2>1. CASE \E u \in A!Tasks : state[u] = "running" /\ r = OfTask(u)
    BY <1>3, <1>6, <1>7, <2>1
  <2>2. CASE spec # {} /\ r = OfWaiting(spec)
    BY <1>1, <1>4, <1>6, <1>7, <2>2
  <2>3. CASE state[Solo] \in A!Active /\ r = OfSolo
    BY <1>5, <2>3
  <2>4. QED
    BY <1>2, <2>1, <2>2, <2>3
<1>9. ASSUME NEW u \in A!Tasks, state[u] \in A!Active
      PROVE  \E r \in js : A!IsArrayMember(r) /\ u \in A!Members(r)
  <2>1. CASE state[u] = "running"
    BY <1>2, <1>3, <2>1
  <2>2. CASE state[u] = "pending"
    BY <1>1, <1>2, <1>4, <1>6, <2>2
  <2>3. QED
    BY <1>7, <1>9, <2>1, <2>2
<1>10. ASSUME NEW q \in js, NEW r \in js, NEW u \in A!Tasks,
              A!IsArrayMember(q), A!IsArrayMember(r), u \in A!Members(q), u \in A!Members(r)
       PROVE  q = r
  <2>1. ASSUME NEW p \in js, A!IsArrayMember(p), u \in A!Members(p)
        PROVE  p = IF state[u] = "running" THEN OfTask(u) ELSE OfWaiting(spec)
    <3>1. CASE \E v \in A!Tasks : state[v] = "running" /\ p = OfTask(v)
      BY <1>3, <2>1, <3>1
    <3>2. CASE spec # {} /\ p = OfWaiting(spec)
      BY <1>4, <1>6, <2>1, <3>2
    <3>3. QED
      BY <1>2, <1>5, <2>1, <3>1, <3>2
  <2>2. QED
    BY <1>10, <2>1
<1>11. state[Solo] \in A!Active => \E r \in js : ~A!IsArrayMember(r)
  BY <1>2, <1>5
<1>12. QED
  BY <1>8, <1>9, <1>10, <1>11 DEF SnapshotOf, js

-----------------------------------------------------------------------------
(* Counting                                                                 *)

\* The instance counts as everyone does.
LEMMA OneCardinality == \A S : A!Cardinality(S) = Cardinality(S)
  BY DEF A!Cardinality, Cardinality

\* What corresponds one to one has as many elements.
LEMMA SameNumber ==
  ASSUME NEW D, IsFiniteSet(D), NEW E, NEW f \in [D -> E],
         \A c, d \in D : f[c] = f[d] => c = d, \A e \in E : \E d \in D : f[d] = e
  PROVE  IsFiniteSet(E) /\ Cardinality(E) = Cardinality(D)
<1>1. f \in Bijection(D, E)
  BY Zenon DEF Bijection, Injection, Surjection, IsInjective
<1>2. ExistsBijection(D, E)
  BY <1>1 DEF ExistsBijection
<1>3. QED
  BY <1>2, FS_Bijection

\* Sets of tasks can be counted.
LEMMA TasksFinite ==
  ASSUME NEW D \in SUBSET A!Tasks
  PROVE  IsFiniteSet(D) /\ Cardinality(D) \in Nat
<1>1. IsFiniteSet(A!Tasks)
  BY FS_Interval, SizeAssumption DEF A!Tasks
<1>2. QED
  BY <1>1, FS_Subset, FS_CardinalityType

\* The rows of an expanded array, and its histogram (arrays.py:160-212).
LEMMA RowsCounted ==
  ASSUME NEW js, NEW st \in [A!Jobs -> Fates \cup {"absent"}], SnapshotOf(js, st)
  PROVE  /\ {row[1].names : row \in A!TaskRows(js)} = A!Live(st) \cap A!Tasks
         /\ Cardinality(A!TaskRows(js)) = Cardinality(A!Live(st) \cap A!Tasks)
         /\ \A s \in A!Active : A!Counts(js)[s] = Cardinality({u \in A!Tasks : st[u] = s})
<1> DEFINE D == A!Live(st) \cap A!Tasks
           Of(u) == CHOOSE r \in js : A!IsArrayMember(r) /\ u \in A!Members(r)
<1>1. D = {u \in A!Tasks : st[u] \in A!Active}
  BY DEF A!Live, A!Jobs
<1>2. ASSUME NEW u \in D PROVE Of(u) \in js /\ A!IsArrayMember(Of(u)) /\ u \in A!Members(Of(u))
  BY <1>1 DEF SnapshotOf
<1>3. ASSUME NEW r \in js, A!IsArrayMember(r), NEW u \in A!Members(r)
      PROVE  u \in D /\ r = Of(u) /\ st[u] = r.state
  <2>1. u \in D /\ st[u] = r.state
    BY <1>1, <1>3 DEF SnapshotOf
  <2>2. QED
    BY <1>1, <1>2, <1>3, <2>1 DEF SnapshotOf
<1> HIDE DEF D, Of
<1> DEFINE Row(u) == <<A!TaskRow(Of(u), u), Of(u)>>
<1>4. ASSUME NEW u PROVE Row(u)[1].names = u
  BY DEF A!TaskRow
<1>5. ASSUME NEW w PROVE w \in A!TaskRows(js) <=> \E u \in D : w = Row(u)
  <2>1. w \in A!TaskRows(js) <=>
          \E r \in js : A!IsArrayMember(r) /\ \E u \in A!Members(r) : w = <<A!TaskRow(r, u), r>>
    BY DEF A!TaskRows
  <2>2. QED
    BY <1>2, <1>3, <2>1
<1>6. IsFiniteSet(D)
  BY <1>1, TasksFinite
<1> HIDE DEF Row
<1>7. {row[1].names : row \in A!TaskRows(js)} = D
  BY <1>4, <1>5
<1>8. Cardinality(A!TaskRows(js)) = Cardinality(D)
  <2> DEFINE f == [u \in D |-> Row(u)]
  <2>1. f \in [D -> A!TaskRows(js)] /\ \A u \in D : f[u] = Row(u)
    BY <1>5
  <2>2. \A c, d \in D : f[c] = f[d] => c = d
    BY <1>4, <2>1
  <2>3. \A e \in A!TaskRows(js) : \E d \in D : f[d] = e
    BY <1>5, <2>1
  <2> HIDE DEF f
  <2>4. QED
    BY <1>6, <2>1, <2>2, <2>3, SameNumber
<1>9. ASSUME NEW s \in A!Active
      PROVE  A!Counts(js)[s] = Cardinality({u \in A!Tasks : st[u] = s})
  <2> DEFINE C == {u \in A!Tasks : st[u] = s}
             N(x) == UNION {{<<r, u>> : u \in A!Members(r)} :
                             r \in {q \in js : A!IsArrayMember(q) /\ q.state = x}}
             M == N(s)
             f == [u \in C |-> <<Of(u), u>>]
  <2>1. C \subseteq D
    BY <1>1
  <2>2. ASSUME NEW w PROVE w \in M <=> \E u \in C : w = <<Of(u), u>>
    <3>1. w \in M <=> \E r \in js : /\ A!IsArrayMember(r) /\ r.state = s
                                  /\ \E u \in A!Members(r) : w = <<r, u>>
      OBVIOUS
    <3>2. \A u \in D : u \in C <=> Of(u).state = s
      BY <1>1, <1>2, <1>3
    <3>3. QED
      BY <1>2, <1>3, <2>1, <3>1, <3>2
  <2>3. A!Counts(js)[s] = Cardinality(M)
    <3>1. A!Counts(js) = [x \in A!Active |-> Cardinality(N(x))]
      BY OneCardinality DEF A!Counts
    <3> HIDE DEF N
    <3>2. QED
      BY <3>1
  <2>4. IsFiniteSet(C)
    BY TasksFinite
  <2>5. f \in [C -> M] /\ \A u \in C : f[u] = <<Of(u), u>>
    BY <2>2
  <2>6. \A c, d \in C : f[c] = f[d] => c = d
    BY <2>5
  <2>7. \A e \in M : \E d \in C : f[d] = e
    BY <2>2, <2>5
  <2> HIDE DEF f, M
  <2>8. Cardinality(M) = Cardinality(C)
    BY <2>4, <2>5, <2>6, <2>7, SameNumber
  <2>9. QED
    BY <2>3, <2>8
<1>10. QED
  BY <1>7, <1>8, <1>9 DEF D

\* The count of the parent row.
LEMMA ParentCounts ==
  ASSUME NEW js, NEW st \in [A!Jobs -> Fates \cup {"absent"}], SnapshotOf(js, st)
  PROVE  A!ArrayRow(js).count = Cardinality(A!Live(st) \cap A!Tasks)
<1> DEFINE C(s) == {u \in A!Tasks : st[u] = s}
<1>1. A!Live(st) \cap A!Tasks = C("pending") \cup C("running")
  BY DEF A!Live, A!Jobs, A!Active
<1>2. A!ArrayRow(js).count = Cardinality(C("pending")) + Cardinality(C("running"))
  BY RowsCounted DEF A!ArrayRow, A!Active
<1>3. /\ IsFiniteSet(C("pending")) /\ Cardinality(C("pending")) \in Nat
      /\ IsFiniteSet(C("running")) /\ Cardinality(C("running")) \in Nat
  BY TasksFinite
<1>4. C("pending") \cap C("running") = {}
  OBVIOUS
<1> HIDE DEF C
<1>5. Cardinality(C("pending") \cap C("running")) = 0
  BY <1>4, FS_EmptySet
<1>6. Cardinality(C("pending") \cup C("running"))
        = Cardinality(C("pending")) + Cardinality(C("running")) - Cardinality(C("pending") \cap C("running"))
  BY <1>3, FS_Union
<1>7. Cardinality(C("pending") \cup C("running"))
        = Cardinality(C("pending")) + Cardinality(C("running"))
  BY <1>3, <1>5, <1>6
<1>8. QED
  BY <1>1, <1>2, <1>7

-----------------------------------------------------------------------------
(* The invariant                                                            *)

LiveTasks(st) == A!Live(st) \cap A!Tasks

\* What a target addresses, and what its row stood for.  The row of the array
\* stands for every task that was live when it was shown, and tasks only end.
Stands(target) ==
  \/ target.task \in A!Tasks /\ target.id = A!Base /\ target.count = 1 /\ meant = {target.task}
  \/ target.task = NoTarget /\ target.id = A!SoloId /\ target.count = 1 /\ meant = {Solo}
  \/ /\ target.task = NoTarget /\ target.id = A!Base /\ target.count = Cardinality(meant)
     /\ meant \subseteq A!Tasks /\ LiveTasks(state) \subseteq meant /\ LiveTasks(shown) \subseteq meant

Targets == [id : Nat, task : A!Tasks \cup {NoTarget}, count : Nat]

ShownOK ==
  /\ shown \in [A!Jobs -> Fates \cup {"absent"}] /\ SnapshotOf(snapshot, shown)
  /\ snapshot # {} => LiveTasks(state) \subseteq LiveTasks(shown)

Addressing ==
  /\ dialog \in Targets \cup {NoTarget} /\ cancel \in Targets \cup {NoTarget}
  /\ dialog = NoTarget \/ cancel = NoTarget
  /\ dialog # NoTarget => Stands(dialog)
  /\ cancel # NoTarget => Stands(cancel)

RowsInv == ClusterOK /\ ShownOK /\ Addressing

\* The live tasks of a snapshot or of the controller.
LEMMA LiveTask ==
  ASSUME NEW st \in [A!Jobs -> Fates \cup {"absent"}]
  PROVE  LiveTasks(st) = {u \in A!Tasks : st[u] \in A!Active} /\ (Solo \in A!Live(st) <=> st[Solo] \in A!Active)
  BY DEF LiveTasks, A!Live, A!Jobs

\* Nothing becomes live again.
LEMMA EndsKeep ==
  ASSUME RowsInv, ClusterOK', \A j \in A!Jobs : state'[j] \in A!Active => state[j] \in A!Active,
         UNCHANGED <<snapshot, shown, dialog, meant>>, cancel' \in {cancel, NoTarget}
  PROVE  RowsInv'
<1>1. /\ state \in [A!Jobs -> Fates \cup {"absent"}] /\ state' \in [A!Jobs -> Fates \cup {"absent"}]
      /\ A!Tasks \subseteq A!Jobs
  BY DEF RowsInv, ClusterOK, A!Jobs
<1>2. LiveTasks(state') \subseteq LiveTasks(state)
  BY <1>1, LiveTask
<1>3. ShownOK'
  BY <1>2 DEF RowsInv, ShownOK
<1>4. \A target : Stands(target) => Stands(target)'
  BY <1>2 DEF Stands
<1>5. Addressing'
  BY <1>4 DEF RowsInv, Addressing
<1>6. QED
  BY <1>3, <1>5 DEF RowsInv

\* A task that leaves the waiting record gets an id of its own.
LEMMA IdsKept ==
  ASSUME ClusterOK, NEW u \in A!Tasks, ids' \in {ids, A!Leaves(u)}, state' \in [A!Jobs -> Fates]
  PROVE  ClusterOK'
<1>1. A!OwnId(u) \in Nat /\ A!OwnId(u) # A!SoloId /\ u \in A!Jobs /\ u # Solo
  BY SizeAssumption DEF A!OwnId, A!SoloId, A!Base, A!Tasks, A!Jobs
<1>2. ids' \in {ids, [ids EXCEPT ![u] = A!OwnId(u)]}
  BY DEF A!Leaves
<1>3. QED
  BY <1>1, <1>2 DEF ClusterOK, A!Jobs

\* What Slurm does.
LEMMA ClusterKeeps ==
  ASSUME RowsInv, NEW j \in A!Jobs, A!Start(j) \/ A!End(j)
  PROVE  RowsInv'
<1>1. /\ state \in [A!Jobs -> Fates] /\ state[j] \in A!Active /\ UNCHANGED <<snapshot, shown, dialog, cancel, meant>>
      /\ state' \in {[state EXCEPT ![j] = "running"], [state EXCEPT ![j] = "over"]}
      /\ ids' = ids \/ (j # Solo /\ ids' = A!Leaves(j))
  <2>1. state \in [A!Jobs -> Fates]
    BY DEF RowsInv, ClusterOK
  <2>2. CASE A!Start(j)
    BY <2>1, <2>2 DEF A!Start, A!screen, A!Active
  <2>3. CASE A!End(j)
    BY <2>1, <2>3 DEF A!End, A!screen, A!Active
  <2>4. QED
    BY <2>2, <2>3
<1>2. state' \in [A!Jobs -> Fates] /\ \A i \in A!Jobs : state'[i] \in A!Active => state[i] \in A!Active
  BY <1>1 DEF Fates, A!Active
<1>3. ClusterOK'
  <2>1. CASE ids' = ids
    BY <1>2, <2>1 DEF RowsInv, ClusterOK
  <2>2. CASE j # Solo /\ ids' = A!Leaves(j)
    <3>1. j \in A!Tasks
      BY <2>2 DEF A!Jobs
    <3>2. QED
      BY <1>2, <2>2, <3>1, IdsKept DEF RowsInv
  <2>3. QED
    BY <1>1, <2>1, <2>2
<1>4. QED
  BY <1>1, <1>2, <1>3, EndsKeep

\* A refresh (tui/app.py:248-284).
LEMMA RefreshKeeps ==
  ASSUME RowsInv, A!RefreshActive
  PROVE  RowsInv'
<1>1. PICK spec \in IF A!Waiting = {} THEN {{}} ELSE A!Specs(A!Waiting) :
        /\ snapshot' = A!ActiveJobs(A!Records(spec)) /\ shown' = state
        /\ UNCHANGED <<state, ids, dialog, cancel, meant>>
  BY DEF A!RefreshActive, A!cluster
<1>2. SnapshotOf(snapshot', state)
  BY <1>1, RefreshIsExact DEF RowsInv
<1>3. ClusterOK'
  BY <1>1 DEF RowsInv, ClusterOK
<1>4. ShownOK'
  BY <1>1, <1>2 DEF RowsInv, ClusterOK, ShownOK
<1>5. \A target : Stands(target) => Stands(target)'
  BY <1>1 DEF Stands
<1>6. Addressing'
  BY <1>1, <1>5 DEF RowsInv, Addressing
<1>7. QED
  BY <1>3, <1>4, <1>6 DEF RowsInv

\* The rows of the table, by what they stand for.
LEMMA RowsStand ==
  ASSUME RowsInv, NEW row \in A!Rows(snapshot)
  PROVE  /\ snapshot # {} /\ row.count \in Nat
         /\ \/ row.kind = "plain" /\ row.id = A!SoloId /\ row.task = NoTarget /\ row.count = 1 /\ row.names = Solo
            \/ /\ row.kind = "array" /\ row.id = A!Base /\ row.task = NoTarget
               /\ row.count = Cardinality(LiveTasks(shown))
            \/ row.kind = "task" /\ row.id = A!Base /\ row.task \in A!Tasks /\ row.count = 1 /\ row.names = row.task
<1>1. CASE \E r \in snapshot : ~A!IsArrayMember(r) /\ row = A!PlainRow(r)
  BY <1>1 DEF RowsInv, ShownOK, SnapshotOf, A!PlainRow
<1>2. CASE row = A!ArrayRow(snapshot) /\ \E r \in snapshot : A!IsArrayMember(r)
  <2>1. row.count = Cardinality(LiveTasks(shown)) /\ row.count \in Nat
    BY <1>2, ParentCounts, TasksFinite DEF RowsInv, ShownOK, LiveTasks
  <2>2. QED
    BY <1>2, <2>1 DEF A!ArrayRow
<1>3. CASE \E r \in snapshot : A!IsArrayMember(r) /\ \E u \in A!Members(r) : row = A!TaskRow(r, u)
  BY <1>3 DEF RowsInv, ShownOK, SnapshotOf, A!TaskRow
<1>4. QED
  <2>1. \A pair \in A!TaskRows(snapshot) :
          \E r \in snapshot : A!IsArrayMember(r) /\ \E u \in A!Members(r) : pair[1] = A!TaskRow(r, u)
    BY DEF A!TaskRows
  <2>2. QED
    BY <1>1, <1>2, <1>3, <2>1 DEF A!Rows

\* action_cancel_job (tui/app.py:457-470).
LEMMA AskKeeps ==
  ASSUME RowsInv, NEW row \in A!Rows(snapshot), A!AskToCancel(row)
  PROVE  RowsInv'
<1>1. /\ dialog' = [id |-> row.id, task |-> row.task, count |-> row.count] /\ cancel = NoTarget
      /\ meant' = IF row.kind = "array" THEN {u \in A!Tasks : shown[u] \in A!Active} ELSE {row.names}
      /\ UNCHANGED <<state, ids, snapshot, shown, cancel>>
  BY DEF A!AskToCancel, A!cluster, A!screen
<1>2. ClusterOK' /\ ShownOK'
  BY <1>1 DEF RowsInv, ClusterOK, ShownOK
<1>3. {u \in A!Tasks : shown[u] \in A!Active} = LiveTasks(shown) /\ LiveTasks(state) \subseteq LiveTasks(shown)
  BY RowsStand, LiveTask DEF RowsInv, ShownOK
<1>4. Stands(dialog)' /\ dialog' \in Targets
  <2>1. CASE row.kind = "plain"
    BY <1>1, <2>1, RowsStand DEF Stands, Targets, A!SoloId
  <2>2. CASE row.kind = "array"
    <3>1. meant' = LiveTasks(shown) /\ LiveTasks(shown) \subseteq A!Tasks
      BY <1>1, <1>3, <2>2 DEF LiveTasks
    <3>2. /\ row.id = A!Base /\ row.task = NoTarget /\ row.count \in Nat
          /\ row.count = Cardinality(LiveTasks(shown))
      BY <2>2, RowsStand
    <3>3. LiveTasks(state)' = LiveTasks(state) /\ LiveTasks(shown)' = LiveTasks(shown)
      BY <1>1 DEF LiveTasks, A!Live
    <3>4. Stands(dialog)'
      BY <1>1, <1>3, <3>1, <3>2, <3>3 DEF Stands
    <3>5. dialog' \in Targets
      BY <1>1, <3>2 DEF Targets, A!Base
    <3>6. QED
      BY <3>4, <3>5
  <2>3. CASE row.kind = "task"
    BY <1>1, <2>3, RowsStand DEF Stands, Targets, A!Base
  <2>4. row.kind = "plain" \/ row.kind = "array" \/ row.kind = "task"
    BY RowsStand
  <2>5. QED
    BY <2>1, <2>2, <2>3, <2>4
<1>5. Addressing'
  BY <1>1, <1>4 DEF Addressing
<1>6. QED
  BY <1>2, <1>5 DEF RowsInv

\* The answer to the dialog (tui/app.py:472-500).
LEMMA CloseKeeps ==
  ASSUME RowsInv, NEW confirmed \in BOOLEAN, A!CloseDialog(confirmed)
  PROVE  RowsInv'
<1>1. /\ dialog # NoTarget /\ dialog' = NoTarget /\ cancel' \in {dialog, NoTarget}
      /\ UNCHANGED <<state, ids, snapshot, shown, meant>>
  BY DEF A!CloseDialog, A!cluster
<1>2. ClusterOK' /\ ShownOK'
  BY <1>1 DEF RowsInv, ClusterOK, ShownOK
<1>3. \A target : Stands(target) => Stands(target)'
  BY <1>1 DEF Stands
<1>4. Addressing'
  BY <1>1, <1>3 DEF RowsInv, Addressing
<1>5. QED
  BY <1>2, <1>4 DEF RowsInv

\* What a kill RPC addresses is what the row stood for, or over.
LEMMA AddressesMeant ==
  ASSUME RowsInv, cancel # NoTarget
  PROVE  A!Addressed(cancel) \cap A!Live(state) \subseteq meant
<1>1. Stands(cancel) /\ NoTarget \notin A!Tasks /\ A!Base # A!SoloId
  BY SizeAssumption DEF RowsInv, Addressing, A!Tasks, A!Base, A!SoloId
<1>2. CASE cancel.task \in A!Tasks
  BY <1>1, <1>2 DEF Stands, A!Addressed
<1>3. CASE cancel.task = NoTarget /\ cancel.id = A!SoloId
  BY <1>1, <1>3 DEF Stands, A!Addressed, RowsInv, ClusterOK, A!Jobs
<1>4. CASE cancel.task = NoTarget /\ cancel.id = A!Base
  BY <1>1, <1>4 DEF Stands, A!Addressed, LiveTasks
<1>5. QED
  BY <1>1, <1>2, <1>3, <1>4 DEF Stands

\* The cancellation that was confirmed (queries.py:425-446).
LEMMA KillKeeps ==
  ASSUME RowsInv, A!Kill
  PROVE  RowsInv'
<1>1. cancel' = NoTarget /\ UNCHANGED <<snapshot, shown, dialog, meant>>
  BY DEF A!Kill, A!screen
<1>2. CASE UNCHANGED (A!cluster)
  BY <1>1, <1>2, EndsKeep DEF A!cluster, RowsInv, ClusterOK
<1>3. CASE ~UNCHANGED (A!cluster)
  <2> DEFINE victims == A!Addressed(cancel) \cap A!Live(state)
  <2>1. /\ state' = [j \in A!Jobs |-> IF j \in victims THEN "killed" ELSE state[j]]
        /\ ids' = ids \/ (cancel.task \in A!Tasks /\ ids' = A!Leaves(cancel.task))
    BY <1>3 DEF A!Kill, A!Waiting
  <2> HIDE DEF victims
  <2>2. state' \in [A!Jobs -> Fates] /\ \A i \in A!Jobs : state'[i] \in A!Active => state[i] \in A!Active
    BY <2>1 DEF RowsInv, ClusterOK, Fates, A!Active
  <2>3. ClusterOK'
    <3>1. CASE ids' = ids
      BY <2>2, <3>1 DEF RowsInv, ClusterOK
    <3>2. CASE cancel.task \in A!Tasks /\ ids' = A!Leaves(cancel.task)
      BY <2>2, <3>2, IdsKept DEF RowsInv
    <3>3. QED
      BY <2>1, <3>1, <3>2
  <2>4. QED
    BY <1>1, <2>2, <2>3, EndsKeep
<1>4. QED
  BY <1>2, <1>3

\* Before the first refresh.
LEMMA RowsStart ==
  ASSUME A!Init
  PROVE  RowsInv
<1>1. A!Jobs = A!Tasks \cup {Solo} /\ Solo \notin A!Tasks /\ "pending" \in Fates /\ "absent" \notin A!Active
  BY SizeAssumption DEF A!Jobs, A!Tasks, Fates, A!Active
<1>2. ClusterOK
  BY <1>1 DEF A!Init, ClusterOK, A!SoloId, A!Base
<1>3. ShownOK
  BY <1>1 DEF A!Init, ShownOK, SnapshotOf
<1>4. Addressing
  BY DEF A!Init, Addressing
<1>5. QED
  BY <1>2, <1>3, <1>4 DEF RowsInv

\* Every step of the controller, of the application and of the user.
LEMMA RowsStep ==
  ASSUME RowsInv, [A!Next]_(A!vars)
  PROVE  RowsInv'
<1>1. CASE UNCHANGED (A!vars) \/ A!HistoryReturns \/ A!ToggleExpand
  <2>1. UNCHANGED <<state, ids, snapshot, shown, dialog, cancel, meant>>
    BY <1>1 DEF A!vars, A!cluster, A!screen, A!HistoryReturns, A!ToggleExpand
  <2>2. QED
    BY <2>1 DEF RowsInv, ClusterOK, ShownOK, Addressing, Stands
<1>2. CASE \E j \in A!Jobs : A!Start(j) \/ A!End(j)
  BY <1>2, ClusterKeeps
<1>3. CASE A!RefreshActive
  BY <1>3, RefreshKeeps
<1>4. CASE \E row \in A!Rows(snapshot) : A!AskToCancel(row)
  BY <1>4, AskKeeps
<1>5. CASE \E confirmed \in BOOLEAN : A!CloseDialog(confirmed)
  BY <1>5, CloseKeeps
<1>6. CASE A!Kill
  BY <1>6, KillKeeps
<1>7. QED
  BY <1>1, <1>2, <1>3, <1>4, <1>5, <1>6 DEF A!Next

\* The invariant holds of every array.
LEMMA RowsHold == RowsSpec => []RowsInv
<1>1. A!Init => RowsInv
  BY RowsStart
<1>2. RowsInv /\ [A!Next]_(A!vars) => RowsInv'
  BY RowsStep
<1>3. QED
  BY <1>1, <1>2, PTL DEF RowsSpec, A!Spec

\* Every live task has one row, and the histogram adds up (arrays.py:160-212):
\* see ArrayRows.
THEOREM RowsAreExact == RowsSpec => []RowsExact
<1>1. RowsInv => RowsExact
  BY RowsCounted, OneCardinality DEF RowsInv, ShownOK, RowsExact, A!RowsExact
<1>2. QED
  BY <1>1, RowsHold, PTL

\* A target may be cancelled exactly if something it stands for is live in the
\* latest snapshot (arrays.py:222-233): see ArrayRows.
THEOREM DecisionIsExact == RowsSpec => []DecisionExact
<1>1. RowsInv => DecisionExact
  <2>1. SUFFICES ASSUME RowsInv, dialog # NoTarget
                 PROVE  A!TargetIsCancellable(snapshot, dialog) <=> A!Live(shown) \cap meant # {}
    BY DEF DecisionExact, A!DecisionExact
  <2>2. Stands(dialog) /\ SnapshotOf(snapshot, shown) /\ shown \in [A!Jobs -> Fates \cup {"absent"}]
    BY <2>1 DEF RowsInv, ShownOK, Addressing
  <2>3. LiveTasks(shown) = {u \in A!Tasks : shown[u] \in A!Active} /\ (Solo \in A!Live(shown) <=> shown[Solo] \in A!Active)
    BY <2>2, LiveTask
  <2>4. NoTarget \notin A!Tasks /\ A!Base # A!SoloId /\ NoTarget # A!Base /\ NoTarget # A!SoloId
    BY SizeAssumption DEF A!Tasks, A!Base, A!SoloId
  <2>5. CASE dialog.task \in A!Tasks
    <3>1. A!TargetIsCancellable(snapshot, dialog) <=> \E r \in snapshot : r.array = A!Base /\ dialog.task \in A!Members(r)
      BY <2>2, <2>4, <2>5 DEF A!TargetIsCancellable, Stands
    <3>2. meant = {dialog.task}
      BY <2>2, <2>4, <2>5 DEF Stands
    <3>3. A!TargetIsCancellable(snapshot, dialog) <=> dialog.task \in LiveTasks(shown)
      BY <2>2, <2>3, <2>4, <2>5, <3>1 DEF SnapshotOf
    <3>4. QED
      BY <2>5, <3>2, <3>3 DEF LiveTasks
  <2>6. CASE dialog.task = NoTarget /\ dialog.id = A!SoloId
    <3>1. A!TargetIsCancellable(snapshot, dialog) <=> \E r \in snapshot : A!SoloId \in {r.id, r.array}
      BY <2>6 DEF A!TargetIsCancellable
    <3>2. meant = {Solo}
      BY <2>2, <2>4, <2>6 DEF Stands
    <3>3. A!TargetIsCancellable(snapshot, dialog) <=> shown[Solo] \in A!Active
      BY <2>2, <2>4, <3>1 DEF SnapshotOf
    <3>4. QED
      BY <2>3, <3>2, <3>3
  <2>7. CASE dialog.task = NoTarget /\ dialog.id = A!Base
    <3>1. A!TargetIsCancellable(snapshot, dialog) <=> \E r \in snapshot : A!Base \in {r.id, r.array}
      BY <2>7 DEF A!TargetIsCancellable
    <3>2. meant \subseteq A!Tasks /\ LiveTasks(shown) \subseteq meant
      BY <2>2, <2>4, <2>7 DEF Stands
    <3>3. A!TargetIsCancellable(snapshot, dialog) <=> LiveTasks(shown) # {}
      BY <2>2, <2>3, <2>4, <3>1 DEF SnapshotOf
    <3>4. QED
      BY <3>2, <3>3 DEF LiveTasks
  <2>8. QED
    BY <2>2, <2>5, <2>6, <2>7 DEF Stands
<1>2. QED
  BY <1>1, RowsHold, PTL

\* Nothing is killed but what the confirmed row stood for, and no more tasks than
\* the dialog announced (tui/app.py:448-455, arrays.py:24): see ArrayRows.
THEOREM KillsOnlyConfirmed == RowsSpec => KillsWhatWasConfirmed
<1> DEFINE Allowed == /\ A!Victims \subseteq meant
                      /\ A!Victims # {} => A!Cardinality(A!Victims) <= cancel.count
<1>1. RowsInv /\ [A!Next]_(A!vars) => [Allowed]_(A!vars)
  <2>1. SUFFICES ASSUME RowsInv, A!Next PROVE Allowed
    OBVIOUS
  <2>2. CASE A!Kill
    <3>1. cancel # NoTarget
      BY <2>2 DEF A!Kill
    <3>2. A!Victims \subseteq A!Addressed(cancel) \cap A!Live(state)
      BY <2>2 DEF A!Kill, A!Victims, A!cluster
    <3>3. A!Victims \subseteq meant
      BY <2>1, <3>1, <3>2, AddressesMeant
    <3>4. Cardinality(A!Victims) <= cancel.count
      <4>1. Stands(cancel)
        BY <2>1, <3>1 DEF RowsInv, Addressing
      <4>2. IsFiniteSet(meant) /\ Cardinality(meant) = cancel.count
        <5>1. \A x : IsFiniteSet({x}) /\ Cardinality({x}) = 1
          BY FS_Singleton
        <5>2. meant \subseteq A!Tasks => IsFiniteSet(meant)
          BY TasksFinite
        <5>3. QED
          BY <4>1, <5>1, <5>2 DEF Stands
      <4>3. QED
        BY <3>3, <4>2, FS_Subset
    <3>5. QED
      BY <3>3, <3>4, OneCardinality
  <2>3. CASE ~A!Kill
    <3>1. A!Victims = {}
      <4>1. \/ \E j \in A!Jobs : state' \in {[state EXCEPT ![j] = "running"], [state EXCEPT ![j] = "over"]}
            \/ state' = state
        BY <2>1, <2>3 DEF A!Next, A!Start, A!End, A!RefreshActive, A!HistoryReturns, A!ToggleExpand,
             A!AskToCancel, A!CloseDialog, A!cluster
      <4>2. state \in [A!Jobs -> Fates]
        BY <2>1 DEF RowsInv, ClusterOK
      <4>3. QED
        BY <4>1, <4>2 DEF A!Victims
    <3>2. QED
      BY <3>1
  <2>4. QED
    BY <2>2, <2>3
<1>2. QED
  BY <1>1, RowsHold, PTL DEF RowsSpec, A!Spec, KillsWhatWasConfirmed, A!KillsWhatWasConfirmed
=============================================================================
