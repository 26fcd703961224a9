---------------------------- MODULE Client_proofs ----------------------------
(****************************************************************************)
(* What a screen shows of a run, who is sent to sign in, and what a list    *)
(* shows of the filters asked for, for any number of addresses, calls and   *)
(* gestures. The three scenes share no state, so that each invariant is     *)
(* kept by the steps of its own scene and by those of the two others, which *)
(* do not touch it.                                                         *)
(****************************************************************************)
EXTENDS Client, FiniteSetTheorems, SequenceTheorems, TLAPS

RunRecords == [of : SUBSET Urls, brought : Nat, at : {"asked", "open", "told", "closed"}]
Listed == {rows[i].item : i \in DOMAIN rows}

(* The runs are told apart by their place; one at most is read: the last,   *)
(* which is the one the screen can interrupt.                               *)
RunsTyped ==
    /\ runs \in Seq(RunRecords)
    /\ current \in {0, Len(runs)}
    /\ typed \in SUBSET Urls /\ entries \in SUBSET Urls /\ picked \in SUBSET Urls
    /\ rows \in Seq([run : Nat, item : Urls \union Criteria])
OneIsRead == \A k \in DOMAIN runs : Reading(k) => k = current

(* What is listed is what the last run has brought.                         *)
RowsAreLast ==
    /\ \A i \in DOMAIN rows : rows[i].run = Len(runs)
    /\ Len(rows) = IF runs = <<>> THEN 0 ELSE runs[Len(runs)].brought

(* The addresses of a batch are listed once, and the count is theirs.       *)
BatchFits ==
    live = "batch" =>
        /\ Len(rows) <= expected
        /\ runs # <<>> => Listed \subseteq runs[Len(runs)].of /\ Cardinality(Listed) = Len(rows)

(* A run that is done has said so; the report is that of the last one.      *)
DoneIsSaid ==
    phase = "done" =>
        /\ runs # <<>> /\ current = Len(runs)
        /\ runs[current].at \in {"told", "closed"}
        /\ live = "page" => report = current
ReportIsLast == report \in {0, Len(runs)}

LiveInv == RunsTyped /\ OneIsRead /\ RowsAreLast /\ BatchFits /\ DoneIsSaid /\ ReportIsLast
-----------------------------------------------------------------------------
(* Interrupting closes the run being read, and touches nothing else.        *)
LEMMA InterruptedRuns ==
    ASSUME RunsTyped, OneIsRead
    PROVE /\ Interrupted(runs) \in Seq(RunRecords)
          /\ DOMAIN Interrupted(runs) = DOMAIN runs
          /\ Len(Interrupted(runs)) = Len(runs)
          /\ Interrupted(runs) = <<>> <=> runs = <<>>
          /\ \A k \in DOMAIN runs :
                 /\ Interrupted(runs)[k].at \notin {"asked", "open", "told"}
                 /\ Interrupted(runs)[k].brought = runs[k].brought
                 /\ Interrupted(runs)[k].of = runs[k].of
                 /\ k = current => Interrupted(runs)[k].at = "closed"
<1>1. CASE current = 0 \/ runs = <<>>
    <2>1. Interrupted(runs) = runs
        BY <1>1 DEF Interrupted, RunsTyped
    <2>2. \A k \in DOMAIN runs : k # current /\ runs[k].at \notin {"asked", "open", "told"}
        BY <1>1 DEF RunsTyped, OneIsRead, Reading
    <2> QED BY <2>1, <2>2 DEF RunsTyped
<1>2. CASE current # 0 /\ runs # <<>>
    <2> DEFINE closed == [runs[current] EXCEPT !.at = "closed"]
    <2>0. current \in DOMAIN runs /\ runs[current] \in RunRecords
        BY <1>2 DEF RunsTyped
    <2>1. current \in DOMAIN runs /\ runs[current] \in RunRecords /\ closed \in RunRecords
        BY <2>0 DEF RunRecords
    <2>2. Interrupted(runs) = [runs EXCEPT ![current] = closed]
        BY <1>2 DEF Interrupted
    <2>3. /\ closed.at = "closed" /\ closed.of = runs[current].of
          /\ closed.brought = runs[current].brought
        BY <2>1 DEF RunRecords
    <2> HIDE DEF closed
    <2> QED BY <2>1, <2>2, <2>3 DEF RunsTyped, OneIsRead, Reading
<1> QED BY <1>1, <1>2

LEMMA LastRun ==
    ASSUME RunsTyped, runs # <<>>
    PROVE  /\ Len(runs) \in DOMAIN runs /\ Len(runs) \in Nat \ {0}
           /\ runs[Len(runs)] \in RunRecords
           /\ IsFiniteSet(runs[Len(runs)].of) /\ Cardinality(runs[Len(runs)].of) \in Nat
<1>1. Len(runs) \in DOMAIN runs /\ Len(runs) \in Nat \ {0} /\ runs[Len(runs)] \in RunRecords
    BY DEF RunsTyped
<1>2. runs[Len(runs)].of \subseteq Urls
    BY <1>1 DEF RunRecords
<1> QED BY <1>1, <1>2, LiveAssumption, FS_Subset, FS_CardinalityType

LEMMA LiveStarts == Init => LiveInv
<1> SUFFICES ASSUME Init PROVE LiveInv OBVIOUS
<1>0. /\ typed \in SUBSET Urls /\ rows = <<>> /\ report = 0 /\ expected = 0 /\ phase # "done"
      /\ entries = {} /\ picked = {}
      /\ \/ runs = <<>> /\ current = 0
         \/ runs = <<[of |-> typed, brought |-> 0, at |-> "asked"]>> /\ current = 1
    BY DEF Init, LiveInit
<1>1. Listed = {} /\ Cardinality({}) = 0 /\ Len(rows) = 0
      /\ rows \in Seq([run : Nat, item : Urls \union Criteria])
    BY <1>0, FS_EmptySet DEF Listed
<1>2. CASE runs = <<>> /\ current = 0
    BY <1>0, <1>1, <1>2 DEF LiveInv, RunsTyped, OneIsRead, RowsAreLast, BatchFits, DoneIsSaid,
       ReportIsLast
<1>3. CASE runs = <<[of |-> typed, brought |-> 0, at |-> "asked"]>> /\ current = 1
    <2> DEFINE first == [of |-> typed, brought |-> 0, at |-> "asked"]
    <2>1. first \in RunRecords /\ first.brought = 0
        BY <1>0 DEF RunRecords
    <2>2. runs = <<first>>
        BY <1>3
    <2> HIDE DEF first
    <2>3. /\ runs \in Seq(RunRecords) /\ DOMAIN runs = {1} /\ Len(runs) = 1 /\ runs[1] = first
          /\ runs # <<>>
        BY <2>1, <2>2
    <2>4. RunsTyped /\ OneIsRead
        BY <1>0, <1>1, <1>3, <2>3 DEF RunsTyped, OneIsRead
    <2>5. RowsAreLast /\ BatchFits
        BY <1>0, <1>1, <2>1, <2>3 DEF RowsAreLast, BatchFits
    <2> QED BY <1>0, <2>4, <2>5 DEF LiveInv, DoneIsSaid, ReportIsLast
<1> QED BY <1>0, <1>2, <1>3

(* A step that leaves the runs, their lines and their report alone.         *)
LEMMA LiveKept ==
    ASSUME LiveInv, UNCHANGED <<live, runs, current, rows, expected, report>>,
           typed' \in SUBSET Urls, entries' \in SUBSET Urls, picked' \in SUBSET Urls,
           phase' = "done" => phase = "done"
    PROVE LiveInv'
BY DEF LiveInv, RunsTyped, OneIsRead, RowsAreLast, BatchFits, DoneIsSaid, ReportIsLast, Listed,
       Reading

(* A step of the current run that brings nothing to list.                   *)
LEMMA RunMoves ==
    ASSUME LiveInv, NEW k \in DOMAIN runs, NEW at \in {"open", "told", "closed"},
           live \in {"page", "batch"}, Brings(k, at), rows' = rows,
           expected' \in {expected, Cardinality(RunItems(k))},
           report' \in {report, k},
           phase' = "done" =>
               \/ phase = "done" /\ at = "closed" /\ report' = report
               \/ at \in {"told", "closed"} /\ (live = "page" => report' = k)
    PROVE LiveInv'
<1> DEFINE moved == [runs[k] EXCEPT !.at = at]
<1>0. runs[k] \in RunRecords /\ runs # <<>>
    BY DEF LiveInv, RunsTyped
<1>1. /\ moved \in RunRecords /\ moved.at = at
      /\ moved.brought = runs[k].brought /\ moved.of = runs[k].of
    BY <1>0 DEF RunRecords
<1>2. k = current /\ k # 0 /\ k = Len(runs)
    BY DEF LiveInv, OneIsRead, Brings, RunsTyped
<1>3. runs' = [runs EXCEPT ![k] = moved] /\ current' = current /\ live' = live
      /\ UNCHANGED <<typed, entries, picked>>
    BY DEF Brings, sitemapVars
<1> HIDE DEF moved
<1>4. /\ runs' \in Seq(RunRecords) /\ DOMAIN runs' = DOMAIN runs /\ Len(runs') = Len(runs)
      /\ runs' # <<>> /\ runs'[k] = moved
      /\ \A j \in DOMAIN runs : j # k => runs'[j] = runs[j]
    BY <1>0, <1>1, <1>3 DEF LiveInv, RunsTyped
<1>5. RunsTyped'
    BY <1>3, <1>4 DEF LiveInv, RunsTyped
<1>6. OneIsRead'
    BY <1>2, <1>3, <1>4 DEF LiveInv, OneIsRead, Reading
<1>7. RowsAreLast'
    BY <1>0, <1>1, <1>2, <1>4 DEF LiveInv, RowsAreLast
<1>8. BatchFits'
    <2>1. CASE live = "batch"
        <3>1. /\ Listed \subseteq runs[k].of /\ Cardinality(Listed) = Len(rows)
              /\ Len(rows) <= expected
            BY <1>0, <1>2, <2>1 DEF LiveInv, BatchFits
        <3>2. IsFiniteSet(runs[k].of)
            BY <1>0, <1>2, LastRun DEF LiveInv
        <3>3. Cardinality(Listed) <= Cardinality(runs[k].of)
            BY <3>1, <3>2, FS_Subset
        <3>4. RunItems(k) = runs[k].of
            BY <2>1 DEF RunItems
        <3>5. Len(rows) <= expected'
            BY <3>1, <3>3, <3>4
        <3>6. Listed' = Listed
            BY DEF Listed
        <3> QED BY <1>1, <1>2, <1>4, <3>1, <3>5, <3>6 DEF BatchFits
    <2> QED BY <1>3, <2>1 DEF BatchFits
<1>9. DoneIsSaid' /\ ReportIsLast'
    BY <1>0, <1>1, <1>2, <1>3, <1>4 DEF LiveInv, DoneIsSaid, ReportIsLast
<1> QED BY <1>5, <1>6, <1>7, <1>8, <1>9 DEF LiveInv

(* A new run: what the former brought is no longer listed.                  *)
LEMMA StartKeeps == ASSUME LiveInv, Start PROVE LiveInv'
<1> DEFINE new == [of |-> typed, brought |-> 0, at |-> "asked"]
           old == Interrupted(runs)
<1>1. new \in RunRecords /\ new.brought = 0 /\ new.of = typed
    BY DEF LiveInv, RunsTyped, RunRecords
<1>2. /\ old \in Seq(RunRecords) /\ Len(old) = Len(runs) /\ DOMAIN old = DOMAIN runs
      /\ \A k \in DOMAIN runs : old[k].at \notin {"asked", "open", "told"}
    BY InterruptedRuns DEF LiveInv
<1>3. /\ runs' = Append(old, new) /\ current' = Len(runs') /\ phase' # "done"
      /\ rows' = <<>> /\ report' = 0 /\ expected' = 0 /\ UNCHANGED <<typed, entries, picked>>
    BY DEF Start, sitemapVars
<1> HIDE DEF new, old
<1>4. /\ runs' \in Seq(RunRecords) /\ Len(runs') = Len(old) + 1 /\ runs' # <<>>
      /\ DOMAIN runs' = 1..(Len(old) + 1)
      /\ runs'[Len(old) + 1] = new
      /\ \A k \in DOMAIN old : runs'[k] = old[k]
    BY <1>1, <1>2, <1>3
<1>5. RunsTyped'
    BY <1>3, <1>4 DEF LiveInv, RunsTyped
<1>6. OneIsRead'
    BY <1>2, <1>3, <1>4 DEF OneIsRead, Reading
<1>7. Listed' = {} /\ Len(rows') = 0 /\ Cardinality({}) = 0
    BY <1>3, FS_EmptySet DEF Listed
<1>8. RowsAreLast' /\ BatchFits'
    BY <1>1, <1>3, <1>4, <1>7 DEF RowsAreLast, BatchFits
<1> QED BY <1>3, <1>5, <1>6, <1>8 DEF LiveInv, DoneIsSaid, ReportIsLast

(* Interrupted by the user, who stays or goes.                              *)
LEMMA StopKeeps ==
    ASSUME LiveInv, runs' = Interrupted(runs), current' \in {0, current},
           live' \in {live, "gone"}, phase' = "done" => phase = "done" /\ current' = current,
           UNCHANGED <<rows, expected, report, typed, entries, picked>>
    PROVE  LiveInv'
<1>1. /\ runs' \in Seq(RunRecords) /\ DOMAIN runs' = DOMAIN runs /\ Len(runs') = Len(runs)
      /\ runs' = <<>> <=> runs = <<>>
      /\ \A k \in DOMAIN runs :
             /\ runs'[k].at \notin {"asked", "open", "told"}
             /\ runs'[k].brought = runs[k].brought
             /\ runs'[k].of = runs[k].of
             /\ k = current => runs'[k].at = "closed"
    BY InterruptedRuns DEF LiveInv
<1>2. runs # <<>> => Len(runs) \in DOMAIN runs
    BY LastRun DEF LiveInv
<1>3. RunsTyped' /\ OneIsRead'
    BY <1>1 DEF LiveInv, RunsTyped, OneIsRead, Reading
<1>4. RowsAreLast' /\ ReportIsLast'
    BY <1>1, <1>2 DEF LiveInv, RowsAreLast, ReportIsLast
<1>5. BatchFits'
    BY <1>1, <1>2 DEF LiveInv, BatchFits, Listed
<1>6. DoneIsSaid'
    BY <1>1, <1>2 DEF LiveInv, DoneIsSaid
<1> QED BY <1>3, <1>4, <1>5, <1>6 DEF LiveInv

(* The form of the batch is filled: nothing is left of a run.               *)
LEMMA SendKeeps == ASSUME LiveInv, SendToBatch PROVE LiveInv'
<1>1. /\ runs' = <<>> /\ current' = 0 /\ rows' = <<>> /\ report' = 0 /\ expected' = 0
      /\ phase' = "idle" /\ typed' = picked /\ UNCHANGED <<entries, picked>>
    BY DEF SendToBatch, Fresh, sitemapVars
<1> QED BY <1>1 DEF LiveInv, RunsTyped, OneIsRead, RowsAreLast, BatchFits, DoneIsSaid,
           ReportIsLast

(* One more line. That of a batch is an address not listed yet.             *)
LEMMA ProgressKeeps ==
    ASSUME LiveInv, NEW k \in DOMAIN runs, live \in {"page", "batch"}, Progress(k)
    PROVE LiveInv'
<1>1. PICK i \in RunItems(k) :
          /\ Times(k, i) < IF live = "batch" THEN 1 ELSE 2
          /\ rows' = Append(rows, [run |-> k, item |-> i])
          /\ runs' = [runs EXCEPT ![k].brought = @ + 1]
    BY DEF Progress
<1> DEFINE moved == [runs[k] EXCEPT !.brought = runs[k].brought + 1]
           line == [run |-> k, item |-> i]
<1>2. /\ k = current /\ k # 0 /\ k \in Nat /\ k = Len(runs) /\ runs # <<>>
      /\ runs[k].at = "open" /\ runs[k] \in RunRecords
    BY DEF LiveInv, OneIsRead, Reading, Progress, RunsTyped
<1>3. i \in Urls \union Criteria
    BY <1>2 DEF RunItems, RunRecords
<1>4. /\ moved \in RunRecords /\ moved.brought = runs[k].brought + 1
      /\ moved.of = runs[k].of /\ moved.at = "open"
    BY <1>2 DEF RunRecords
<1>5. /\ runs' = [runs EXCEPT ![k] = moved] /\ expected' = Cardinality(RunItems(k))
      /\ UNCHANGED <<live, phase, typed, entries, picked, report, current>>
    BY <1>1 DEF Progress, sitemapVars
<1>6. line \in [run : Nat, item : Urls \union Criteria] /\ line.run = k /\ line.item = i
    BY <1>2, <1>3
<1>7. /\ rows \in Seq([run : Nat, item : Urls \union Criteria])
      /\ \A j \in DOMAIN rows : rows[j].run = k
      /\ Len(rows) = runs[k].brought
    BY <1>2 DEF LiveInv, RowsAreLast, RunsTyped
<1>8. live = "batch" => i \notin Listed
    <2> SUFFICES ASSUME live = "batch" PROVE i \notin Listed
        OBVIOUS
    <2> DEFINE same == {j \in DOMAIN rows : rows[j].run = k /\ rows[j].item = i}
    <2>1. IsFiniteSet(same)
        <3>1. DOMAIN rows = 1..Len(rows) /\ Len(rows) \in Nat
            BY <1>7
        <3>2. IsFiniteSet(1..Len(rows))
            BY <3>1, FS_Interval
        <3>3. same \subseteq 1..Len(rows)
            BY <3>1
        <3> HIDE DEF same
        <3> QED BY <3>2, <3>3, FS_Subset
    <2>2. Cardinality(same) < 1
        BY <1>1 DEF Times
    <2>3. same = {}
        <3> HIDE DEF same
        <3> QED BY <2>1, <2>2, FS_EmptySet, FS_CardinalityType
    <2> QED BY <1>7, <2>3 DEF Listed
<1> HIDE DEF moved, line
<1>9. /\ runs' \in Seq(RunRecords) /\ DOMAIN runs' = DOMAIN runs /\ Len(runs') = Len(runs)
      /\ runs' # <<>> /\ runs'[k] = moved
      /\ \A j \in DOMAIN runs : j # k => runs'[j] = runs[j]
    BY <1>2, <1>4, <1>5 DEF LiveInv, RunsTyped
<1>10. rows' = Append(rows, line)
    BY <1>1 DEF line
<1>11. /\ rows' \in Seq([run : Nat, item : Urls \union Criteria])
       /\ Len(rows') = Len(rows) + 1
       /\ DOMAIN rows' = DOMAIN rows \union {Len(rows) + 1}
       /\ rows'[Len(rows) + 1] = line /\ \A j \in DOMAIN rows : rows'[j] = rows[j]
    BY <1>6, <1>7, <1>10
<1>12. Listed' = Listed \union {i}
    BY <1>6, <1>7, <1>11 DEF Listed
<1>13. RunsTyped'
    BY <1>5, <1>9, <1>11 DEF LiveInv, RunsTyped
<1>14. OneIsRead'
    BY <1>2, <1>5, <1>9 DEF LiveInv, OneIsRead, Reading
<1>15. RowsAreLast'
    BY <1>2, <1>4, <1>6, <1>7, <1>9, <1>11 DEF RowsAreLast
<1>16. BatchFits'
    <2> SUFFICES ASSUME live = "batch"
                 PROVE  /\ Len(rows') <= expected'
                        /\ Listed' \subseteq moved.of /\ Cardinality(Listed') = Len(rows')
        BY <1>2, <1>5, <1>9 DEF BatchFits
    <2>1. /\ RunItems(k) = runs[k].of /\ Listed \subseteq runs[k].of
          /\ Cardinality(Listed) = Len(rows)
        BY <1>2 DEF RunItems, LiveInv, BatchFits
    <2>2. IsFiniteSet(runs[k].of)
        BY <1>2, LastRun DEF LiveInv
    <2>3. IsFiniteSet(Listed)
        BY <2>1, <2>2, FS_Subset
    <2>4. Cardinality(Listed') = Cardinality(Listed) + 1
        <3>1. i \notin Listed
            BY <1>8
        <3>2. Cardinality(Listed \union {i}) = Cardinality(Listed) + 1
            BY <2>3, <3>1, FS_AddElement
        <3> QED BY <1>12, <3>2
    <2>5. Listed' \subseteq runs[k].of
        BY <1>12, <2>1
    <2>6. Cardinality(Listed') <= Cardinality(runs[k].of)
        BY <2>2, <2>5, FS_Subset
    <2> QED BY <1>4, <1>5, <1>7, <1>11, <2>1, <2>4, <2>5, <2>6
<1>17. phase # "done"
    BY <1>2 DEF LiveInv, DoneIsSaid
<1>18. DoneIsSaid' /\ ReportIsLast'
    BY <1>5, <1>9, <1>17 DEF LiveInv, DoneIsSaid, ReportIsLast
<1> QED BY <1>13, <1>14, <1>15, <1>16, <1>18 DEF LiveInv

LEMMA RunGoesOnKeeps == ASSUME LiveInv, NEW k \in DOMAIN runs, RunGoesOn(k) PROVE LiveInv'
<1>0. live \in {"page", "batch"}
    BY DEF RunGoesOn
<1>c. Reading(k) => k = current
    BY DEF LiveInv, OneIsRead
<1>1. CASE Opened(k)
    <2>1. /\ Brings(k, "open") /\ UNCHANGED <<phase, rows, report>> /\ runs[k].at = "asked"
          /\ expected' \in {expected, Cardinality(RunItems(k))}
        BY <1>1 DEF Opened
    <2>2. phase' # "done"
        BY <2>1, <1>c DEF LiveInv, DoneIsSaid, Reading
    <2> QED BY <2>1, <2>2, <1>0, RunMoves
<1>2. CASE Progress(k)
    BY <1>0, <1>2, ProgressKeeps
<1>3. CASE Complete(k)
    <2>1. /\ Brings(k, "told") /\ rows' = rows
          /\ expected' \in {expected, Cardinality(RunItems(k))}
          /\ report' \in {report, k} /\ (live = "page" => report' = k)
        BY <1>3 DEF Complete
    <2> QED BY <2>1, <1>0, RunMoves
<1>4. CASE TellsFailure(k)
    <2>1. Brings(k, "told") /\ UNCHANGED <<rows, expected, report>> /\ phase' # "done"
        BY <1>4 DEF TellsFailure, Fail
    <2> QED BY <2>1, <1>0, RunMoves
<1>5. CASE Ends(k)
    <2>1. /\ Brings(k, "closed") /\ UNCHANGED <<rows, expected, report>>
          /\ phase' = "done" => phase = "done"
        BY <1>5 DEF Ends, Fail
    <2> QED BY <2>1, <1>0, RunMoves
<1>6. CASE Breaks(k)
    <2>1. Brings(k, "closed") /\ UNCHANGED <<rows, expected, report>> /\ phase' # "done"
        BY <1>6 DEF Breaks, Fail
    <2> QED BY <2>1, <1>0, RunMoves
<1> QED BY <1>1, <1>2, <1>3, <1>4, <1>5, <1>6 DEF RunGoesOn

LEMMA LiveSteps == ASSUME LiveInv, LiveNext PROVE LiveInv'
<1>0. typed \in SUBSET Urls /\ entries \in SUBSET Urls /\ picked \in SUBSET Urls
    BY DEF LiveInv, RunsTyped
<1> DEFINE same == UNCHANGED <<live, runs, current, rows, expected, report>>
<1>1. CASE Types
    <2>1. typed' \in SUBSET Urls /\ same /\ UNCHANGED <<phase, entries, picked>>
        BY <1>1 DEF Types, sitemapVars, runVars
    <2> QED BY <1>0, <2>1, LiveKept
<1>2. CASE SetFilter
    <2>1. same /\ UNCHANGED <<typed, phase, entries, picked>>
        BY <1>2 DEF SetFilter, sitemapVars, runVars
    <2> QED BY <1>0, <2>1, LiveKept
<1>3. CASE Start
    BY <1>3, StartKeeps
<1>4. CASE Cancel
    <2>1. /\ runs' = Interrupted(runs) /\ current' = 0 /\ phase' # "done"
          /\ UNCHANGED <<live, rows, expected, report, typed, entries, picked>>
        BY <1>4 DEF Cancel, sitemapVars
    <2> QED BY <2>1, StopKeeps
<1>5. CASE Leaves
    <2>1. /\ runs' = Interrupted(runs) /\ current' = current /\ live' = "gone"
          /\ phase' = "done" => phase = "done"
          /\ UNCHANGED <<rows, expected, report, typed, entries, picked>>
        BY <1>5 DEF Leaves, sitemapVars
    <2> QED BY <2>1, StopKeeps
<1>6. CASE Detect
    <2>1. same /\ typed' = typed /\ phase' # "done" /\ entries' = {} /\ picked' = {}
        BY <1>6 DEF Detect, runVars
    <2> QED BY <1>0, <2>1, LiveKept
<1>7. CASE Pick
    <2>1. same /\ UNCHANGED <<typed, phase, entries>>
        BY <1>7 DEF Pick, runVars
    <2>2. picked' \in SUBSET Urls
        BY <1>7, <1>0 DEF Pick
    <2> QED BY <1>0, <2>1, <2>2, LiveKept
<1>8. CASE SendToBatch
    BY <1>8, SendKeeps
<1>9. CASE \E k \in DOMAIN runs : RunGoesOn(k)
    BY <1>9, RunGoesOnKeeps
<1>10. CASE DetectEnds
    <2>1. same /\ UNCHANGED <<typed, entries, picked>> /\ phase' # "done"
        BY <1>10 DEF DetectEnds, sitemapVars, runVars, Fail
    <2> QED BY <1>0, <2>1, LiveKept
<1>11. CASE ParseEnds
    <2>1. same /\ typed' = typed /\ phase' # "done"
        BY <1>11 DEF ParseEnds, runVars, Fail
    <2>2. entries' \in SUBSET Urls /\ picked' \in SUBSET Urls
        BY <1>11, <1>0 DEF ParseEnds
    <2> QED BY <1>0, <2>1, <2>2, LiveKept
<1> QED BY <1>1, <1>2, <1>3, <1>4, <1>5, <1>6, <1>7, <1>8, <1>9, <1>10, <1>11 DEF LiveNext

(* "Lot termine" (batch.component.ts:246), for any number of addresses, of  *)
(* events lost or come twice, of runs started, interrupted and left: what   *)
(* is listed is all that the last run brought, and nothing of another.      *)
THEOREM RunsShown == Spec => []RunShowsItsOwn
<1>1. Init => LiveInv
    BY LiveStarts
<1>2. LiveInv /\ [Next]_clientVars => LiveInv'
    <2> SUFFICES ASSUME LiveInv, [Next]_clientVars PROVE LiveInv'
        OBVIOUS
    <2>1. CASE LiveNext
        BY <2>1, LiveSteps
    <2>2. CASE UNCHANGED liveVars
        <3>1. UNCHANGED <<typed, live, phase, entries, picked, runs, current, rows, expected, report>>
            BY <2>2 DEF liveVars, sitemapVars, runVars
        <3>2. typed \in SUBSET Urls /\ entries \in SUBSET Urls /\ picked \in SUBSET Urls
            BY DEF LiveInv, RunsTyped
        <3> QED BY <3>1, <3>2, LiveKept
    <2> QED BY <2>1, <2>2 DEF Next, clientVars
<1>3. LiveInv => RunShowsItsOwn
    BY DEF LiveInv, RowsAreLast, BatchFits, DoneIsSaid, ReportIsLast, RunShowsItsOwn
<1> QED BY <1>1, <1>2, <1>3, PTL DEF Spec
-----------------------------------------------------------------------------
(* The session. Calls and rotations of every kind.                          *)
CallStates == {"sent", "ok", "refused", "forbidden", "broken", "waiting", "ended"}
CallRecords == [route : {"me", "api", "logout"}, writes : BOOLEAN, cookie : Nat, header : Nat,
                again : BOOLEAN, on : Nat, st : CallStates]
RotationRecords == [st : {"sent", "renewed", "denied", "broken", "ended"}, shows : Nat, sets : Nat]
SessionTyped ==
    /\ server \in [alive : BOOLEAN, last : Nat, fresh : SUBSET Nat]
    /\ jar \in Nat
    /\ requests \in Seq(CallRecords)
    /\ rotations \in Seq(RotationRecords)
    /\ inFlight \in {0} \union DOMAIN rotations
    /\ lost \in BOOLEAN /\ left \in BOOLEAN

(* One rotation at a time: the others are over.                             *)
OneRotation == \A r \in DOMAIN rotations : r # inFlight => rotations[r].st = "ended"

(* Nobody asked to leave, nothing was lost and the server has the session.  *)
Holds == ~lost /\ ~left /\ server.alive

(* The browser has the last tokens, unless a rotation brings them.          *)
TokensFollow ==
    Holds =>
        /\ inFlight = 0 => jar = server.last
        /\ inFlight # 0 =>
             \/ /\ rotations[inFlight].st = "sent"
                /\ rotations[inFlight].shows = server.last /\ jar = server.last
             \/ /\ rotations[inFlight].st = "renewed"
                /\ rotations[inFlight].sets = server.last
                /\ server.last \in server.fresh /\ jar # server.last

(* A call sent again carries tokens that are accepted.                      *)
ReplaysPass ==
    Holds => \A c \in DOMAIN requests :
                 requests[c].again =>
                     /\ requests[c].st # "refused"
                     /\ requests[c].st = "sent" => requests[c].cookie \in server.fresh

(* The first call reads only, and a lost one is remembered as such.         *)
CallsKnown ==
    \A c \in DOMAIN requests :
        /\ requests[c].route = "logout" => left
        /\ requests[c].route = "me" =>
               /\ ~requests[c].writes /\ requests[c].st # "forbidden"
               /\ requests[c].st = "broken" => lost
Known == Holds /\ path # "" => user # NoUser /\ path # "connexion"

SessionInv ==
    SessionTyped /\ OneRotation /\ TokensFollow /\ ReplaysPass /\ CallsKnown /\ Known

LEMMA SessionStarts == Init => SessionInv
<1> SUFFICES ASSUME Init PROVE SessionInv OBVIOUS
<1>1. CASE scene = "session"
    <2> DEFINE first == [route |-> "me", writes |-> FALSE, cookie |-> jar, header |-> jar,
                         again |-> FALSE, on |-> 0, st |-> "sent"]
    <2>1. /\ server \in [alive : BOOLEAN, last : Nat, fresh : SUBSET Nat]
          /\ server.last = 1 /\ jar \in Nat /\ (server.alive => jar = 1)
        <3>1. PICK alive \in BOOLEAN, fresh \in SUBSET {1} :
                  server = [alive |-> alive, last |-> 1, fresh |-> IF alive THEN fresh ELSE {}]
            BY <1>1 DEF Init, SessionInit
        <3>2. jar \in {0, 1} /\ (server.alive => jar = 1)
            BY <1>1 DEF Init, SessionInit
        <3>3. (IF alive THEN fresh ELSE {}) \in SUBSET Nat
            OBVIOUS
        <3> QED BY <3>1, <3>2, <3>3
    <2>2. /\ requests = <<first>> /\ rotations = <<>> /\ inFlight = 0 /\ path = ""
          /\ lost = FALSE /\ left = FALSE
        BY <1>1 DEF Init, SessionInit, Request
    <2>3. first \in CallRecords /\ first.route = "me" /\ ~first.writes /\ first.st = "sent"
          /\ ~first.again
        BY <2>1 DEF CallRecords, CallStates
    <2> HIDE DEF first
    <2>4. requests \in Seq(CallRecords) /\ DOMAIN requests = {1} /\ requests[1] = first
        <3>1. requests = <<first>>
            BY <2>2
        <3> QED BY <2>3, <3>1
    <2>5. rotations \in Seq(RotationRecords) /\ DOMAIN rotations = {}
        <3>1. rotations = <<>>
            BY <2>2
        <3> QED BY <3>1
    <2> QED BY <2>1, <2>2, <2>3, <2>4, <2>5 DEF SessionInv, SessionTyped, OneRotation, TokensFollow,
                ReplaysPass, CallsKnown, Known, Holds
<1>2. CASE scene # "session"
    <2>1. /\ server = [alive |-> FALSE, last |-> 0, fresh |-> {}] /\ jar = 0
          /\ requests = <<>> /\ rotations = <<>> /\ inFlight = 0 /\ lost = FALSE /\ left = FALSE
        BY <1>2 DEF Init
    <2>2. /\ requests \in Seq(CallRecords) /\ DOMAIN requests = {}
          /\ rotations \in Seq(RotationRecords) /\ DOMAIN rotations = {}
        BY <2>1
    <2>3. server \in [alive : BOOLEAN, last : Nat, fresh : SUBSET Nat] /\ ~server.alive
        BY <2>1
    <2> QED BY <2>1, <2>2, <2>3 DEF SessionInv, SessionTyped, OneRotation, TokensFollow,
                ReplaysPass, CallsKnown, Known, Holds
<1> QED BY <1>1, <1>2

(* The fields of a call that has moved.                                     *)
LEMMA CallMoved ==
    ASSUME NEW q \in CallRecords, NEW st \in CallStates
    PROVE LET m == [q EXCEPT !.st = st]
          IN /\ m \in CallRecords /\ m.st = st /\ m.route = q.route /\ m.writes = q.writes
             /\ m.cookie = q.cookie /\ m.header = q.header /\ m.again = q.again
BY DEF CallRecords

(* A step that moves one call, and maybe loses or ends the session.         *)
LEMMA CallStep ==
    ASSUME SessionInv, NEW c \in DOMAIN requests, NEW st \in CallStates,
           requests' = [requests EXCEPT ![c].st = st],
           UNCHANGED <<rotations, inFlight, left>>,
           server' \in [alive : BOOLEAN, last : Nat, fresh : SUBSET Nat],
           jar' \in Nat, lost' \in BOOLEAN,
           lost => lost',
           Holds' => server' = server /\ jar' = jar,
           requests[c].route = "me" => st # "forbidden" /\ (st = "broken" => lost'),
           st # "sent",
           Holds /\ requests[c].again => st # "refused",
           Known'
    PROVE SessionInv'
<1> DEFINE m == [requests[c] EXCEPT !.st = st]
<1>1. requests[c] \in CallRecords
    BY DEF SessionInv, SessionTyped
<1>2. /\ m \in CallRecords /\ m.st = st /\ m.route = requests[c].route
      /\ m.writes = requests[c].writes /\ m.cookie = requests[c].cookie
      /\ m.again = requests[c].again
    BY <1>1, CallMoved
<1>3. requests' = [requests EXCEPT ![c] = m]
    OBVIOUS
<1> HIDE DEF m
<1>4. /\ requests' \in Seq(CallRecords) /\ DOMAIN requests' = DOMAIN requests
      /\ requests'[c] = m /\ \A d \in DOMAIN requests : d # c => requests'[d] = requests[d]
    BY <1>2, <1>3 DEF SessionInv, SessionTyped
<1>5. Holds' => Holds /\ server' = server /\ jar' = jar
    BY DEF Holds, SessionInv, SessionTyped
<1>6. SessionTyped' /\ OneRotation'
    BY <1>4 DEF SessionInv, SessionTyped, OneRotation
<1>7. TokensFollow'
    BY <1>5 DEF SessionInv, TokensFollow
<1>8. ReplaysPass'
    BY <1>2, <1>4, <1>5 DEF SessionInv, ReplaysPass
<1>9. CallsKnown'
    BY <1>2, <1>4 DEF SessionInv, CallsKnown
<1> QED BY <1>6, <1>7, <1>8, <1>9 DEF SessionInv

LEMMA ServeKeeps == ASSUME SessionInv, NEW c, Serve(c) PROVE SessionInv'
<1> DEFINE st == Verdict(requests[c])
           off == [server EXCEPT !.alive = FALSE, !.fresh = {}]
<1>1. /\ c \in DOMAIN requests /\ requests[c].st = "sent"
      /\ requests' = [requests EXCEPT ![c].st = st]
      /\ server' = server \/ server' = off
      /\ UNCHANGED <<jar, user, path, rotations, inFlight, lost, left>>
    BY DEF Serve
<1>2. st \in CallStates /\ st # "sent" /\ st # "broken"
    BY DEF Verdict, CallStates
<1>3. server \in [alive : BOOLEAN, last : Nat, fresh : SUBSET Nat]
    BY DEF SessionInv, SessionTyped
<1>4. off \in [alive : BOOLEAN, last : Nat, fresh : SUBSET Nat] /\ ~off.alive
    BY <1>3
<1>5. requests[c].route = "me" => st # "forbidden"
    BY <1>1 DEF SessionInv, CallsKnown, Verdict
<1>6. Holds /\ requests[c].again => st # "refused"
    BY <1>1 DEF SessionInv, ReplaysPass, Verdict
<1> HIDE DEF st, off
<1>7. Holds' => server' = server /\ jar' = jar
    BY <1>1, <1>4 DEF Holds
<1>8. Known'
    BY <1>1, <1>7 DEF SessionInv, Known, Holds
<1>9. /\ server' \in [alive : BOOLEAN, last : Nat, fresh : SUBSET Nat]
      /\ jar' \in Nat /\ lost' \in BOOLEAN
    BY <1>1, <1>3, <1>4 DEF SessionInv, SessionTyped
<1> QED BY <1>1, <1>2, <1>5, <1>6, <1>7, <1>8, <1>9, CallStep

LEMMA BreakKeeps == ASSUME SessionInv, NEW c, Break(c) PROVE SessionInv'
<1>1. /\ c \in DOMAIN requests
      /\ requests' = [requests EXCEPT ![c].st = "broken"]
      /\ lost' = (lost \/ requests[c].route = "me")
      /\ UNCHANGED <<server, jar, user, path, rotations, inFlight, left>>
    BY DEF Break
<1>2. lost \in BOOLEAN /\ server \in [alive : BOOLEAN, last : Nat, fresh : SUBSET Nat] /\ jar \in Nat
    BY DEF SessionInv, SessionTyped
<1>3. lost' \in BOOLEAN /\ (lost => lost') /\ (requests[c].route = "me" => lost')
    BY <1>1, <1>2
<1>4. Known'
    BY <1>1, <1>2, <1>3 DEF SessionInv, Known, Holds
<1>5. "broken" \in CallStates
    BY DEF CallStates
<1> QED BY <1>1, <1>2, <1>3, <1>4, <1>5, CallStep

(* The answer of a call: the profile of who holds a session does not fail.  *)
LEMMA AnswerKeeps ==
    ASSUME SessionInv, NEW c \in DOMAIN requests,
           requests[c].st \in {"ok", "refused", "forbidden", "broken"},
           requests[c].st # "refused" \/ requests[c].again \/ requests[c].route = "logout",
           \/ ProfileComes(c)
           \/ requests[c].st # "ok" /\ ProfileFails(c)
           \/ LogoutEnds(c)
           \/ ScreenIsAnswered(c)
    PROVE SessionInv'
<1>0. /\ lost \in BOOLEAN /\ server \in [alive : BOOLEAN, last : Nat, fresh : SUBSET Nat]
      /\ jar \in Nat /\ left \in BOOLEAN /\ "ended" \in CallStates
    BY DEF SessionInv, SessionTyped, CallStates
<1>1. CASE ProfileComes(c)
    <2>1. /\ requests' = [requests EXCEPT ![c].st = "ended"] /\ user' # NoUser
          /\ path' = "tableau-de-bord" /\ UNCHANGED <<server, jar, rotations, inFlight, lost, left>>
        BY <1>1, UserAssumption DEF ProfileComes, Returns
    <2>2. Known'
        BY <2>1 DEF Known
    <2> QED BY <1>0, <2>1, <2>2, CallStep
<1>2. CASE requests[c].st # "ok" /\ ProfileFails(c)
    <2>1. /\ requests' = [requests EXCEPT ![c].st = "ended"] /\ requests[c].route = "me"
          /\ UNCHANGED <<server, jar, rotations, inFlight, lost, left>>
        BY <1>2 DEF ProfileFails, Returns
    <2>2. ~Holds
        BY <1>2, <2>1 DEF SessionInv, CallsKnown, ReplaysPass, Holds
    <2>3. Known'
        BY <2>1, <2>2 DEF Known, Holds
    <2> QED BY <1>0, <2>1, <2>3, CallStep
<1>3. CASE LogoutEnds(c)
    <2>1. /\ requests' = [requests EXCEPT ![c].st = "ended"] /\ requests[c].route = "logout"
          /\ jar' \in {0, jar} /\ UNCHANGED <<server, rotations, inFlight, lost, left>>
        BY <1>3 DEF LogoutEnds, Returns
    <2>2. left
        BY <2>1 DEF SessionInv, CallsKnown
    <2>3. ~Holds' /\ Known' /\ jar' \in Nat
        BY <1>0, <2>1, <2>2 DEF Known, Holds
    <2> QED BY <1>0, <2>1, <2>3, CallStep
<1>4. CASE ScreenIsAnswered(c)
    <2>1. /\ requests' = [requests EXCEPT ![c].st = "ended"] /\ requests[c].route = "api"
          /\ UNCHANGED <<server, jar, user, path, rotations, inFlight, lost, left>>
        BY <1>4 DEF ScreenIsAnswered, Returns
    <2>2. Known'
        BY <2>1 DEF SessionInv, Known, Holds
    <2> QED BY <1>0, <2>1, <2>2, CallStep
<1> QED BY <1>1, <1>2, <1>3, <1>4

(* A 401 joins the rotation in flight: the first shows the last tokens.     *)
LEMMA WaitsKeeps == ASSUME SessionInv, NEW c \in DOMAIN requests, Waits(c) PROVE SessionInv'
<1> DEFINE r == IF StartsRotation THEN Len(rotations) + 1 ELSE inFlight
           m == [[requests[c] EXCEPT !.st = "waiting"] EXCEPT !.on = r]
           new == [st |-> "sent", shows |-> jar, sets |-> 0]
<1>0. /\ requests[c] \in CallRecords /\ rotations \in Seq(RotationRecords) /\ jar \in Nat
      /\ inFlight \in {0} \union DOMAIN rotations /\ inFlight \in Nat
    BY DEF SessionInv, SessionTyped
<1>1. r \in Nat
    BY <1>0
<1>2. /\ requests' = [requests EXCEPT ![c] = m] /\ inFlight' = r
      /\ rotations' = IF StartsRotation THEN Append(rotations, new) ELSE rotations
      /\ UNCHANGED <<server, jar, user, path, lost, left>>
    BY DEF Waits
<1>3. /\ m \in CallRecords /\ m.st = "waiting" /\ m.route = requests[c].route
      /\ m.writes = requests[c].writes /\ m.again = requests[c].again
    <2> HIDE DEF r
    <2> QED BY <1>0, <1>1 DEF CallRecords, CallStates
<1>4. new \in RotationRecords /\ new.st = "sent" /\ new.shows = jar
    BY <1>0 DEF RotationRecords
<1> HIDE DEF m, new
<1>5. /\ requests' \in Seq(CallRecords) /\ DOMAIN requests' = DOMAIN requests
      /\ requests'[c] = m /\ \A d \in DOMAIN requests : d # c => requests'[d] = requests[d]
    BY <1>2, <1>3 DEF SessionInv, SessionTyped
<1>6. ReplaysPass' /\ CallsKnown' /\ Known'
    BY <1>2, <1>3, <1>5 DEF SessionInv, ReplaysPass, CallsKnown, Known, Holds
<1>7. CASE StartsRotation
    <2>1. /\ rotations' \in Seq(RotationRecords)
          /\ DOMAIN rotations' = DOMAIN rotations \union {Len(rotations) + 1}
          /\ rotations'[Len(rotations) + 1] = new
          /\ \A k \in DOMAIN rotations : rotations'[k] = rotations[k]
          /\ 0 \notin DOMAIN rotations /\ Len(rotations) + 1 # 0
        BY <1>0, <1>2, <1>4, <1>7
    <2>2. inFlight = 0 /\ inFlight' = Len(rotations) + 1
        BY <1>2, <1>7 DEF StartsRotation
    <2>3. SessionTyped'
        BY <1>2, <1>5, <2>1, <2>2 DEF SessionInv, SessionTyped
    <2>4. OneRotation'
        BY <2>1, <2>2 DEF SessionInv, OneRotation
    <2>5. TokensFollow'
        BY <1>2, <1>4, <2>1, <2>2 DEF SessionInv, TokensFollow, Holds
    <2> QED BY <1>6, <2>3, <2>4, <2>5 DEF SessionInv
<1>8. CASE ~StartsRotation
    <2>1. rotations' = rotations /\ inFlight' = inFlight
        BY <1>2, <1>8
    <2>2. SessionTyped' /\ OneRotation' /\ TokensFollow'
        BY <1>2, <1>5, <2>1 DEF SessionInv, SessionTyped, OneRotation, TokensFollow, Holds
    <2> QED BY <1>6, <2>2 DEF SessionInv
<1> QED BY <1>7, <1>8

LEMMA DeliverKeeps == ASSUME SessionInv, NEW c, Deliver(c) PROVE SessionInv'
BY WaitsKeeps, AnswerKeeps DEF Deliver

(* A rotation moves: it is the one in flight.                               *)
LEMMA RotationMoved ==
    ASSUME NEW q \in RotationRecords, NEW st \in {"sent", "renewed", "denied", "broken", "ended"}
    PROVE LET m == [q EXCEPT !.st = st] IN m \in RotationRecords /\ m.st = st
BY DEF RotationRecords

LEMMA ServeRotationKeeps == ASSUME SessionInv, NEW r, ServeRotation(r) PROVE SessionInv'
<1>0. /\ r \in DOMAIN rotations /\ rotations[r].st = "sent" /\ rotations[r] \in RotationRecords
      /\ server \in [alive : BOOLEAN, last : Nat, fresh : SUBSET Nat]
      /\ UNCHANGED <<jar, user, path, requests, inFlight, lost, left>>
    BY DEF ServeRotation, SessionInv, SessionTyped
<1>1. r = inFlight /\ r # 0 /\ server.last \in Nat /\ server.fresh \in SUBSET Nat
    BY <1>0 DEF SessionInv, SessionTyped, OneRotation
<1>2. CASE server.alive /\ rotations[r].shows = server.last
    <2> DEFINE m == [[rotations[r] EXCEPT !.st = "renewed"] EXCEPT !.sets = server.last + 1]
               s == [[server EXCEPT !.last = server.last + 1]
                        EXCEPT !.fresh = server.fresh \union {server.last + 1}]
    <2>1. rotations' = [rotations EXCEPT ![r] = m] /\ server' = s
        BY <1>2 DEF ServeRotation
    <2>2. m \in RotationRecords /\ m.st = "renewed" /\ m.sets = server.last + 1
        <3> DEFINE n == [rotations[r] EXCEPT !.st = "renewed"]
        <3>1. n \in RotationRecords /\ n.st = "renewed"
            BY <1>0, RotationMoved
        <3>2. server.last + 1 \in Nat /\ m = [n EXCEPT !.sets = server.last + 1]
            BY <1>1
        <3> HIDE DEF n, m
        <3> QED BY <3>1, <3>2 DEF RotationRecords
    <2>3. /\ s \in [alive : BOOLEAN, last : Nat, fresh : SUBSET Nat] /\ s.alive = server.alive
          /\ s.last = server.last + 1 /\ s.fresh = server.fresh \union {server.last + 1}
        <3>1. server.last + 1 \in Nat /\ server.fresh \union {server.last + 1} \in SUBSET Nat
            BY <1>1
        <3> QED BY <1>0, <3>1
    <2> HIDE DEF m, s
    <2>4. /\ rotations' \in Seq(RotationRecords) /\ DOMAIN rotations' = DOMAIN rotations
          /\ rotations'[r] = m /\ \A k \in DOMAIN rotations : k # r => rotations'[k] = rotations[k]
        BY <2>1, <2>2, <1>0 DEF SessionInv, SessionTyped
    <2>5. SessionTyped' /\ OneRotation'
        BY <1>0, <1>1, <2>1, <2>3, <2>4 DEF SessionInv, SessionTyped, OneRotation
    <2>6. Holds' => Holds
        BY <1>0, <2>1, <2>3 DEF Holds
    <2>7. TokensFollow'
        BY <1>0, <1>1, <2>1, <2>2, <2>3, <2>4, <2>6 DEF SessionInv, TokensFollow
    <2>8. ReplaysPass' /\ CallsKnown' /\ Known'
        BY <1>0, <2>1, <2>3, <2>6 DEF SessionInv, ReplaysPass, CallsKnown, Known
    <2> QED BY <2>5, <2>7, <2>8 DEF SessionInv
<1>3. CASE ~(server.alive /\ rotations[r].shows = server.last)
    <2> DEFINE m == [rotations[r] EXCEPT !.st = "denied"]
    <2>1. rotations' = [rotations EXCEPT ![r] = m] /\ server' = server
        BY <1>3 DEF ServeRotation
    <2>2. m \in RotationRecords /\ m.st = "denied"
        BY <1>0, <1>1, RotationMoved
    <2> HIDE DEF m
    <2>4. /\ rotations' \in Seq(RotationRecords) /\ DOMAIN rotations' = DOMAIN rotations
          /\ rotations'[r] = m /\ \A k \in DOMAIN rotations : k # r => rotations'[k] = rotations[k]
        BY <2>1, <2>2, <1>0 DEF SessionInv, SessionTyped
    <2>5. SessionTyped' /\ OneRotation'
        BY <1>0, <1>1, <2>1, <2>4 DEF SessionInv, SessionTyped, OneRotation
    <2>6. ~Holds /\ ~Holds'
        BY <1>0, <1>1, <1>3, <2>1 DEF SessionInv, TokensFollow, Holds
    <2>8. TokensFollow' /\ ReplaysPass' /\ CallsKnown' /\ Known'
        BY <1>0, <2>6 DEF SessionInv, TokensFollow, ReplaysPass, CallsKnown, Known
    <2> QED BY <2>5, <2>8 DEF SessionInv
<1> QED BY <1>2, <1>3

LEMMA BreakRotationKeeps == ASSUME SessionInv, NEW r, BreakRotation(r) PROVE SessionInv'
<1> DEFINE m == [rotations[r] EXCEPT !.st = "broken"]
<1>0. /\ r \in DOMAIN rotations /\ rotations[r].st # "ended" /\ rotations[r] \in RotationRecords
      /\ rotations' = [rotations EXCEPT ![r] = m] /\ lost' = TRUE
      /\ UNCHANGED <<server, jar, user, path, requests, inFlight, left>>
    BY DEF BreakRotation, SessionInv, SessionTyped
<1>1. r = inFlight
    BY <1>0 DEF SessionInv, OneRotation
<1>2. m \in RotationRecords
    BY <1>0, RotationMoved
<1> HIDE DEF m
<1>3. /\ rotations' \in Seq(RotationRecords) /\ DOMAIN rotations' = DOMAIN rotations
      /\ \A k \in DOMAIN rotations : k # r => rotations'[k] = rotations[k]
    BY <1>0, <1>2 DEF SessionInv, SessionTyped
<1>4. SessionTyped' /\ OneRotation'
    BY <1>0, <1>1, <1>3 DEF SessionInv, SessionTyped, OneRotation
<1>5. TokensFollow' /\ ReplaysPass' /\ CallsKnown' /\ Known'
    BY <1>0 DEF SessionInv, TokensFollow, ReplaysPass, CallsKnown, Known, Holds
<1> QED BY <1>4, <1>5 DEF SessionInv

(* Who waited is sent again with the new tokens, or is done.                *)
LEMMA RotationEndsKeeps == ASSUME SessionInv, NEW r, RotationEnds(r) PROVE SessionInv'
<1> DEFINE m == [rotations[r] EXCEPT !.st = "ended"]
<1>0. /\ r \in DOMAIN rotations /\ rotations[r].st \in {"renewed", "denied", "broken"}
      /\ rotations[r] \in RotationRecords /\ rotations[r].sets \in Nat
      /\ rotations' = [rotations EXCEPT ![r] = m] /\ inFlight' = 0
      /\ UNCHANGED <<server, lost, left>>
    <2>1. /\ r \in DOMAIN rotations /\ rotations[r].st \in {"renewed", "denied", "broken"}
          /\ rotations' = [rotations EXCEPT ![r] = m] /\ inFlight' = 0
          /\ UNCHANGED <<server, lost, left>>
        BY DEF RotationEnds, Renews, Expels
    <2>2. rotations[r] \in RotationRecords
        BY <2>1 DEF SessionInv, SessionTyped
    <2>3. rotations[r].sets \in Nat
        BY <2>2 DEF RotationRecords
    <2> QED BY <2>1, <2>2, <2>3
<1>1. r = inFlight /\ r # 0
    BY <1>0 DEF SessionInv, SessionTyped, OneRotation
<1>2. m \in RotationRecords /\ m.st = "ended"
    BY <1>0, RotationMoved
<1> HIDE DEF m
<1>3. /\ rotations' \in Seq(RotationRecords) /\ DOMAIN rotations' = DOMAIN rotations
      /\ \A k \in DOMAIN rotations : rotations'[k].st = "ended"
    BY <1>0, <1>1, <1>2 DEF SessionInv, SessionTyped, OneRotation
<1>4. OneRotation' /\ (Holds' <=> Holds)
    BY <1>0, <1>3 DEF OneRotation, Holds
<1>5. CASE Renews(r)
    <2>1. /\ jar' = rotations[r].sets /\ UNCHANGED <<user, path>> /\ rotations[r].st = "renewed"
          /\ DOMAIN requests' = DOMAIN requests
          /\ \A c \in DOMAIN requests :
                 requests'[c] = IF c \in Waiting(r)
                                THEN [[[requests[c] EXCEPT !.st = "sent"] EXCEPT !.again = TRUE]
                                         EXCEPT !.cookie = rotations[r].sets]
                                ELSE requests[c]
        BY <1>5 DEF Renews
    <2>2. \A c \in DOMAIN requests :
              /\ requests'[c] \in CallRecords
              /\ requests'[c].route = requests[c].route
              /\ requests'[c].writes = requests[c].writes
              /\ \/ requests'[c] = requests[c]
                 \/ /\ requests'[c].st = "sent" /\ requests'[c].cookie = rotations[r].sets
        <3> SUFFICES ASSUME NEW c \in DOMAIN requests
                     PROVE  /\ requests'[c] \in CallRecords
                            /\ requests'[c].route = requests[c].route
                            /\ requests'[c].writes = requests[c].writes
                            /\ \/ requests'[c] = requests[c]
                               \/ requests'[c].st = "sent" /\ requests'[c].cookie = rotations[r].sets
            OBVIOUS
        <3> DEFINE a == [requests[c] EXCEPT !.st = "sent"]
                   b == [a EXCEPT !.again = TRUE]
                   d == [b EXCEPT !.cookie = rotations[r].sets]
        <3>1. requests[c] \in CallRecords
            BY DEF SessionInv, SessionTyped
        <3>2. requests'[c] \in {d, requests[c]}
            BY <2>1
        <3>3. /\ a \in CallRecords /\ a.st = "sent" /\ a.route = requests[c].route
              /\ a.writes = requests[c].writes
            BY <3>1 DEF CallRecords, CallStates
        <3> HIDE DEF a
        <3>4. /\ b \in CallRecords /\ b.st = "sent" /\ b.route = requests[c].route
              /\ b.writes = requests[c].writes
            BY <3>3 DEF CallRecords
        <3> HIDE DEF b
        <3>5. /\ d \in CallRecords /\ d.st = "sent" /\ d.route = requests[c].route
              /\ d.writes = requests[c].writes /\ d.cookie = rotations[r].sets
            BY <1>0, <3>4 DEF CallRecords
        <3> HIDE DEF d
        <3> QED BY <3>1, <3>2, <3>5
    <2>3. requests' \in Seq(CallRecords)
        <3>0. requests' = [c \in DOMAIN requests |-> requests'[c]]
            <4>1. requests' = [c \in DOMAIN requests |->
                                IF c \in Waiting(r)
                                THEN [requests[c] EXCEPT !.st = "sent", !.again = TRUE,
                                                         !.cookie = rotations[r].sets]
                                ELSE requests[c]]
                BY <1>5 DEF Renews
            <4> QED BY <4>1, Zenon
        <3>1. requests' = [c \in 1..Len(requests) |-> requests'[c]]
            BY <3>0 DEF SessionInv, SessionTyped
        <3>2. Len(requests) \in Nat /\ DOMAIN requests = 1..Len(requests)
            BY DEF SessionInv, SessionTyped
        <3> QED BY <2>2, <3>1, <3>2
    <2>4. SessionTyped'
        BY <1>0, <1>3, <2>1, <2>3 DEF SessionInv, SessionTyped
    <2>5. Holds => rotations[r].sets = server.last /\ server.last \in server.fresh
        BY <1>1, <2>1 DEF SessionInv, TokensFollow
    <2>6. TokensFollow'
        BY <1>0, <1>4, <2>1, <2>5 DEF TokensFollow
    <2>7. ReplaysPass'
        BY <1>0, <1>4, <2>1, <2>2, <2>5 DEF SessionInv, ReplaysPass
    <2>8. CallsKnown' /\ Known'
        BY <1>0, <1>4, <2>1, <2>2 DEF SessionInv, CallsKnown, Known
    <2> QED BY <1>4, <2>4, <2>6, <2>7, <2>8 DEF SessionInv
<1>6. CASE Expels(r)
    <2>1. /\ jar' \in {0, jar} /\ rotations[r].st \in {"denied", "broken"}
          /\ DOMAIN requests' = DOMAIN requests
          /\ \A c \in DOMAIN requests :
                 requests'[c] = IF c \in Waiting(r) THEN [requests[c] EXCEPT !.st = "ended"]
                                ELSE requests[c]
        BY <1>6 DEF Expels
    <2>2. \A c \in DOMAIN requests :
              /\ requests'[c] \in CallRecords
              /\ requests'[c].route = requests[c].route
              /\ requests'[c].writes = requests[c].writes
              /\ requests'[c].st \in {"ended", requests[c].st}
        <3> SUFFICES ASSUME NEW c \in DOMAIN requests
                     PROVE  /\ requests'[c] \in CallRecords
                            /\ requests'[c].route = requests[c].route
                            /\ requests'[c].writes = requests[c].writes
                            /\ requests'[c].st \in {"ended", requests[c].st}
            OBVIOUS
        <3>1. requests[c] \in CallRecords
            BY DEF SessionInv, SessionTyped
        <3> QED BY <1>0, <2>1, <3>1 DEF CallRecords, CallStates
    <2>3. requests' \in Seq(CallRecords)
        <3>1. requests' = [c \in 1..Len(requests) |-> requests'[c]]
            BY <1>6 DEF Expels, SessionInv, SessionTyped
        <3>2. Len(requests) \in Nat /\ DOMAIN requests = 1..Len(requests)
            BY DEF SessionInv, SessionTyped
        <3> QED BY <2>2, <3>1, <3>2
    <2>4. SessionTyped'
        BY <1>0, <1>3, <2>1, <2>3 DEF SessionInv, SessionTyped
    <2>5. ~Holds
        BY <1>1, <2>1 DEF SessionInv, TokensFollow
    <2>6. TokensFollow' /\ ReplaysPass' /\ Known'
        BY <1>4, <2>5 DEF TokensFollow, ReplaysPass, Known
    <2>7. CallsKnown'
        BY <1>0, <2>1, <2>2 DEF SessionInv, CallsKnown
    <2> QED BY <1>4, <2>4, <2>6, <2>7 DEF SessionInv
<1> QED BY <1>5, <1>6 DEF RotationEnds

(* The server ends a token, or the session.                                 *)
LEMMA ServerKeeps ==
    ASSUME SessionInv, Expires \/ Revoked
    PROVE SessionInv'
<1>0. server \in [alive : BOOLEAN, last : Nat, fresh : SUBSET Nat] /\ server.fresh \in SUBSET Nat
    BY DEF SessionInv, SessionTyped
<1>1. CASE Expires
    <2> DEFINE s == [server EXCEPT !.fresh = server.fresh \ {jar}]
    <2>1. /\ server' = s /\ jar \in server.fresh
          /\ \A c \in DOMAIN requests : ~(requests[c].again /\ requests[c].st = "sent")
          /\ UNCHANGED <<jar, user, path, requests, rotations, inFlight, lost, left>>
        BY <1>1 DEF Expires
    <2>2. /\ s \in [alive : BOOLEAN, last : Nat, fresh : SUBSET Nat] /\ s.alive = server.alive
          /\ s.last = server.last /\ s.fresh = server.fresh \ {jar}
        BY <1>0
    <2> HIDE DEF s
    <2>3. SessionTyped' /\ OneRotation' /\ CallsKnown'
        BY <2>1, <2>2 DEF SessionInv, SessionTyped, OneRotation, CallsKnown
    <2>4. Holds' <=> Holds
        BY <2>1, <2>2 DEF Holds
    <2>5. TokensFollow' /\ ReplaysPass' /\ Known'
        BY <2>1, <2>2, <2>4 DEF SessionInv, TokensFollow, ReplaysPass, Known
    <2> QED BY <2>3, <2>5 DEF SessionInv
<1>2. CASE Revoked
    <2> DEFINE s == [server EXCEPT !.alive = FALSE, !.fresh = {}]
    <2>1. /\ server' = s
          /\ UNCHANGED <<jar, user, path, requests, rotations, inFlight, lost, left>>
        BY <1>2 DEF Revoked
    <2>2. s \in [alive : BOOLEAN, last : Nat, fresh : SUBSET Nat] /\ ~s.alive
        BY <1>0
    <2> HIDE DEF s
    <2>3. SessionTyped' /\ OneRotation' /\ CallsKnown'
        BY <2>1, <2>2 DEF SessionInv, SessionTyped, OneRotation, CallsKnown
    <2>4. ~Holds'
        BY <2>1, <2>2 DEF Holds
    <2>5. TokensFollow' /\ ReplaysPass' /\ Known'
        BY <2>4 DEF TokensFollow, ReplaysPass, Known
    <2> QED BY <2>3, <2>5 DEF SessionInv
<1> QED BY <1>1, <1>2

(* The user calls, and goes from one route to another.                      *)
LEMMA CallsKeeps == ASSUME SessionInv, ScreenCalls \/ Logout PROVE SessionInv'
<1>1. PICK route \in {"api", "logout"}, writes \in BOOLEAN :
          /\ Calls(route, writes) /\ (route = "logout" => left') /\ (left => left')
          /\ left' \in BOOLEAN
    BY DEF ScreenCalls, Logout, SessionInv, SessionTyped
<1> DEFINE new == Request(route, writes)
<1>2. /\ requests' = Append(requests, new)
      /\ UNCHANGED <<server, jar, user, path, rotations, inFlight, lost>>
    BY <1>1 DEF Calls
<1>3. /\ new \in CallRecords /\ new.route = route /\ ~new.again
    BY DEF Request, CallRecords, CallStates, SessionInv, SessionTyped
<1> HIDE DEF new
<1>4. /\ requests' \in Seq(CallRecords)
      /\ DOMAIN requests' = DOMAIN requests \union {Len(requests) + 1}
      /\ requests'[Len(requests) + 1] = new
      /\ \A c \in DOMAIN requests : requests'[c] = requests[c]
    BY <1>2, <1>3 DEF SessionInv, SessionTyped
<1>5. Holds' => Holds
    BY <1>1, <1>2 DEF Holds, SessionInv, SessionTyped
<1>6. SessionTyped' /\ OneRotation'
    BY <1>1, <1>2, <1>4 DEF SessionInv, SessionTyped, OneRotation
<1>7. TokensFollow' /\ Known'
    BY <1>2, <1>5 DEF SessionInv, TokensFollow, Known
<1>8. ReplaysPass'
    BY <1>2, <1>3, <1>4, <1>5 DEF SessionInv, ReplaysPass
<1>9. CallsKnown'
    BY <1>1, <1>2, <1>3, <1>4 DEF SessionInv, CallsKnown
<1> QED BY <1>6, <1>7, <1>8, <1>9 DEF SessionInv

LEMMA VisitsKeeps ==
    ASSUME SessionInv, NEW to \in {"connexion", "tableau-de-bord", "utilisateurs"}, Visits(to)
    PROVE SessionInv'
<1>1. /\ path # "" /\ path' = Guarded(to)
      /\ UNCHANGED <<server, jar, user, requests, rotations, inFlight, lost, left>>
    BY DEF Visits
<1>2. user # NoUser => Guarded(to) # "connexion"
    BY DEF Guarded
<1>3. Known'
    BY <1>1, <1>2 DEF SessionInv, Known, Holds
<1>4. SessionTyped' /\ OneRotation' /\ TokensFollow' /\ ReplaysPass' /\ CallsKnown'
    BY <1>1 DEF SessionInv, SessionTyped, OneRotation, TokensFollow, ReplaysPass, CallsKnown, Holds
<1> QED BY <1>3, <1>4 DEF SessionInv

LEMMA SessionSteps == ASSUME SessionInv, SessionNext PROVE SessionInv'
BY CallsKeeps, ServerKeeps, VisitsKeeps, ServeKeeps, BreakKeeps, DeliverKeeps,
   ServeRotationKeeps, BreakRotationKeeps, RotationEndsKeeps DEF SessionNext

(* The rotation shared between the calls (auth.interceptor.ts:20), for any  *)
(* number of calls: who did not ask to leave is sent to sign in only when   *)
(* the session is over at the server, or an exchange was lost.              *)
THEOREM SessionIsKept == Spec => []LiveSessionKept
<1>1. Init => SessionInv
    BY SessionStarts
<1>2. SessionInv /\ [Next]_clientVars => SessionInv'
    <2> SUFFICES ASSUME SessionInv, [Next]_clientVars PROVE SessionInv'
        OBVIOUS
    <2>1. CASE SessionNext
        BY <2>1, SessionSteps
    <2>2. CASE UNCHANGED sessionVars
        BY <2>2 DEF SessionInv, SessionTyped, OneRotation, TokensFollow, ReplaysPass, CallsKnown,
                    Known, Holds, sessionVars
    <2> QED BY <2>1, <2>2 DEF Next, clientVars
<1>3. SessionInv => LiveSessionKept
    BY DEF SessionInv, Known, Holds, LiveSessionKept
<1> QED BY <1>1, <1>2, <1>3, PTL DEF Spec
-----------------------------------------------------------------------------
(* A filter whose values survive the address.                               *)
GoodField(f) ==
    /\ f.read \in {"text", "flag", "choice", "exact", "number", "score"}
    /\ f.read \in {"text", "choice"} => f.unset = ""
    /\ f.read = "flag" => f.unset = FALSE /\ f.of = BOOLEAN
    /\ f.read = "exact" => Absent \notin f.of
    /\ f.read \in {"number", "score"} => NaN \notin f.of
    /\ Legible(f)
GoodTable(fields) ==
    /\ \A n \in DOMAIN fields : GoodField(fields[n])
    /\ \A n, m \in DOMAIN fields : fields[n].param = fields[m].param => n = m

(* What a parameter is read as is a value of its filter.                    *)
LEMMA FieldRead ==
    ASSUME NEW f, GoodField(f), NEW raw \in DOMAIN Trim \union {Absent}
    PROVE  Valid(f, ReadField(f, raw))
<1>0. \/ Text(raw) = ""
      \/ Text(raw) \in DOMAIN Trim /\ Trim[Text(raw)] = Text(raw)
    <2>1. CASE raw = Absent
        BY <2>1 DEF Text
    <2>2. CASE raw # Absent
        <3>1. raw \in DOMAIN Trim
            BY <2>2
        <3>2. Trim[raw] \in DOMAIN Trim /\ Trim[Trim[raw]] = Trim[raw]
            BY <3>1, ParametersAssumption
        <3>3. Text(raw) = Trim[raw]
            BY <2>2 DEF Text
        <3> QED BY <3>2, <3>3
    <2> QED BY <2>1, <2>2
<1>1. CASE f.read = "text"
    BY <1>0, <1>1 DEF GoodField, Valid, ReadField
<1>2. CASE f.read = "flag"
    <2>1. ReadField(f, raw) \in BOOLEAN
        BY <1>2 DEF ReadField
    <2> QED BY <2>1, <1>2 DEF GoodField, Valid
<1>3. CASE f.read = "choice"
    BY <1>3 DEF Valid, ReadField
<1>4. CASE f.read = "exact"
    BY <1>4 DEF Valid, ReadField
<1>5. CASE f.read = "number"
    BY <1>5 DEF Valid, ReadField
<1>6. CASE f.read = "score"
    BY <1>6 DEF Valid, ReadField
<1> QED BY <1>1, <1>2, <1>3, <1>4, <1>5, <1>6 DEF GoodField

(* A parameter that is not there is a filter that is not set.               *)
LEMMA FieldAbsent ==
    ASSUME NEW f, GoodField(f)
    PROVE  ReadField(f, Absent) = f.unset
<1>1. Text(Absent) = "" /\ NumberIn(Absent) = NaN
    BY DEF Text, NumberIn
<1>2. CASE f.read = "flag"
    BY <1>1, <1>2 DEF GoodField, ReadField
<1>3. CASE f.read # "flag"
    BY <1>1, <1>3 DEF GoodField, ReadField
<1> QED BY <1>2, <1>3

(* A value that is written is read back.                                    *)
LEMMA FieldWritten ==
    ASSUME NEW f, GoodField(f), NEW v, Valid(f, v), v # f.unset
    PROVE  ReadField(f, WrittenField(f, v)) = v
<1>1. CASE f.read \in {"text", "choice"}
    <2>1. v \in DOMAIN Trim /\ Trim[v] = v /\ v # Absent
        BY <1>1, ParametersAssumption DEF GoodField, Valid, Legible
    <2>2. Text(v) = v
        BY <2>1 DEF Text
    <2> QED BY <2>2, <1>1 DEF GoodField, Valid, ReadField, WrittenField
<1>2. CASE f.read = "flag"
    <2>1. Text("oui") = "oui"
        BY ParametersAssumption DEF Text
    <2>2. v = TRUE
        BY <1>2 DEF GoodField, Valid
    <2>3. WrittenField(f, v) = "oui"
        BY <1>2 DEF WrittenField
    <2>4. ReadField(f, "oui") = TRUE
        BY <1>2, <2>1 DEF ReadField
    <2> QED BY <2>2, <2>3, <2>4
<1>3. CASE f.read = "exact"
    BY <1>3 DEF Valid, ReadField, WrittenField
<1>4. CASE f.read \in {"number", "score"}
    <2>1. v \in f.of
        BY <1>4 DEF Valid
    <2>2. /\ ToString(v) \in DOMAIN Trim /\ Trim[ToString(v)] # ""
          /\ Number[ToString(v)] = v
        BY <2>1, <1>4 DEF GoodField, Legible
    <2>3. ToString(v) # Absent
        BY <2>2, ParametersAssumption
    <2>4. Text(ToString(v)) # "" /\ NumberIn(ToString(v)) = v
        BY <2>2, <2>3 DEF Text, NumberIn
    <2> QED BY <2>1, <2>4, <1>4 DEF ReadField, WrittenField
<1> QED BY <1>1, <1>2, <1>3, <1>4 DEF GoodField

(* Filters survive a passage through the address.                           *)
LEMMA Survive ==
    ASSUME NEW fields, GoodTable(fields),
           NEW filters, filters = [n \in DOMAIN fields |-> filters[n]],
           \A n \in DOMAIN fields : Valid(fields[n], filters[n])
    PROVE  Read(fields, Write(fields, filters)) = filters
<1> DEFINE posed == Posed(fields, filters)
           written == Write(fields, filters)
           named(p) == CHOOSE m \in posed : fields[m].param = p
<1>1. ASSUME NEW n \in DOMAIN fields
      PROVE  ReadField(fields[n], Raw(written, fields[n].param)) = filters[n]
    <2>0. DOMAIN written = {fields[m].param : m \in posed}
        BY DEF Write
    <2>1. CASE n \in posed
        <3>1. fields[n].param \in DOMAIN written /\ named(fields[n].param) = n
            BY <2>0, <2>1 DEF GoodTable, Posed
        <3>2. written[fields[n].param] = WrittenField(fields[n], filters[n])
            BY <2>1, <3>1 DEF Write
        <3>3. filters[n] # fields[n].unset
            BY <2>1 DEF Posed
        <3> QED BY <3>1, <3>2, <3>3, FieldWritten DEF GoodTable, Raw
    <2>2. CASE n \notin posed
        <3>1. fields[n].param \notin DOMAIN written
            BY <2>0, <2>2 DEF GoodTable, Posed
        <3>2. filters[n] = fields[n].unset
            BY <2>2 DEF Posed
        <3> QED BY <3>1, <3>2, FieldAbsent DEF GoodTable, Raw
    <2> QED BY <2>1, <2>2
<1> QED BY <1>1 DEF Read

(* What is read of an address is values of the filters.                     *)
LEMMA ReadValid ==
    ASSUME NEW fields, GoodTable(fields), NEW p, \A n \in DOMAIN p : p[n] \in DOMAIN Trim,
           NEW n \in DOMAIN fields
    PROVE  Valid(fields[n], Read(fields, p)[n])
<1>1. Raw(p, fields[n].param) \in DOMAIN Trim \union {Absent}
    BY DEF Raw
<1> QED BY <1>1, FieldRead DEF GoodTable, Read

(* The kinds of filters.                                                    *)
LEMMA Shape ==
    ASSUME NEW x, NEW r, NEW u, NEW o
    PROVE  /\ Field(x, r, u, o).param = x /\ Field(x, r, u, o).read = r
           /\ Field(x, r, u, o).unset = u /\ Field(x, r, u, o).of = o
BY DEF Field
LEMMA TextGood ==
    ASSUME NEW x
    PROVE  GoodField(TextField(x)) /\ TextField(x).param = x
<1> DEFINE f == TextField(x)
<1>1. f.read = "text" /\ f.unset = "" /\ f.param = x
    BY DEF Field, TextField
<1> HIDE DEF f
<1>2. GoodField(f)
    BY <1>1 DEF GoodField, Legible
<1> QED BY <1>1, <1>2 DEF f
LEMMA FlagGood ==
    ASSUME NEW x
    PROVE  GoodField(FlagField(x)) /\ FlagField(x).param = x
<1> DEFINE f == FlagField(x)
<1>1. f.read = "flag" /\ f.unset = FALSE /\ f.of = BOOLEAN /\ f.param = x
    BY DEF Field, FlagField
<1> HIDE DEF f
<1>2. GoodField(f)
    BY <1>1 DEF GoodField, Legible
<1> QED BY <1>1, <1>2 DEF f
LEMMA ChoiceGood ==
    ASSUME NEW x, NEW o, Legible(ChoiceField(x, o))
    PROVE  GoodField(ChoiceField(x, o)) /\ ChoiceField(x, o).param = x
<1> DEFINE f == ChoiceField(x, o)
<1>1. f.read = "choice" /\ f.unset = "" /\ f.param = x /\ Legible(f)
    BY DEF Field, ChoiceField
<1> HIDE DEF f
<1>2. GoodField(f)
    BY <1>1 DEF GoodField, Legible
<1> QED BY <1>1, <1>2 DEF f
LEMMA ExactGood ==
    ASSUME NEW x, NEW u, NEW o, Absent \notin o
    PROVE  GoodField(Field(x, "exact", u, o)) /\ Field(x, "exact", u, o).param = x
<1> DEFINE f == Field(x, "exact", u, o)
<1>1. f.read = "exact" /\ f.of = o /\ f.param = x
    BY Shape
<1> HIDE DEF f
<1>2. GoodField(f)
    BY <1>1 DEF GoodField, Legible
<1> QED BY <1>1, <1>2 DEF f
LEMMA NumberGood ==
    ASSUME NEW x, NEW r \in {"number", "score"}, NEW u, NEW o, NaN \notin o,
           Legible(Field(x, r, u, o))
    PROVE  GoodField(Field(x, r, u, o)) /\ Field(x, r, u, o).param = x
<1> DEFINE f == Field(x, r, u, o)
<1>1. f.read = r /\ f.of = o /\ f.param = x /\ Legible(f)
    BY Shape
<1> HIDE DEF f
<1>2. GoodField(f)
    BY <1>1 DEF GoodField, Legible
<1> QED BY <1>1, <1>2 DEF f
LEMMA PageGood ==
    ASSUME Legible(PageField) PROVE GoodField(PageField) /\ PageField.param = "page"
BY Shape, NumberGood DEF PageField, NaN, MaxPage

(* The filters of the five lists.                                           *)
LEMMA HistoryGood == GoodTable(HistoryFields)
<1> DEFINE F == HistoryFields
<1>1. /\ DOMAIN F = {"q", "domain", "gamme", "epj", "scoreMin", "scoreMax", "dateFrom",
                     "dateTo", "sort", "order", "page"}
      /\ F["q"] = TextField("q") /\ F["domain"] = TextField("domain")
      /\ F["gamme"] = TextField("gamme") /\ F["epj"] = TextField("epj")
      /\ F["scoreMin"] = Field("scoreMin", "score", NaN, 0..5)
      /\ F["scoreMax"] = Field("scoreMax", "score", NaN, 0..5)
      /\ F["dateFrom"] = DateField("dateFrom") /\ F["dateTo"] = DateField("dateTo")
      /\ F["sort"] = Field("sort", "exact", "analyzedAt", Columns)
      /\ F["order"] = Field("order", "exact", "desc", {"asc", "desc"})
      /\ F["page"] = PageField
    BY DEF HistoryFields
<1> HIDE DEF F
<1>2. \A n \in DOMAIN F : Legible(F[n])
    BY ParametersAssumption DEF F
<1>3. \A n \in {"q", "domain", "gamme", "epj"} : GoodField(F[n]) /\ F[n].param = n
    BY <1>1, TextGood
<1>4. \A n \in {"dateFrom", "dateTo"} : GoodField(F[n]) /\ F[n].param = n
    BY <1>1, <1>2, ChoiceGood DEF DateField
<1>5. \A n \in {"scoreMin", "scoreMax"} : GoodField(F[n]) /\ F[n].param = n
    <2>1. NaN \notin 0..5
        BY DEF NaN
    <2> QED BY <2>1, <1>1, <1>2, NumberGood, Shape
<1>6. \A n \in {"sort", "order"} : GoodField(F[n]) /\ F[n].param = n
    <2>1. Absent \notin Columns /\ Absent \notin {"asc", "desc"}
        BY DEF Absent, Columns
    <2> QED BY <2>1, <1>1, ExactGood, Shape
<1>7. GoodField(F["page"]) /\ F["page"].param = "page"
    BY <1>1, <1>2, PageGood
<1>8. \A n \in DOMAIN F : GoodField(F[n]) /\ F[n].param = n
    BY <1>1, <1>3, <1>4, <1>5, <1>6, <1>7
<1>9. GoodTable(F)
    BY <1>8 DEF GoodTable
<1> QED BY <1>9 DEF F
LEMMA InboxGood == GoodTable(InboxFields)
<1> DEFINE F == InboxFields
<1>1. /\ DOMAIN F = {"unread", "importance", "search", "archived", "page"}
      /\ F["unread"] = FlagField("nonlus") /\ F["archived"] = FlagField("archives")
      /\ F["importance"] = ChoiceField("importance", {"normale", "haute", "critique"})
      /\ F["search"] = TextField("recherche") /\ F["page"] = PageField
    BY DEF InboxFields
<1> HIDE DEF F
<1>2. \A n \in DOMAIN F : Legible(F[n])
    BY ParametersAssumption DEF F
<1>3. \A n \in DOMAIN F : GoodField(F[n])
    BY <1>1, <1>2, TextGood, FlagGood, ChoiceGood, PageGood
<1>4. /\ F["unread"].param = "nonlus" /\ F["archived"].param = "archives"
      /\ F["importance"].param = "importance" /\ F["search"].param = "recherche"
      /\ F["page"].param = "page"
    BY <1>1, <1>2, TextGood, FlagGood, ChoiceGood, PageGood
<1>5. GoodTable(F)
    BY <1>1, <1>3, <1>4 DEF GoodTable
<1> QED BY <1>5 DEF F
LEMMA FeedbackGood == GoodTable(FeedbackFields)
<1> DEFINE F == FeedbackFields
           kinds == {"bug", "suggestion", "question"}
           severities == {"bloquant", "majeur", "mineur", "cosmetique"}
<1>1. /\ DOMAIN F = {"status", "kind", "severity", "search", "mine", "page"}
      /\ F["status"] = ChoiceField("statut", Statuses) /\ F["kind"] = ChoiceField("type", kinds)
      /\ F["severity"] = ChoiceField("gravite", severities)
      /\ F["search"] = TextField("recherche") /\ F["mine"] = FlagField("miens")
      /\ F["page"] = PageField
    BY DEF FeedbackFields
<1> HIDE DEF F, kinds, severities
<1>2. \A n \in DOMAIN F : Legible(F[n])
    BY ParametersAssumption DEF F
<1>3. \A n \in DOMAIN F : GoodField(F[n])
    BY <1>1, <1>2, TextGood, FlagGood, ChoiceGood, PageGood
<1>4. /\ F["status"].param = "statut" /\ F["kind"].param = "type"
      /\ F["severity"].param = "gravite" /\ F["search"].param = "recherche"
      /\ F["mine"].param = "miens" /\ F["page"].param = "page"
    BY <1>1, <1>2, TextGood, FlagGood, ChoiceGood, PageGood
<1>5. GoodTable(F)
    BY <1>1, <1>3, <1>4 DEF GoodTable
<1> QED BY <1>5 DEF F
LEMMA UsersGood == GoodTable(UsersFields)
<1> DEFINE F == UsersFields
           statuses == {"active", "suspended", "pending"}
<1>1. /\ DOMAIN F = {"search", "rank", "status", "page"}
      /\ F["search"] = TextField("recherche") /\ F["rank"] = Field("rang", "number", NaN, Ranks)
      /\ F["status"] = ChoiceField("statut", statuses) /\ F["page"] = PageField
    BY DEF UsersFields
<1> HIDE DEF F, statuses
<1>2. \A n \in DOMAIN F : Legible(F[n])
    BY ParametersAssumption DEF F
<1>3. NaN \notin Ranks
    BY DEF NaN, Ranks, TESTER, EDITOR, ADMIN, SUPER_ADMIN
<1>4. GoodField(F["rank"]) /\ F["rank"].param = "rang"
    BY <1>1, <1>2, <1>3, NumberGood, Shape
<1>5. \A n \in DOMAIN F : GoodField(F[n])
    BY <1>1, <1>2, <1>4, TextGood, ChoiceGood, PageGood
<1>6. /\ F["search"].param = "recherche" /\ F["status"].param = "statut"
      /\ F["page"].param = "page"
    BY <1>1, <1>2, TextGood, ChoiceGood, PageGood
<1>7. GoodTable(F)
    BY <1>1, <1>4, <1>5, <1>6 DEF GoodTable
<1> QED BY <1>7 DEF F
LEMMA AuditGood == GoodTable(AuditFields)
<1> DEFINE F == AuditFields
<1>1. /\ DOMAIN F = {"actor", "action", "targetId", "from", "to", "page"}
      /\ F["actor"] = TextField("acteur") /\ F["action"] = TextField("action")
      /\ F["targetId"] = TextField("cible") /\ F["from"] = DateField("du")
      /\ F["to"] = DateField("au") /\ F["page"] = PageField
    BY DEF AuditFields
<1> HIDE DEF F
<1>2. \A n \in DOMAIN F : Legible(F[n])
    BY ParametersAssumption DEF F
<1>3. \A n \in DOMAIN F : GoodField(F[n])
    BY <1>1, <1>2, TextGood, ChoiceGood, PageGood DEF DateField
<1>4. /\ F["actor"].param = "acteur" /\ F["action"].param = "action"
      /\ F["targetId"].param = "cible" /\ F["from"].param = "du" /\ F["to"].param = "au"
      /\ F["page"].param = "page"
    BY <1>1, <1>2, TextGood, ChoiceGood, PageGood DEF DateField
<1>5. GoodTable(F)
    BY <1>1, <1>3, <1>4 DEF GoodTable
<1> QED BY <1>5 DEF F
(* What the screens say of their filters, through the tables.               *)
LEMMA ScreenTables ==
    ASSUME screen \in Lists
    PROVE  /\ GoodTable(Fields[screen])
           /\ \A p : ReadAddress(p) = Read(Fields[screen], p)
           /\ \A f : WriteAddress(f) = Write(Fields[screen], f)
<1>1. CASE screen = "history"
    BY <1>1, HistoryGood DEF Fields, ReadAddress, WriteAddress, HistoryRead, HistoryWrite
<1>2. CASE screen = "users"
    BY <1>2, UsersGood DEF Fields, ReadAddress, WriteAddress, UsersRead, UsersWrite
<1>3. CASE screen = "audit"
    BY <1>3, AuditGood DEF Fields, ReadAddress, WriteAddress, AuditRead, AuditWrite
<1>4. CASE screen = "feedback"
    BY <1>4, FeedbackGood DEF Fields, ReadAddress, WriteAddress, FeedbackRead, FeedbackWrite
<1>5. CASE screen = "inbox"
    BY <1>5, InboxGood DEF Fields, ReadAddress, WriteAddress, InboxRead, InboxWrite
<1> QED BY <1>1, <1>2, <1>3, <1>4, <1>5 DEF Lists

LEMMA FieldsOfScreens ==
    /\ \A s \in Lists : "page" \in DOMAIN Fields[s] /\ Fields[s]["page"] = PageField
    /\ \A n \in {"q", "gamme"} : n \in DOMAIN Fields["history"] /\ Fields["history"][n].read = "text"
    /\ "actor" \in DOMAIN Fields["audit"] /\ Fields["audit"]["actor"].read = "text"
    /\ \A s \in {"users", "feedback", "inbox"} :
           "search" \in DOMAIN Fields[s] /\ Fields[s]["search"].read = "text"
    /\ "sort" \in DOMAIN Fields["history"] /\ "order" \in DOMAIN Fields["history"]
    /\ Fields["history"]["sort"] = Field("sort", "exact", "analyzedAt", Columns)
    /\ Fields["history"]["order"] = Field("order", "exact", "desc", {"asc", "desc"})
    /\ "unread" \in DOMAIN Fields["inbox"] /\ "importance" \in DOMAIN Fields["inbox"]
    /\ Fields["inbox"]["unread"] = FlagField("nonlus")
    /\ Fields["inbox"]["importance"] = ChoiceField("importance", {"normale", "haute", "critique"})
    /\ "status" \in DOMAIN Fields["feedback"]
    /\ Fields["feedback"]["status"] = ChoiceField("statut", Statuses)
<1>1. /\ Fields["history"] = HistoryFields /\ Fields["users"] = UsersFields
      /\ Fields["audit"] = AuditFields /\ Fields["feedback"] = FeedbackFields
      /\ Fields["inbox"] = InboxFields
    BY DEF Fields
<1>2. \A x : TextField(x).read = "text"
    BY DEF TextField, Field
<1>3. /\ "page" \in DOMAIN HistoryFields /\ HistoryFields["page"] = PageField
      /\ "q" \in DOMAIN HistoryFields /\ HistoryFields["q"] = TextField("q")
      /\ "gamme" \in DOMAIN HistoryFields /\ HistoryFields["gamme"] = TextField("gamme")
      /\ "sort" \in DOMAIN HistoryFields /\ "order" \in DOMAIN HistoryFields
      /\ HistoryFields["sort"] = Field("sort", "exact", "analyzedAt", Columns)
      /\ HistoryFields["order"] = Field("order", "exact", "desc", {"asc", "desc"})
    BY DEF HistoryFields
<1>4. /\ "page" \in DOMAIN UsersFields /\ UsersFields["page"] = PageField
      /\ "search" \in DOMAIN UsersFields /\ UsersFields["search"] = TextField("recherche")
    BY DEF UsersFields
<1>5. /\ "page" \in DOMAIN AuditFields /\ AuditFields["page"] = PageField
      /\ "actor" \in DOMAIN AuditFields /\ AuditFields["actor"] = TextField("acteur")
    BY DEF AuditFields
<1>6. /\ "page" \in DOMAIN FeedbackFields /\ FeedbackFields["page"] = PageField
      /\ "search" \in DOMAIN FeedbackFields /\ FeedbackFields["search"] = TextField("recherche")
      /\ "status" \in DOMAIN FeedbackFields
      /\ FeedbackFields["status"] = ChoiceField("statut", Statuses)
    BY DEF FeedbackFields
<1>7. /\ "page" \in DOMAIN InboxFields /\ InboxFields["page"] = PageField
      /\ "search" \in DOMAIN InboxFields /\ InboxFields["search"] = TextField("recherche")
      /\ "unread" \in DOMAIN InboxFields /\ "importance" \in DOMAIN InboxFields
      /\ InboxFields["unread"] = FlagField("nonlus")
      /\ InboxFields["importance"] = ChoiceField("importance", {"normale", "haute", "critique"})
    BY DEF InboxFields
<1> QED BY <1>1, <1>2, <1>3, <1>4, <1>5, <1>6, <1>7 DEF Lists
-----------------------------------------------------------------------------
(* The filters of a list are legible, those of its address and those of its *)
(* last load. What it lists has the shape of an answer; once it has loaded, *)
(* it lists what was asked, or says that it failed and lists nothing.       *)
ValidFilters(f) ==
    /\ f = [n \in DOMAIN Fields[screen] |-> f[n]]
    /\ \A n \in DOMAIN Fields[screen] : Valid(Fields[screen][n], f[n])
InStep == ValidFilters(wanted) /\ Filters = wanted /\ latest = wanted

Listing(s) ==
    /\ s = [of |-> s.of, rows |-> s.rows, unread |-> s.unread, total |-> s.total]
    /\ s.rows \subseteq Items /\ s.total \in 0..(PageSize + 1)
ShowsOrTells ==
    ~loading /\ ~astray => \/ shown.of = QueryOf(wanted)
                           \/ error # None /\ shown.rows = {}

(* A filing remembers a listing.                                            *)
CallKnown(k) ==
    /\ k = Calling(k.do, k.key, k.line, k.before)
    /\ k.do \in {"file", "fileCounts"} => Listing(k.before)
CallsTyped ==
    /\ calls \in Seq({calls[c] : c \in DOMAIN calls})
    /\ \A c \in DOMAIN calls : CallKnown(calls[c])

ListInv == screen \in Lists => InStep /\ Listing(shown) /\ ShowsOrTells /\ CallsTyped

LEMMA OfItsOwn ==
    ASSUME NEW T, NEW s \in Seq(T) PROVE s \in Seq({s[i] : i \in DOMAIN s})
<1> DEFINE R == {s[i] : i \in DOMAIN s}
<1>1. Len(s) \in Nat /\ DOMAIN s = 1..Len(s) /\ s = [i \in 1..Len(s) |-> s[i]]
    OBVIOUS
<1>2. \A i \in 1..Len(s) : s[i] \in R
    BY <1>1
<1> HIDE DEF R
<1>3. s \in [1..Len(s) -> R]
    BY <1>1, <1>2
<1> QED BY <1>1, <1>3, SeqDef DEF R

LEMMA OtherCall ==
    ASSUME NEW what, NEW key, NEW line, NEW before, what \notin {"file", "fileCounts"}
    PROVE  CallKnown(Calling(what, key, line, before))
BY DEF CallKnown, Calling

LEMMA CallMade ==
    ASSUME CallsTyped, NEW k, CallKnown(k), Goes(k) PROVE CallsTyped'
<1> DEFINE T == {calls[c] : c \in DOMAIN calls} \union {k}
<1>0. \A c \in DOMAIN calls : calls[c] \in T
    OBVIOUS
<1>1. k \in T /\ {calls[c] : c \in DOMAIN calls} \subseteq T
    OBVIOUS
<1> HIDE DEF T
<1>2. calls \in Seq(T)
    BY <1>1, SeqDef DEF CallsTyped
<1>3. /\ calls' \in Seq(T) /\ Len(calls') = Len(calls) + 1
      /\ \A c \in 1..Len(calls') : calls'[c] = IF c = Len(calls) + 1 THEN k ELSE calls[c]
    BY <1>1, <1>2, AppendProperties DEF Goes
<1>4. \A c \in DOMAIN calls' : CallKnown(calls'[c])
    BY <1>2, <1>3 DEF CallsTyped
<1>5. calls' \in Seq({calls'[c] : c \in DOMAIN calls'})
    BY <1>3, OfItsOwn
<1> QED BY <1>4, <1>5 DEF CallsTyped, CallKnown, Listing

LEMMA CallGoesOn ==
    ASSUME CallsTyped, NEW c \in DOMAIN calls, NEW k, CallKnown(k), Becomes(c, k)
    PROVE  CallsTyped'
<1> DEFINE T == {calls[d] : d \in DOMAIN calls} \union {k}
<1>1. k \in T /\ {calls[d] : d \in DOMAIN calls} \subseteq T
    OBVIOUS
<1> HIDE DEF T
<1>2. calls \in Seq(T)
    BY <1>1, SeqDef DEF CallsTyped
<1>3. /\ calls' \in Seq(T) /\ DOMAIN calls' = DOMAIN calls
      /\ \A d \in DOMAIN calls : calls'[d] = IF d = c THEN k ELSE calls[d]
    BY <1>1, <1>2, ExceptSeq DEF Becomes
<1>4. \A d \in DOMAIN calls' : CallKnown(calls'[d])
    BY <1>3 DEF CallsTyped
<1>5. calls' \in Seq({calls'[d] : d \in DOMAIN calls'})
    BY <1>3, OfItsOwn
<1> QED BY <1>4, <1>5 DEF CallsTyped, CallKnown, Listing
-----------------------------------------------------------------------------
(* One filter takes another value.                                          *)
LEMMA Changed ==
    ASSUME NEW g, ValidFilters(g), NEW k \in DOMAIN Fields[screen], NEW v,
           Valid(Fields[screen][k], v)
    PROVE  ValidFilters([g EXCEPT ![k] = v])
<1>1. DOMAIN g = DOMAIN Fields[screen]
    BY DEF ValidFilters
<1>2. \A n \in DOMAIN g : [g EXCEPT ![k] = v][n] = IF n = k THEN v ELSE g[n]
    BY DEF ValidFilters
<1>3. [g EXCEPT ![k] = v] = [n \in DOMAIN Fields[screen] |-> [g EXCEPT ![k] = v][n]]
    BY <1>1
<1> QED BY <1>1, <1>2, <1>3 DEF ValidFilters

(* Between the steps below, the browser stays on its screen.                *)
Here == screen \in Lists /\ screen' = screen

LEMMA FirstPage ==
    ASSUME Here, NEW g, ValidFilters(g) PROVE ValidFilters([g EXCEPT !.page = 1])
<1>1. "page" \in DOMAIN Fields[screen] /\ Valid(Fields[screen]["page"], 1)
    BY FieldsOfScreens DEF Here, Valid, PageField, Field
<1> QED BY <1>1, Changed

(* The address follows the filters asked for, and they are read from it.    *)
LEMMA Navigated ==
    ASSUME Here, InStep, Listing(shown), ShowsOrTells, CallsTyped,
           NEW f, ValidFilters(f), Navigates(f)
    PROVE  InStep' /\ Listing(shown)' /\ ShowsOrTells' /\ CallsTyped'
<1>1. ReadAddress(WriteAddress(f)) = f
    BY ScreenTables, Survive DEF Here, ValidFilters
<1>2. CASE WriteAddress(f) = address
    <2>1. f = wanted /\ wanted' = wanted
        BY <1>1, <1>2 DEF InStep, Filters, Navigates
    <2>2. UNCHANGED <<address, latest, shown, loading, error, calls, astray>>
        BY <1>2 DEF Navigates, listVars
    <2> QED BY <2>1, <2>2 DEF Here, InStep, Filters, ReadAddress, ValidFilters, Listing,
               ShowsOrTells, QueryOf, CallsTyped, CallKnown
<1>3. CASE WriteAddress(f) # address
    <2>1. /\ wanted' = f /\ address' = WriteAddress(f) /\ shown' = shown
          /\ Loads(f)
        BY <1>1, <1>3 DEF Navigates, Follows
    <2>2. latest' = f /\ loading' = TRUE /\ Goes(Calling("load", f, None, None))
        BY <2>1 DEF Loads
    <2>3. CallsTyped'
        BY <2>2, CallMade, OtherCall
    <2>4. InStep'
        BY <1>1, <2>1, <2>2 DEF Here, InStep, Filters, ReadAddress, ValidFilters
    <2> QED BY <2>1, <2>2, <2>3, <2>4 DEF ShowsOrTells, Listing
<1> QED BY <1>2, <1>3

(* What is typed in a form is valid once trimmed.                           *)
LEMMA TypedValid ==
    ASSUME Here, ValidFilters(Filters), NEW trimmed, Offered(screen, trimmed),
           NEW d \in Drafts[screen], \A n \in trimmed : Fields[screen][n].read = "text"
    PROVE  ValidFilters(Typed(d, trimmed))
<1> DEFINE f == Typed(d, trimmed)
<1>1. DOMAIN Filters = DOMAIN Fields[screen]
    BY DEF ValidFilters
<1>2. f = [n \in DOMAIN Fields[screen] |-> f[n]]
    BY <1>1 DEF Typed
<1>3. ASSUME NEW n \in DOMAIN Fields[screen] PROVE Valid(Fields[screen][n], f[n])
    <2>1. CASE n = "page"
        BY <1>1, <2>1, FieldsOfScreens DEF Here, Typed, Valid, PageField, Field
    <2>2. CASE n \in trimmed /\ n # "page"
        <3>1. d[n] \in DOMAIN Trim
            BY <2>2 DEF Offered
        <3>2. f[n] = Trim[d[n]]
            BY <1>1, <2>2 DEF Typed
        <3> QED BY <2>2, <3>1, <3>2, ParametersAssumption DEF Valid
    <2>3. CASE n \in DOMAIN d /\ n \notin trimmed /\ n # "page"
        <3>1. f[n] = d[n]
            BY <1>1, <2>3 DEF Typed
        <3> QED BY <3>1, <2>3 DEF Offered
    <2>4. CASE n \notin DOMAIN d /\ n \notin trimmed /\ n # "page"
        <3>1. f[n] = Filters[n]
            BY <1>1, <2>4 DEF Typed
        <3> QED BY <3>1 DEF ValidFilters
    <2> QED BY <2>1, <2>2, <2>3, <2>4
<1> QED BY <1>2, <1>3 DEF ValidFilters

(* Every gesture on the filters asks for valid ones.                        *)
LEMMA GestureValid ==
    ASSUME Here, InStep, Listing(shown), FilterGesture
    PROVE  \E f : ValidFilters(f) /\ Navigates(f)
<1>0. ValidFilters(Filters)
    BY DEF InStep
<1>1. CASE ApplyHistoryDraft
    <2>1. PICK d \in Drafts.history : screen = "history" /\ Navigates(Typed(d, {"q", "gamme"}))
        BY <1>1 DEF ApplyHistoryDraft
    <2>2. ValidFilters(Typed(d, {"q", "gamme"}))
        BY <1>0, <2>1, TypedValid, FieldsOfScreens, ScreensAssumption
    <2> QED BY <2>1, <2>2
<1>2. CASE ApplyUsersDraft
    <2>1. PICK d \in Drafts.users : screen = "users" /\ Navigates(Typed(d, {"search"}))
        BY <1>2 DEF ApplyUsersDraft
    <2>2. ValidFilters(Typed(d, {"search"}))
        BY <1>0, <2>1, TypedValid, FieldsOfScreens, ScreensAssumption
    <2> QED BY <2>1, <2>2
<1>3. CASE ApplyAuditDraft
    <2>1. PICK d \in Drafts.audit : screen = "audit" /\ Navigates(Typed(d, {"actor"}))
        BY <1>3 DEF ApplyAuditDraft
    <2>2. ValidFilters(Typed(d, {"actor"}))
        BY <1>0, <2>1, TypedValid, FieldsOfScreens, ScreensAssumption
    <2> QED BY <2>1, <2>2
<1>4. CASE ApplyFeedbackDraft
    <2>1. PICK d \in Drafts.feedback : screen = "feedback" /\ Navigates(Typed(d, {"search"}))
        BY <1>4 DEF ApplyFeedbackDraft
    <2>2. ValidFilters(Typed(d, {"search"}))
        BY <1>0, <2>1, TypedValid, FieldsOfScreens, ScreensAssumption
    <2> QED BY <2>1, <2>2
<1>5. CASE ApplyInboxDraft
    <2>1. PICK d \in Drafts.inbox : screen = "inbox" /\ Navigates(Typed(d, {"search"}))
        BY <1>5 DEF ApplyInboxDraft
    <2>2. ValidFilters(Typed(d, {"search"}))
        BY <1>0, <2>1, TypedValid, FieldsOfScreens, ScreensAssumption
    <2> QED BY <2>1, <2>2
<1>6. ASSUME NEW s \in Lists, screen = s PROVE ValidFilters(Unset(Fields[s]))
    BY <1>6 DEF ValidFilters, Unset, Valid
<1>7. CASE ResetHistory
    <2>1. screen = "history" /\ Fields["history"] = HistoryFields
        BY <1>7 DEF ResetHistory, Fields
    <2> DEFINE u == Unset(HistoryFields)
               f == [[u EXCEPT !["sort"] = Filters["sort"]] EXCEPT !["order"] = Filters["order"]]
    <2>2. ValidFilters(u)
        BY <1>6, <2>1 DEF Lists
    <2>3. ValidFilters(f)
        BY <1>0, <2>1, <2>2, Changed, FieldsOfScreens DEF ValidFilters
    <2>4. f = [u EXCEPT !.sort = Filters.sort, !.order = Filters.order]
        BY DEF Unset
    <2> QED BY <1>7, <2>3, <2>4 DEF ResetHistory
<1>8. CASE ResetList
    BY <1>6, <1>8 DEF ResetList, Lists
<1>9. CASE SortBy
    <2>1. PICK k \in {"domain", "url", "score"} : Navigates(ToggleSort(Filters, k))
        BY <1>9 DEF SortBy
    <2>2. screen = "history"
        BY <1>9 DEF SortBy, HistoryShows
    <2> DEFINE F == Filters
               o == IF F.sort = k THEN (IF F.order = "asc" THEN "desc" ELSE "asc")
                    ELSE IF k \in {"domain", "url"} THEN "asc" ELSE "desc"
               g == [[F EXCEPT !["sort"] = k] EXCEPT !["order"] = o]
    <2>3. Valid(Fields[screen]["sort"], k) /\ Valid(Fields[screen]["order"], o)
        BY <2>2, FieldsOfScreens DEF Valid, Field, Columns
    <2> HIDE DEF o
    <2>4. ValidFilters([g EXCEPT !.page = 1])
        BY <1>0, <2>2, <2>3, Changed, FirstPage, FieldsOfScreens
    <2>5. "sort" \in DOMAIN F /\ "order" \in DOMAIN F /\ "page" \in DOMAIN F
        BY <1>0, <2>2, FieldsOfScreens DEF ValidFilters, Lists
    <2>6. [g EXCEPT !.page = 1] = ToggleSort(F, k)
        BY <2>5 DEF ToggleSort, o
    <2> QED BY <2>1, <2>4, <2>6
<1>10. CASE GoToPage
    <2>1. ValidFilters(Filters) /\ Fields[screen]["page"] = PageField /\ "page" \in DOMAIN Fields[screen]
        BY <1>0, FieldsOfScreens DEF Here
    <2>2. Filters.page \in 1..9
        BY <2>1 DEF ValidFilters, Valid, PageField, Field, MaxPage
    <2>3. shown.total \in 0..(PageSize + 1) /\ PageSize \in Nat \ {0}
        <3>1. Cardinality(Items) \in Nat \ {0}
            BY ScreensAssumption, FS_CardinalityType, FS_EmptySet
        <3> QED BY <3>1, ScreensAssumption DEF Listing
    <2>4. PagesOf(shown.total) <= 2
        BY <2>3 DEF PagesOf
    <2>5. CASE Navigates([Filters EXCEPT !.page = @ - 1]) /\ Filters.page > 1
        <3>1. Valid(PageField, Filters.page - 1)
            BY <2>2, <2>5 DEF Valid, PageField, Field, MaxPage
        <3> QED BY <3>1, <2>1, <2>5, Changed
    <2>6. CASE Navigates([Filters EXCEPT !.page = @ + 1]) /\ Filters.page < PagesOf(shown.total)
        <3>1. Filters.page + 1 \in 1..9
            BY <2>2, <2>4, <2>6, <2>3 DEF PagesOf
        <3>2. Valid(PageField, Filters.page + 1)
            BY <3>1 DEF Valid, PageField, Field, MaxPage
        <3> QED BY <3>2, <2>1, <2>6, Changed
    <2> QED BY <1>10, <2>5, <2>6 DEF GoToPage
<1>11. CASE FilterByCounter
    <2>1. CASE screen = "inbox" /\ Navigates([Filters EXCEPT !.unread = ~@, !.page = 1])
        <3> DEFINE g == [Filters EXCEPT !["unread"] = ~Filters.unread]
        <3>1. Valid(Fields[screen]["unread"], Filters.unread)
            BY <1>0, <2>1, FieldsOfScreens DEF ValidFilters
        <3>2. Valid(Fields[screen]["unread"], ~Filters.unread)
            BY <3>1, <2>1, FieldsOfScreens DEF Valid, FlagField, Field
        <3>3. ValidFilters([g EXCEPT !.page = 1])
            BY <1>0, <2>1, <3>2, Changed, FirstPage, FieldsOfScreens
        <3>4. [g EXCEPT !.page = 1] = [Filters EXCEPT !.unread = ~@, !.page = 1]
            OBVIOUS
        <3> QED BY <2>1, <3>3, <3>4
    <2>2. CASE /\ screen = "inbox"
               /\ Navigates([Filters EXCEPT !.importance = Toggled(@, "critique", ""), !.page = 1])
        <3> DEFINE v == Toggled(Filters.importance, "critique", "")
                   g == [Filters EXCEPT !["importance"] = v]
        <3>1. Valid(Fields[screen]["importance"], v)
          <4>1. v = "" \/ v = "critique"
              BY DEF Toggled
          <4>2. Fields[screen]["importance"] = ChoiceField("importance", {"normale", "haute", "critique"})
              BY <2>2, FieldsOfScreens
          <4> HIDE DEF v
          <4>3. /\ ChoiceField("importance", {"normale", "haute", "critique"}).read = "choice"
                /\ ChoiceField("importance", {"normale", "haute", "critique"}).unset = ""
                /\ ChoiceField("importance", {"normale", "haute", "critique"}).of = {"normale", "haute", "critique"}
              BY DEF ChoiceField, Field
          <4> QED BY <4>1, <4>2, <4>3 DEF Valid
        <3>2. ValidFilters([g EXCEPT !.page = 1])
            BY <1>0, <2>2, <3>1, Changed, FirstPage, FieldsOfScreens
        <3>3. [g EXCEPT !.page = 1]
                  = [Filters EXCEPT !.importance = Toggled(@, "critique", ""), !.page = 1]
            OBVIOUS
        <3> QED BY <2>2, <3>2, <3>3
    <2>3. CASE /\ screen = "feedback"
               /\ \E s \in Statuses :
                      Navigates([Filters EXCEPT !.status = Toggled(@, s, ""), !.page = 1])
        <3>0. PICK s \in Statuses :
                  Navigates([Filters EXCEPT !.status = Toggled(@, s, ""), !.page = 1])
            BY <2>3
        <3> DEFINE v == Toggled(Filters.status, s, "")
                   g == [Filters EXCEPT !["status"] = v]
        <3>1. Valid(Fields[screen]["status"], v)
          <4>1. v = "" \/ v = s
              BY DEF Toggled
          <4>2. Fields[screen]["status"] = ChoiceField("statut", Statuses)
              BY <2>3, FieldsOfScreens
          <4> HIDE DEF v
          <4>3. /\ ChoiceField("statut", Statuses).read = "choice"
                /\ ChoiceField("statut", Statuses).unset = ""
                /\ ChoiceField("statut", Statuses).of = Statuses
              BY DEF ChoiceField, Field
          <4> QED BY <4>1, <4>2, <4>3 DEF Valid
        <3>2. ValidFilters([g EXCEPT !.page = 1])
            BY <1>0, <2>3, <3>1, Changed, FirstPage, FieldsOfScreens
        <3>3. [g EXCEPT !.page = 1]
                  = [Filters EXCEPT !.status = Toggled(@, s, ""), !.page = 1]
            OBVIOUS
        <3> QED BY <3>0, <3>2, <3>3
    <2> QED BY <1>11, <2>1, <2>2, <2>3 DEF FilterByCounter
<1> QED BY <1>1, <1>2, <1>3, <1>4, <1>5, <1>7, <1>8, <1>9, <1>10, <1>11 DEF FilterGesture
-----------------------------------------------------------------------------
(* As long as neither the address nor what was asked of it moves.           *)
LEMMA StaysInStep ==
    ASSUME Here, InStep, UNCHANGED <<address, wanted, latest>> PROVE InStep'
BY DEF Here, InStep, Filters, ReadAddress, ValidFilters

(* A load of the address on the screen.                                     *)
LEMMA LoadsAgain ==
    ASSUME Here, InStep, Listing(shown), CallsTyped, Loads(Filters),
           UNCHANGED <<address, wanted, shown>>
    PROVE  InStep' /\ Listing(shown)' /\ ShowsOrTells' /\ CallsTyped'
<1>1. latest' = latest /\ loading' = TRUE /\ Goes(Calling("load", Filters, None, None))
    BY DEF Loads, InStep
<1>2. CallsTyped'
    BY <1>1, CallMade, OtherCall
<1> QED BY <1>1, <1>2, StaysInStep DEF ShowsOrTells, Listing

(* An answer has the shape of a listing.                                    *)
LEMMA AnswersList ==
    ASSUME NEW of, NEW a \in Answers(of) PROVE Listing(a) /\ a.of = of
<1>1. PICK r \in {{}, {CHOOSE i \in Items : TRUE}, Items} :
          a = [of |-> of, rows |-> r, unread |-> r,
               total |-> IF r = Items THEN PageSize + 1 ELSE Cardinality(r)]
    BY DEF Answers
<1>2. r \subseteq Items /\ Items # {}
    BY <1>1, ScreensAssumption
<1>3. Cardinality(r) \in 0..PageSize /\ PageSize \in Nat
    BY <1>2, ScreensAssumption, FS_Subset, FS_CardinalityType
<1> QED BY <1>1, <1>2, <1>3 DEF Listing

LEMMA BackKeeps ==
    ASSUME Here, InStep, Listing(shown), CallsTyped, Back
    PROVE  InStep' /\ Listing(shown)' /\ ShowsOrTells' /\ CallsTyped'
<1>1. PICK p \in Addresses[screen] : wanted' = ReadAddress(p) /\ Follows(p)
    BY DEF Back
<1>2. /\ address' = p /\ shown' = shown /\ latest' = ReadAddress(p) /\ loading' = TRUE
      /\ Goes(Calling("load", ReadAddress(p), None, None))
    BY <1>1 DEF Follows, Loads
<1>3. ValidFilters(ReadAddress(p))
    <2>1. \A n \in DOMAIN p : p[n] \in DOMAIN Trim
        BY ScreensAssumption DEF Here
    <2>2. ReadAddress(p) = [n \in DOMAIN Fields[screen] |-> ReadAddress(p)[n]]
        BY ScreenTables DEF Here, Read
    <2>3. \A n \in DOMAIN Fields[screen] : Valid(Fields[screen][n], ReadAddress(p)[n])
        BY <2>1, ScreenTables, ReadValid DEF Here
    <2> QED BY <2>2, <2>3 DEF ValidFilters
<1>4. InStep'
    BY <1>1, <1>2, <1>3 DEF Here, InStep, Filters, ReadAddress, ValidFilters
<1>5. CallsTyped'
    BY <1>2, CallMade, OtherCall
<1> QED BY <1>2, <1>4, <1>5 DEF ShowsOrTells, Listing

(* An answer that is not the last one asked changes nothing.                *)
LEMMA LoadEndKeeps ==
    ASSUME Here, InStep, Listing(shown), ShowsOrTells, CallsTyped, NEW c \in DOMAIN calls,
           ListLoadEnds(c)
    PROVE  InStep' /\ Listing(shown)' /\ ShowsOrTells' /\ CallsTyped'
<1>1. Becomes(c, Ended) /\ UNCHANGED <<address, wanted, latest>>
    BY DEF ListLoadEnds, Settles
<1>2. InStep' /\ CallsTyped'
    BY <1>1, StaysInStep, CallGoesOn, OtherCall DEF Ended
<1>3. \A f : (QueryOf(f))' = QueryOf(f)
    BY DEF Here, QueryOf
<1>4. CASE latest # calls[c].key
    <2>1. UNCHANGED <<shown, astray, loading, error>>
        BY <1>4 DEF ListLoadEnds
    <2> QED BY <1>1, <1>2, <2>1 DEF Here, ShowsOrTells, Listing, QueryOf
<1>5. CASE latest = calls[c].key
    <2>1. loading' = FALSE /\ calls[c].key = wanted
        BY <1>5 DEF ListLoadEnds, InStep
    <2>2. CASE Fails
        <3>1. shown' = [shown EXCEPT !.rows = {}, !.unread = {}] /\ error' = "load"
            BY <2>2 DEF Fails
        <3>2. Listing(shown)' /\ shown'.rows = {}
            BY <3>1 DEF Listing
        <3>3. error' # None
            BY <3>1, ScreensAssumption
        <3> QED BY <1>2, <3>2, <3>3 DEF ShowsOrTells
    <2>3. ASSUME NEW a \in Answers(QueryOf(calls[c].key)), Fills(a)
          PROVE  Listing(shown)' /\ ShowsOrTells'
        <3>1. shown' = a /\ Listing(a) /\ a.of = QueryOf(wanted)
            BY <2>1, <2>3, AnswersList DEF Fills
        <3> QED BY <1>1, <3>1 DEF Here, ShowsOrTells, Listing, QueryOf
    <2> QED BY <1>2, <1>5, <2>2, <2>3 DEF ListLoadEnds
<1> QED BY <1>4, <1>5

(* The gestures on the lines of a list: none takes the message of a failed  *)
(* load away without going astray, since there is no line to act on.        *)
LEMMA LineGestureKeeps ==
    ASSUME Here, InStep, Listing(shown), ShowsOrTells, CallsTyped, NEW i \in Items,
           Ouvrir(i) \/ BasculerArchive(i) \/ Avancer(i)
    PROVE  InStep' /\ Listing(shown)' /\ ShowsOrTells' /\ CallsTyped'
<1>1. /\ UNCHANGED <<address, wanted, latest, loading, astray>>
      /\ shown.rows # {} /\ ~loading
    BY DEF Ouvrir, BasculerArchive, Avancer, Begins, InboxShows, FeedbackShows, ShowsLines, listVars
<1>2. ~astray => shown.of = QueryOf(wanted)
    BY <1>1 DEF ShowsOrTells
<1>3. Listing(shown)' /\ shown'.of = shown.of
    <2>1. CASE BasculerArchive(i)
        <3>1. shown' = [shown EXCEPT !.rows = @ \ {i}, !.unread = @ \ {i},
                                     !.total = IF @ = 0 THEN 0 ELSE @ - 1]
            BY <2>1 DEF BasculerArchive
        <3>2. /\ shown.total \in 0..(PageSize + 1) /\ PageSize \in Nat
              /\ shown.rows \subseteq Items
            BY ScreensAssumption DEF Listing
        <3>3. (IF shown.total = 0 THEN 0 ELSE shown.total - 1) \in 0..(PageSize + 1)
            BY <3>2
        <3>4. shown' = [of |-> shown.of, rows |-> shown.rows \ {i}, unread |-> shown.unread \ {i},
                        total |-> IF shown.total = 0 THEN 0 ELSE shown.total - 1]
            BY <3>1 DEF Listing
        <3> QED BY <3>2, <3>3, <3>4 DEF Listing
    <2>2. CASE Ouvrir(i) \/ Avancer(i)
        BY <2>2 DEF Ouvrir, Avancer, Listing
    <2> QED BY <2>1, <2>2
<1>4. CallsTyped'
    <2>1. CASE BasculerArchive(i)
        <3>1. Goes(Calling("file", None, i, shown))
            BY <2>1 DEF BasculerArchive, Begins
        <3>2. CallKnown(Calling("file", None, i, shown))
            BY DEF CallKnown, Calling
        <3> QED BY <3>1, <3>2, CallMade
    <2>2. CASE Ouvrir(i)
        BY <2>2, CallMade, OtherCall DEF Ouvrir, Begins
    <2>3. CASE Avancer(i)
        BY <2>3, CallMade, OtherCall DEF Avancer, Begins
    <2> QED BY <2>1, <2>2, <2>3
<1> QED BY <1>1, <1>2, <1>3, <1>4, StaysInStep DEF Here, ShowsOrTells, QueryOf

LEMMA MarkAllKeeps ==
    ASSUME Here, InStep, Listing(shown), ShowsOrTells, CallsTyped, ToutMarquerLu
    PROVE  InStep' /\ Listing(shown)' /\ ShowsOrTells' /\ CallsTyped'
<1>1. /\ UNCHANGED <<address, wanted, latest, loading, shown>>
      /\ Goes(Calling("readAll", None, "all", None))
      /\ astray' = (astray \/ error # None)
    BY DEF ToutMarquerLu, Begins
<1>2. InStep' /\ CallsTyped'
    BY <1>1, StaysInStep, CallMade, OtherCall
<1> QED BY <1>1, <1>2 DEF Here, ShowsOrTells, Listing, QueryOf

(* What follows the answers to the gestures.                                *)
LEMMA GestureEndKeeps ==
    ASSUME Here, InStep, Listing(shown), ShowsOrTells, CallsTyped, NEW c \in DOMAIN calls,
           OuvrirEnds(c) \/ ArchiveEnds(c) \/ AvancerEnds(c) \/ CompareEnds(c)
    PROVE  InStep' /\ Listing(shown)' /\ ShowsOrTells' /\ CallsTyped'
<1>1. UNCHANGED <<address, wanted, latest, loading>>
    BY DEF OuvrirEnds, ArchiveEnds, AvancerEnds, CompareEnds, GoesOn
<1>2. CallKnown(calls[c])
    BY DEF CallsTyped
<1>3. CallKnown(Ended)
    BY OtherCall DEF Ended
<1>4. CASE OuvrirEnds(c)
    <2>1. Listing(shown)' /\ shown'.of = shown.of /\ shown'.rows = shown.rows
        BY <1>4 DEF OuvrirEnds, Listing
    <2>2. CallsTyped'
        BY <1>3, <1>4, CallGoesOn, OtherCall DEF OuvrirEnds, GoesOn
    <2>3. UNCHANGED <<error, astray>>
        BY <1>4 DEF OuvrirEnds
    <2> QED BY <1>1, <2>1, <2>2, <2>3, StaysInStep DEF Here, ShowsOrTells, QueryOf
<1>5. CASE ArchiveEnds(c)
    <2>1. CASE calls[c].do = "file" /\ UNCHANGED <<shown, error, astray>>
               /\ GoesOn(c, [calls[c] EXCEPT !.do = "fileCounts"])
        <3>1. CallKnown([calls[c] EXCEPT !.do = "fileCounts"])
            BY <1>2, <2>1 DEF CallKnown, Calling
        <3>2. CallsTyped'
            BY <2>1, <3>1, CallGoesOn DEF GoesOn
        <3> QED BY <1>1, <2>1, <3>2, StaysInStep DEF Here, ShowsOrTells, Listing, QueryOf
    <2>2. CASE /\ calls[c].do \in {"file", "fileCounts"}
               /\ shown' = [calls[c].before EXCEPT !.total = Cardinality(calls[c].before.rows)]
               /\ astray' = TRUE /\ GoesOn(c, Ended)
        <3>1. Listing(calls[c].before)
            BY <1>2, <2>2 DEF CallKnown
        <3>2. Cardinality(calls[c].before.rows) \in 0..(PageSize + 1)
            BY <3>1, ScreensAssumption, FS_Subset, FS_CardinalityType DEF Listing
        <3>3. Listing(shown)'
            BY <2>2, <3>1, <3>2 DEF Listing
        <3>4. CallsTyped'
            BY <1>3, <2>2, CallGoesOn DEF GoesOn
        <3> QED BY <1>1, <2>2, <3>3, <3>4, StaysInStep DEF ShowsOrTells
    <2>3. CASE UNCHANGED <<shown, error, astray>> /\ GoesOn(c, Ended)
        <3>1. CallsTyped'
            BY <1>3, <2>3, CallGoesOn DEF GoesOn
        <3> QED BY <1>1, <2>3, <3>1, StaysInStep DEF Here, ShowsOrTells, Listing, QueryOf
    <2> QED BY <1>5, <2>1, <2>2, <2>3 DEF ArchiveEnds
<1>6. CASE AvancerEnds(c)
    <2>1. UNCHANGED <<shown, astray>> /\ error' \in {error, "gesture"}
        BY <1>6 DEF AvancerEnds
    <2>2. CallsTyped'
        <3>1. CASE calls[c].do = "triage" /\ GoesOn(c, [calls[c] EXCEPT !.do = "triageCounts"])
            <4>1. CallKnown([calls[c] EXCEPT !.do = "triageCounts"])
                BY <1>2 DEF CallKnown, Calling
            <4> QED BY <3>1, <4>1, CallGoesOn DEF GoesOn
        <3>2. CASE GoesOn(c, Ended)
            BY <1>3, <3>2, CallGoesOn DEF GoesOn
        <3> QED BY <1>6, <3>1, <3>2 DEF AvancerEnds
    <2>3. error # None => error' # None
        BY <2>1, ScreensAssumption
    <2> QED BY <1>1, <2>1, <2>2, <2>3, StaysInStep DEF Here, ShowsOrTells, Listing, QueryOf
<1>7. CASE CompareEnds(c)
    <2>1. UNCHANGED <<shown, error, astray>>
        BY <1>7 DEF CompareEnds, listVars
    <2>2. CallsTyped'
        BY <1>3, <1>7, CallGoesOn DEF CompareEnds
    <2> QED BY <1>1, <2>1, <2>2, StaysInStep DEF Here, ShowsOrTells, Listing, QueryOf
<1> QED BY <1>4, <1>5, <1>6, <1>7

LEMMA MarkedKeeps ==
    ASSUME Here, InStep, Listing(shown), ShowsOrTells, CallsTyped, NEW c \in DOMAIN calls,
           MarquerEnds(c)
    PROVE  InStep' /\ Listing(shown)' /\ ShowsOrTells' /\ CallsTyped'
<1>1. UNCHANGED <<address, wanted, shown, astray>>
    BY DEF MarquerEnds
<1>2. CASE /\ latest' = Filters /\ loading' = TRUE
           /\ Becomes(c, Calling("load", Filters, "all", None))
    <2>1. latest' = latest
        BY <1>2 DEF InStep
    <2>2. CallsTyped'
        BY <1>2, CallGoesOn, OtherCall
    <2> QED BY <1>1, <1>2, <2>1, <2>2, StaysInStep DEF ShowsOrTells, Listing
<1>3. CASE error' = "gesture" /\ Becomes(c, Ended) /\ UNCHANGED <<latest, loading>>
    <2>1. CallsTyped'
        BY <1>3, CallGoesOn, OtherCall DEF Ended
    <2>2. error' # None
        BY <1>3, ScreensAssumption
    <2> QED BY <1>1, <1>3, <2>1, <2>2, StaysInStep DEF Here, ShowsOrTells, Listing, QueryOf
<1> QED BY <1>2, <1>3 DEF MarquerEnds

LEMMA ListSteps ==
    ASSUME ListInv, ScreensNext PROVE ListInv'
<1>1. screen' = screen
    <2>1. Gesture => screen' = screen
        BY DEF Gesture
    <2>2. UserActs => Gesture
        BY DEF UserActs, Back, Retry, FilterGesture, Ouvrir, BasculerArchive, Avancer,
           ToggleSelection, ToutMarquerLu, OpensAnother, ClearSelection, Compare
    <2>3. \A c : CallEnds(c) => screen' = screen
        BY DEF CallEnds, ListLoadEnds, Settles, OuvrirEnds, ArchiveEnds, AvancerEnds, GoesOn,
           MarquerEnds, SiteEnds, SessionEnds, PageEnds, DetailEnds, CompareEnds
    <2> QED BY <2>1, <2>2, <2>3 DEF ScreensNext
<1> SUFFICES ASSUME screen \in Lists PROVE (InStep /\ Listing(shown) /\ ShowsOrTells /\ CallsTyped)'
    BY <1>1 DEF ListInv
<1>2. Here /\ InStep /\ Listing(shown) /\ ShowsOrTells /\ CallsTyped
    BY <1>1 DEF Here, ListInv
<1>3. screen \notin Details
    BY DEF Lists, Details
<1>4. CASE UserActs
    <2>1. CASE Back
        BY <1>2, <2>1, BackKeeps
    <2>2. CASE Retry
        <3>1. Loads(Filters) /\ UNCHANGED <<address, wanted, shown>>
            BY <2>2 DEF Retry
        <3> QED BY <1>2, <3>1, LoadsAgain
    <2>3. CASE FilterGesture
        BY <1>2, <2>3, GestureValid, Navigated
    <2>4. ASSUME NEW i \in Items, Ouvrir(i) \/ BasculerArchive(i) \/ Avancer(i)
          PROVE  (InStep /\ Listing(shown) /\ ShowsOrTells /\ CallsTyped)'
        BY <1>2, <2>4, LineGestureKeeps
    <2>5. CASE ToutMarquerLu
        BY <1>2, <2>5, MarkAllKeeps
    <2>6. ~OpensAnother /\ ~ClearSelection /\ ~Compare /\ \A i : ~ToggleSelection(i)
        BY <1>3 DEF OpensAnother, ClearSelection, Compare, ToggleSelection, SiteShows, Details
    <2> QED BY <1>4, <2>1, <2>2, <2>3, <2>4, <2>5, <2>6 DEF UserActs
<1>5. ASSUME NEW c \in DOMAIN calls, CallEnds(c)
      PROVE  (InStep /\ Listing(shown) /\ ShowsOrTells /\ CallsTyped)'
    <2>1. CASE ListLoadEnds(c)
        BY <1>2, <2>1, LoadEndKeeps
    <2>2. CASE OuvrirEnds(c) \/ ArchiveEnds(c) \/ AvancerEnds(c) \/ CompareEnds(c)
        BY <1>2, <2>2, GestureEndKeeps
    <2>3. CASE MarquerEnds(c)
        BY <1>2, <2>3, MarkedKeeps
    <2>4. ~SiteEnds(c) /\ ~SessionEnds(c) /\ ~PageEnds(c)
        BY <1>3 DEF SiteEnds, SessionEnds, PageEnds, DetailEnds, Details
    <2> QED BY <1>5, <2>1, <2>2, <2>3, <2>4 DEF CallEnds
<1> QED BY <1>4, <1>5 DEF ScreensNext

LEMMA ListStarts == Init => ListInv
<1> SUFFICES ASSUME Init, screen \in Lists PROVE InStep /\ Listing(shown) /\ ShowsOrTells /\ CallsTyped
    BY DEF ListInv
<1>1. ScreensInit
    BY ScreensAssumption DEF Init
<1>2. /\ address \in Addresses[screen] /\ wanted = Filters /\ latest = wanted /\ shown = Nothing
      /\ loading = TRUE /\ calls = <<Calling("load", wanted, None, None)>>
    <2>1. screen \notin Details
        BY DEF Lists, Details
    <2> QED BY <1>1, <2>1 DEF ScreensInit
<1>3. ValidFilters(Filters)
    <2>1. \A n \in DOMAIN address : address[n] \in DOMAIN Trim
        BY <1>2, ScreensAssumption
    <2>2. Filters = [n \in DOMAIN Fields[screen] |-> Filters[n]]
        BY ScreenTables DEF Read, Filters
    <2>3. \A n \in DOMAIN Fields[screen] : Valid(Fields[screen][n], Filters[n])
        BY <2>1, ScreenTables, ReadValid DEF Filters
    <2> QED BY <2>2, <2>3 DEF ValidFilters
<1>4. Listing(shown)
    BY <1>2, ScreensAssumption DEF Nothing, Listing
<1>5. CallsTyped
    <2> DEFINE k == Calling("load", wanted, None, None)
    <2>1. calls \in Seq({k}) /\ DOMAIN calls = {1} /\ calls[1] = k
        BY <1>2
    <2> HIDE DEF k
    <2>2. CallKnown(k)
        BY OtherCall DEF k
    <2> QED BY <2>1, <2>2, OfItsOwn DEF CallsTyped
<1> QED BY <1>2, <1>3, <1>4, <1>5 DEF InStep, ShowsOrTells

(* "Une reponse plus lente qu'une navigation suivante ne doit pas ecraser   *)
(* l'affichage courant" (scan-history.component.ts:374): for any addresses, *)
(* forms and catalogues, any number of gestures and any order of the        *)
(* answers, a list that has loaded shows the answer to the filters last     *)
(* asked for; they survive their passage through the address.               *)
THEOREM ListsShowWhatIsAsked == Spec => []ShowsWhatIsAsked
<1>1. ListInv /\ [Next]_clientVars => ListInv'
    <2> SUFFICES ASSUME ListInv, [Next]_clientVars PROVE ListInv'
        OBVIOUS
    <2>1. CASE ScreensNext
        BY <2>1, ListSteps
    <2>2. CASE UNCHANGED screenVars
        <3>1. UNCHANGED <<screen, address, wanted, latest, shown, loading, error, calls, astray>>
            BY <2>2 DEF screenVars, listVars
        <3> QED BY <3>1 DEF ListInv, InStep, Filters, ReadAddress, ValidFilters, Listing,
                ShowsOrTells, QueryOf, CallsTyped, CallKnown
    <2> QED BY <2>1, <2>2 DEF Next, clientVars
<1>2. ListInv => ShowsWhatIsAsked
    BY DEF ListInv, ShowsOrTells, ShowsWhatIsAsked
<1> QED BY ListStarts, <1>1, <1>2, PTL DEF Spec
=============================================================================
