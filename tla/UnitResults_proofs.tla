------------------------- MODULE UnitResults_proofs -------------------------
(***************************************************************************)
(* Proofs about UnitResults, for any athletes, requests and bounds.        *)
(*                                                                         *)
(* The inductive invariant says what a call at each step is about: which   *)
(* requests get there, that a row about to be stored or queued is the      *)
(* first of the file and names an entrant, that a resolution holds one of  *)
(* the queued conflicts, and that it settles a replacement only after its  *)
(* row was stored.                                                         *)
(***************************************************************************)
EXTENDS UnitResults, SequenceTheorems, TLAPS

\* Which requests reach a step.
StepsOf(call) ==
  /\ call.kind = "none" => call = NoCall
  /\ call.at = "done" => call.kind = "none"
  /\ call.at \in {"list", "insert"} => call.kind = "bulk"
  /\ call.at \in {"row", "existing", "queue"} => call.kind = "import"
  /\ call.at \in {"merge", "state", "settle"} => call.kind = "resolve"
  /\ call.at \in {"wind", "write"} => call.kind \in {"capture", "import", "resolve"}
  /\ call.at \in {"window", "before", "amend"} => call.kind \in {"correct", "resolve"}

\* What a request at a step knows.
KnowsOf(call) ==
  /\ call.at \in {"existing", "wind", "write", "merge", "state", "window", "before", "amend"}
       => call.athlete \in Athletes
  /\ call.todo # {} => call.kind = "bulk"
  /\ call.kind = "import" /\ call.at # "row" => call.file # <<>>
  /\ call.kind = "import" /\ call.at \in {"existing", "wind", "write"}
       => call.athlete = Head(call.file).athlete /\ call.value = Head(call.file).value

\* A resolution and its conflict; stored are the conflicts whose row is stored.
ItemOf(call, queued, stored) ==
  /\ call.kind = "resolve" => call.item \in queued
  /\ call.kind # "resolve" => call.item = 0
  /\ call.at = "settle" /\ call.decision # "discarded" => call.item \in stored
  /\ call.kind = "resolve" => call.decision \in Resolutions

CallInv(call, queued, stored) ==
  call \in CallStates /\ StepsOf(call) /\ KnowsOf(call) /\ ItemOf(call, queued, stored)

CallsInv == \A c \in Calls : CallInv(calls[c], DOMAIN conflicts, written)

ResultsInv == ResultsTypeOK /\ CallsInv

-----------------------------------------------------------------------------
(* The data. *)

LEMMA ValueTypes ==
  /\ Blank \in Values
  /\ [mark |-> 0, status |-> "DNS"] \in Values
  /\ Entered \subseteq Values
  /\ 0 \in Winds
  /\ NoRow \in Rows
<1>1. 0 \in Marks /\ 0 \in Winds
  BY ResultBoundsAssumption DEF Marks, Winds
<1>2. Blank \in Values /\ [mark |-> 0, status |-> "DNS"] \in Values
  BY <1>1, CodesAssumption DEF Blank, Values
<1>3. Entered \subseteq Values
  BY DEF Entered
<1>4. NoRow \in Rows
  BY <1>1, <1>2 DEF NoRow, Rows, Sources
<1> QED BY <1>1, <1>2, <1>3, <1>4

LEMMA FileRowTypes ==
  ASSUME NEW r \in FileRows
  PROVE  /\ r.value \in Values
         /\ r.athlete \in Athletes \union {NoAthlete}
         /\ r.problem = "" => r.athlete \in Athletes
         /\ r.problem # "" => r.problem \in Reasons
         /\ \A why \in Reasons : Queued(r, why) \in Conflicts
  BY AthletesAssumption DEF FileRows, Queued, Conflicts, Reasons, Problems

LEMMA FilesAreSequences ==
  ASSUME NEW n \in 1..MaxRows, NEW file \in [1..n -> FileRows]
  PROVE  file \in Seq(FileRows)
<1>1. n \in Nat
  BY ResultBoundsAssumption
<1> QED BY <1>1, IsASeq

LEMMA FileHead ==
  ASSUME NEW file \in Seq(FileRows), file # <<>>
  PROVE  Head(file) \in FileRows /\ Tail(file) \in Seq(FileRows)
  BY HeadTailProperties

LEMMA NoCallInv == \A queued, stored : CallInv(NoCall, queued, stored)
<1>1. NoCall \in CallStates
  BY ValueTypes, EmptySeq, ResultBoundsAssumption DEF NoCall, CallStates
<1> QED BY <1>1 DEF CallInv, StepsOf, KnowsOf, ItemOf, NoCall

\* A request that has just reached its first step, or the next row.
LEMMA StartInv ==
  ASSUME NEW call \in CallStates, StepsOf(call), KnowsOf(call), call.item = 0,
         call.kind # "resolve"
  PROVE  \A queued, stored : CallInv(call, queued, stored)
  BY DEF CallInv, ItemOf, StepsOf

\* What one request does leaves the others as they are.
LEMMA OneCallMoves ==
  ASSUME ResultsInv, NEW c \in Calls, NEW call, Continue(c, call),
         DOMAIN conflicts \subseteq DOMAIN conflicts', written \subseteq written',
         CallInv(call, DOMAIN conflicts', written')
  PROVE  calls' \in [Calls -> CallStates] /\ CallsInv'
<1>1. calls' \in [Calls -> CallStates]
  BY DEF ResultsInv, ResultsTypeOK, Continue, CallInv
<1>2. ASSUME NEW d \in Calls PROVE CallInv(calls'[d], DOMAIN conflicts', written')
  <2>1. CASE d = c
    BY <2>1 DEF ResultsInv, ResultsTypeOK, Continue
  <2>2. CASE d # c
    <3>1. calls'[d] = calls[d] /\ CallInv(calls[d], DOMAIN conflicts, written)
      BY <2>2 DEF ResultsInv, ResultsTypeOK, CallsInv, Continue
    <3> QED BY <3>1 DEF CallInv, ItemOf
  <2> QED BY <2>1, <2>2
<1> QED BY <1>1, <1>2 DEF CallsInv

\* A step that only reads.
LEMMA ReadStep ==
  ASSUME ResultsInv, NEW c \in Calls, NEW call, Continue(c, call), Reads,
         CallInv(call, DOMAIN conflicts, written)
  PROVE  ResultsInv'
<1>1. calls' \in [Calls -> CallStates] /\ CallsInv'
  BY OneCallMoves DEF Reads
<1> QED BY <1>1 DEF ResultsInv, ResultsTypeOK, Reads, unitVars, HasRow

LEMMA EndStep ==
  ASSUME ResultsInv, NEW c \in Calls, End(c), Reads
  PROVE  ResultsInv'
  BY NoCallInv, ReadStep DEF End

\* A row stored.
LEMMA SaveResultTyped ==
  ASSUME ResultsTypeOK, NEW a \in Athletes, NEW v \in Values, NEW w \in Winds,
         NEW source \in {"manual", "import"}, SaveResult(a, v, w, source)
  PROVE  /\ results' \in [Athletes -> Rows]
         /\ \A b \in Athletes : ~HasRow(b)' => results'[b] = NoRow
         /\ results'[a] = Row(v, w, source)
         /\ \A b \in Athletes : b # a => results'[b] = results[b]
<1>1. Row(v, w, source) \in Rows /\ Row(v, w, source).source # "none"
  BY DEF Row, Rows, Sources
<1> QED BY <1>1 DEF ResultsTypeOK, SaveResult, HasRow

\* The fields of a call, for the steps that keep most of them.
LEMMA CallTypes ==
  ASSUME ResultsInv, NEW c \in Calls
  PROVE  /\ calls[c] \in CallStates
         /\ CallInv(calls[c], DOMAIN conflicts, written)
         /\ calls[c].value \in Values /\ calls[c].wind \in Winds
         /\ calls[c].file \in Seq(FileRows) /\ calls[c].item \in 0..MaxConflicts
  BY DEF ResultsInv, ResultsTypeOK, CallsInv, CallStates

-----------------------------------------------------------------------------
(* Every action keeps the invariant. *)

LEMMA CaptureStep ==
  ASSUME ResultsInv, NEW c \in Calls, NEW a \in Athletes, NEW v \in Entered,
         SaveTrackResult(c, a, v)
  PROVE  ResultsInv'
<1> DEFINE call == [NoCall EXCEPT !.kind = "capture", !.at = "wind", !.athlete = a, !.value = v]
<1>1. call \in CallStates
  BY NoCallInv, ValueTypes DEF CallInv, CallStates, Kinds, Steps
<1>2. CallInv(call, DOMAIN conflicts, written)
  BY <1>1, StartInv DEF NoCall, StepsOf, KnowsOf
<1> QED BY <1>2, ReadStep DEF SaveTrackResult

LEMMA BulkStart ==
  ASSUME ResultsInv, NEW c \in Calls, BulkMarkRemainingDNS(c)
  PROVE  ResultsInv'
<1> DEFINE call == [NoCall EXCEPT !.kind = "bulk", !.at = "list"]
<1>1. call \in CallStates
  BY NoCallInv DEF CallInv, CallStates, Kinds, Steps
<1>2. CallInv(call, DOMAIN conflicts, written)
  BY <1>1, StartInv DEF NoCall, StepsOf, KnowsOf
<1> QED BY <1>2, ReadStep DEF BulkMarkRemainingDNS

LEMMA BulkList ==
  ASSUME ResultsInv, NEW c \in Calls, UnresultedEntries(c)
  PROVE  ResultsInv'
<1> DEFINE todo == {a \in Athletes : ~HasRow(a)}
           call == [calls[c] EXCEPT !.todo = todo, !.at = "insert"]
<1>1. todo \in SUBSET Athletes
  OBVIOUS
<1> HIDE DEF todo
<1>2. call \in CallStates
  BY <1>1, CallTypes DEF CallStates, Steps
<1>3. CallInv(call, DOMAIN conflicts, written)
  BY <1>2, CallTypes DEF UnresultedEntries, At, CallInv, StepsOf, KnowsOf, ItemOf, CallStates
<1> QED BY <1>3, ReadStep DEF UnresultedEntries, todo

LEMMA BulkInsert ==
  ASSUME ResultsInv, NEW c \in Calls, NEW a \in Athletes, BulkDNSOne(c, a)
  PROVE  ResultsInv'
<1> DEFINE todo == calls[c].todo \ {a}
           call == [calls[c] EXCEPT !.todo = todo]
<1>1. calls[c].todo \in SUBSET Athletes
  BY CallTypes DEF CallStates
<1>2. call \in CallStates
  BY <1>1, CallTypes DEF CallStates
<1>3. CallInv(call, DOMAIN conflicts, written)
  BY <1>2, CallTypes DEF BulkDNSOne, At, CallInv, StepsOf, KnowsOf, ItemOf, CallStates
<1>4. calls' \in [Calls -> CallStates] /\ CallsInv'
  BY <1>3, OneCallMoves DEF BulkDNSOne, Continue
<1>5. results' \in [Athletes -> Rows] /\ \A b \in Athletes : ~HasRow(b)' => results'[b] = NoRow
  BY SaveResultTyped, ValueTypes DEF BulkDNSOne, InsertDNS, ResultsInv, ResultsTypeOK, HasRow
<1> QED BY <1>4, <1>5 DEF ResultsInv, ResultsTypeOK, BulkDNSOne, unitVars

LEMMA ImportStart ==
  ASSUME ResultsInv, NEW c \in Calls, NEW file \in Seq(FileRows), ImportTimingFile(c, file)
  PROVE  ResultsInv'
<1> DEFINE call == [NoCall EXCEPT !.kind = "import", !.at = "row", !.file = file]
<1>1. call \in CallStates
  BY NoCallInv DEF CallInv, CallStates, Kinds, Steps
<1>2. CallInv(call, DOMAIN conflicts, written)
  BY <1>1, StartInv DEF NoCall, StepsOf, KnowsOf
<1> QED BY <1>2, ReadStep DEF ImportTimingFile

\* An import that turns to its next row.
LEMMA NextRowInv ==
  ASSUME ResultsInv, NEW c \in Calls, calls[c].file # <<>>
  PROVE  \A queued, stored :
           CallInv([NoCall EXCEPT !.kind = "import", !.at = "row", !.file = Tail(calls[c].file)],
                   queued, stored)
<1> DEFINE call == [NoCall EXCEPT !.kind = "import", !.at = "row", !.file = Tail(calls[c].file)]
<1>1. Tail(calls[c].file) \in Seq(FileRows)
  BY CallTypes, FileHead
<1>2. call \in CallStates
  BY <1>1, NoCallInv DEF CallInv, CallStates, Kinds, Steps
<1> QED BY <1>2, StartInv DEF NoCall, StepsOf, KnowsOf

LEMMA QueueStep ==
  ASSUME ResultsInv, NEW c \in Calls, NEW why \in Reasons, calls[c].file # <<>>,
         QueueTimingConflict(c, why)
  PROVE  ResultsInv'
<1> DEFINE row == Queued(Head(calls[c].file), why)
<1>1. row \in Conflicts
  BY CallTypes, FileHead, FileRowTypes
<1>2. conflicts \in Seq(Conflicts) /\ Len(conflicts) <= MaxConflicts /\ conflicts' = Append(conflicts, row)
  BY DEF ResultsInv, ResultsTypeOK, QueueTimingConflict
<1> HIDE DEF row
<1>3. /\ conflicts' \in Seq(Conflicts) /\ Len(conflicts') = Len(conflicts) + 1
      /\ DOMAIN conflicts \subseteq DOMAIN conflicts'
  BY <1>1, <1>2, AppendProperties
<1>4. Len(conflicts') <= MaxConflicts
  BY <1>2, <1>3, ResultBoundsAssumption DEF QueueTimingConflict
<1>5. calls' \in [Calls -> CallStates] /\ CallsInv'
  BY <1>3, NextRowInv, OneCallMoves DEF QueueTimingConflict, NextRow
<1> QED BY <1>3, <1>4, <1>5
        DEF ResultsInv, ResultsTypeOK, QueueTimingConflict, unitVars, HasRow

LEMMA ImportRowStep ==
  ASSUME ResultsInv, NEW c \in Calls, ImportRow(c)
  PROVE  ResultsInv'
<1> DEFINE row == Head(calls[c].file)
           call == [calls[c] EXCEPT !.at = "existing", !.athlete = row.athlete,
                                    !.value = row.value]
<1>1. row \in FileRows
  BY CallTypes, FileHead DEF ImportRow
<1>2. CASE row.problem # ""
  BY <1>1, <1>2, FileRowTypes, QueueStep DEF ImportRow
<1>3. CASE row.problem = "" /\ Announced
  <2>1. "unit_announced" \in Reasons
    BY DEF Reasons
  <2> QED BY <1>3, <2>1, QueueStep DEF ImportRow
<1>4. CASE row.problem = "" /\ ~Announced
  <2>1. row.athlete \in Athletes /\ row.value \in Values
    BY <1>1, <1>4, FileRowTypes
  <2> HIDE DEF row
  <2>2. call \in CallStates
    BY <2>1, CallTypes DEF CallStates, Steps
  <2>3. CallInv(call, DOMAIN conflicts, written)
    BY <2>1, <2>2, CallTypes
    DEF ImportRow, At, CallInv, StepsOf, KnowsOf, ItemOf, CallStates, row
  <2>4. Continue(c, call) /\ Reads
    BY <1>4 DEF ImportRow, row
  <2> QED BY <2>3, <2>4, ReadStep
<1> QED BY <1>2, <1>3, <1>4

\* A step that moves a call on and changes nothing else of it.
LEMMA MoveOn ==
  ASSUME ResultsInv, NEW c \in Calls, NEW step \in Steps, NEW w \in Winds, NEW v \in Values,
         v # calls[c].value => calls[c].kind # "import",
         StepsOf([calls[c] EXCEPT !.value = v, !.wind = w, !.at = step]),
         step = "settle" => calls[c].item \in written,
         step \in {"existing", "wind", "write", "merge", "state", "window", "before", "amend"}
           => calls[c].athlete \in Athletes,
         calls[c].kind = "import" => calls[c].at \in {"existing", "wind"}
  PROVE  CallInv([calls[c] EXCEPT !.value = v, !.wind = w, !.at = step],
                 DOMAIN conflicts, written)
<1> DEFINE call == [calls[c] EXCEPT !.value = v, !.wind = w, !.at = step]
<1>1. call \in CallStates
  BY CallTypes DEF CallStates
<1>2. KnowsOf(call)
  BY CallTypes DEF CallInv, KnowsOf, CallStates
<1>3. ItemOf(call, DOMAIN conflicts, written)
  BY CallTypes DEF CallInv, ItemOf, CallStates
<1> QED BY <1>1, <1>2, <1>3 DEF CallInv

LEMMA ReadingSteps ==
  ASSUME ResultsInv, NEW c \in Calls,
         \/ ReadExisting(c) \/ Merge(c) \/ ReadState(c) \/ CheckWindow(c) \/ ReadBefore(c)
         \/ ReadWind(c)
  PROVE  ResultsInv'
<1> DEFINE Moved(step, v, w) == [calls[c] EXCEPT !.value = v, !.wind = w, !.at = step]
           old == calls[c].value
           w0 == calls[c].wind
<1>1. /\ old \in Values /\ w0 \in Winds /\ wind \in Winds
      /\ calls[c] \in CallStates /\ StepsOf(calls[c]) /\ KnowsOf(calls[c])
  BY CallTypes DEF ResultsInv, ResultsTypeOK, CallInv
<1>2. ASSUME NEW step \in Steps, NEW v \in Values, NEW w \in Winds
      PROVE  Moved(step, v, w).kind = calls[c].kind /\ Moved(step, v, w).at = step
  BY <1>1 DEF CallStates
<1>3. Moved("queue", old, w0) = [calls[c] EXCEPT !.at = "queue"]
      /\ Moved("wind", old, w0) = [calls[c] EXCEPT !.at = "wind"]
      /\ Moved("window", old, w0) = [calls[c] EXCEPT !.at = "window"]
      /\ Moved("before", old, w0) = [calls[c] EXCEPT !.at = "before"]
      /\ Moved("write", old, wind) = [calls[c] EXCEPT !.wind = wind, !.at = "write"]
  BY <1>1 DEF CallStates
<1>4. CASE ReadExisting(c)
  <2>1. calls[c].kind = "import" /\ calls[c].athlete \in Athletes /\ At(c, "existing")
    BY <1>1, <1>4 DEF ReadExisting, At, StepsOf, KnowsOf
  <2>2. ASSUME NEW step \in {"queue", "wind"} PROVE CallInv(Moved(step, old, w0), DOMAIN conflicts, written)
    <3>1. step \in Steps /\ StepsOf(Moved(step, old, w0))
      BY <1>1, <1>2, <2>1, <2>2 DEF Steps, StepsOf
    <3> QED BY <1>1, <2>1, <3>1, MoveOn DEF At
  <2>3. Reads /\ (Continue(c, Moved("queue", old, w0)) \/ Continue(c, Moved("wind", old, w0)))
    BY <1>3, <1>4 DEF ReadExisting
  <2> QED BY <2>2, <2>3, ReadStep
<1>5. CASE Merge(c)
  <2> DEFINE v == FillBlanks(results[calls[c].athlete].value, old)
  <2>1. calls[c].kind = "resolve" /\ calls[c].athlete \in Athletes
    BY <1>1, <1>5 DEF Merge, At, StepsOf, KnowsOf
  <2>2. v \in Values
    BY <1>1, <2>1 DEF ResultsInv, ResultsTypeOK, Rows, FillBlanks, Values
  <2> HIDE DEF v
  <2>3. StepsOf(Moved("state", v, w0)) /\ "state" \in Steps
    BY <1>1, <1>2, <2>1, <2>2 DEF Steps, StepsOf
  <2>4. CallInv(Moved("state", v, w0), DOMAIN conflicts, written)
    BY <1>1, <2>1, <2>2, <2>3, MoveOn
  <2>5. Moved("state", v, w0) = [calls[c] EXCEPT !.value = v, !.at = "state"]
    BY <1>1 DEF CallStates
  <2>6. Reads /\ Continue(c, Moved("state", v, w0))
    BY <1>5, <2>5 DEF Merge, v
  <2> QED BY <2>4, <2>6, ReadStep
<1>6. CASE ReadState(c)
  <2>1. calls[c].kind = "resolve" /\ calls[c].athlete \in Athletes
    BY <1>1, <1>6 DEF ReadState, At, StepsOf, KnowsOf
  <2>2. ASSUME NEW step \in {"window", "wind"} PROVE CallInv(Moved(step, old, w0), DOMAIN conflicts, written)
    <3>1. step \in Steps /\ StepsOf(Moved(step, old, w0))
      BY <1>1, <1>2, <2>1, <2>2 DEF Steps, StepsOf
    <3> QED BY <1>1, <2>1, <3>1, MoveOn
  <2>3. Reads /\ (Continue(c, Moved("window", old, w0)) \/ Continue(c, Moved("wind", old, w0)))
    BY <1>3, <1>6 DEF ReadState
  <2> QED BY <2>2, <2>3, ReadStep
<1>7. CASE CheckWindow(c)
  <2>1. calls[c].kind \in {"correct", "resolve"} /\ calls[c].athlete \in Athletes
    BY <1>1, <1>7 DEF CheckWindow, At, StepsOf, KnowsOf
  <2>2. StepsOf(Moved("before", old, w0)) /\ "before" \in Steps
    BY <1>1, <1>2, <2>1 DEF Steps, StepsOf
  <2>3. CallInv(Moved("before", old, w0), DOMAIN conflicts, written)
    BY <1>1, <2>1, <2>2, MoveOn
  <2>4. Reads /\ (End(c) \/ Continue(c, Moved("before", old, w0)))
    BY <1>3, <1>7 DEF CheckWindow
  <2> QED BY <2>3, <2>4, ReadStep, EndStep
<1>8. CASE ReadBefore(c)
  <2> DEFINE w == results[calls[c].athlete].wind
  <2>1. calls[c].kind \in {"correct", "resolve"} /\ calls[c].athlete \in Athletes
    BY <1>1, <1>8 DEF ReadBefore, At, StepsOf, KnowsOf
  <2>2. w \in Winds
    BY <2>1 DEF ResultsInv, ResultsTypeOK, Rows
  <2> HIDE DEF w
  <2>3. StepsOf(Moved("amend", old, w)) /\ "amend" \in Steps
    BY <1>1, <1>2, <2>1, <2>2 DEF Steps, StepsOf
  <2>4. CallInv(Moved("amend", old, w), DOMAIN conflicts, written)
    BY <1>1, <2>1, <2>2, <2>3, MoveOn
  <2>5. Moved("amend", old, w) = [calls[c] EXCEPT !.wind = w, !.at = "amend"]
    BY <1>1 DEF CallStates
  <2>6. Reads /\ (End(c) \/ Continue(c, Moved("amend", old, w)))
    BY <1>8, <2>5 DEF ReadBefore, w
  <2> QED BY <2>4, <2>6, ReadStep, EndStep
<1>9. CASE ReadWind(c)
  <2>1. /\ calls[c].kind \in {"capture", "import", "resolve"} /\ calls[c].athlete \in Athletes
        /\ At(c, "wind")
    BY <1>1, <1>9 DEF ReadWind, At, StepsOf, KnowsOf
  <2>2. StepsOf(Moved("write", old, wind)) /\ "write" \in Steps
    BY <1>1, <1>2, <2>1 DEF Steps, StepsOf
  <2>3. CallInv(Moved("write", old, wind), DOMAIN conflicts, written)
    BY <1>1, <2>1, <2>2, MoveOn DEF At
  <2>4. Reads /\ Continue(c, Moved("write", old, wind))
    BY <1>3, <1>9 DEF ReadWind
  <2> QED BY <2>3, <2>4, ReadStep
<1> QED BY <1>4, <1>5, <1>6, <1>7, <1>8, <1>9

\* What Write and Amend share: a row is stored, the call goes on.
LEMMA StoreStep ==
  ASSUME ResultsInv, NEW c \in Calls, calls[c].at \in {"write", "amend"},
         NEW v \in Values, NEW w \in Winds, NEW source \in {"manual", "import"},
         SaveResult(calls[c].athlete, v, w, source),
         written' = written \union ({calls[c].item} \ {0}), Stored(c),
         UNCHANGED <<wind, conflicts>>
  PROVE  /\ results' \in [Athletes -> Rows]
         /\ \A b \in Athletes : ~HasRow(b)' => results'[b] = NoRow
         /\ calls' \in [Calls -> CallStates] /\ CallsInv'
         /\ written' \subseteq DOMAIN conflicts'
<1>1. /\ calls[c] \in CallStates /\ StepsOf(calls[c]) /\ KnowsOf(calls[c])
      /\ ItemOf(calls[c], DOMAIN conflicts, written)
  BY CallTypes DEF CallInv
<1>2. calls[c].athlete \in Athletes
  BY <1>1 DEF KnowsOf
<1>3. /\ results' \in [Athletes -> Rows]
      /\ \A b \in Athletes : ~HasRow(b)' => results'[b] = NoRow
  BY <1>2, SaveResultTyped DEF ResultsInv
<1>4. written' \subseteq DOMAIN conflicts' /\ written \subseteq written'
  BY <1>1 DEF ItemOf, ResultsInv, ResultsTypeOK
<1>5. CASE calls[c].kind = "resolve"
  <2> DEFINE call == [calls[c] EXCEPT !.at = "settle"]
  <2>1. call \in CallStates
    BY <1>1 DEF CallStates, Steps
  <2>2. calls[c].item # 0
    BY <1>1, <1>5 DEF ItemOf, ResultsInv, ResultsTypeOK
  <2>3. CallInv(call, DOMAIN conflicts', written')
    BY <1>1, <1>5, <2>1, <2>2 DEF CallInv, StepsOf, KnowsOf, ItemOf, CallStates
  <2>4. Continue(c, call)
    BY <1>5 DEF Stored
  <2> QED BY <1>3, <1>4, <2>3, <2>4, OneCallMoves
<1>6. CASE calls[c].kind = "import"
  <2>1. calls[c].file # <<>>
    BY <1>1, <1>6 DEF KnowsOf
  <2>2. NextRow(c)
    BY <1>6 DEF Stored
  <2> QED BY <1>3, <1>4, <2>1, <2>2, NextRowInv, OneCallMoves DEF NextRow
<1>7. CASE calls[c].kind \notin {"resolve", "import"}
  BY <1>3, <1>4, <1>7, NoCallInv, OneCallMoves DEF Stored, End
<1> QED BY <1>5, <1>6, <1>7

LEMMA WriteStep ==
  ASSUME ResultsInv, NEW c \in Calls, Write(c)
  PROVE  ResultsInv'
<1> DEFINE source == IF calls[c].kind = "capture" THEN "manual" ELSE "import"
<1>1. source \in {"manual", "import"}
  OBVIOUS
<1>2. SaveResult(calls[c].athlete, calls[c].value, calls[c].wind, source)
  BY DEF Write
<1> HIDE DEF source
<1>3. /\ results' \in [Athletes -> Rows]
      /\ \A b \in Athletes : ~HasRow(b)' => results'[b] = NoRow
      /\ calls' \in [Calls -> CallStates] /\ CallsInv'
      /\ written' \subseteq DOMAIN conflicts'
  BY <1>1, <1>2, CallTypes, StoreStep DEF Write, At, unitVars
<1> QED BY <1>3 DEF ResultsInv, ResultsTypeOK, Write, unitVars

LEMMA AnnounceTyped ==
  ASSUME ResultsTypeOK, Announce
  PROVE  announced' \in 0..MaxAnnounce /\ official' \in BOOLEAN /\ (official' => announced' > 0)
<1>1. announced' \in 0..MaxAnnounce
  BY ResultBoundsAssumption DEF ResultsTypeOK, Announce
<1>2. official' = FALSE
  BY DEF Announce
<1> QED BY <1>1, <1>2

LEMMA AmendStep ==
  ASSUME ResultsInv, NEW c \in Calls, Amend(c)
  PROVE  ResultsInv'
<1>1. calls[c].value \in Values /\ 0 \in Marks
  BY CallTypes, ResultBoundsAssumption DEF Marks
<1>2. Corrected(calls[c].value) \in Values
  BY <1>1 DEF Corrected, Values
<1>3. /\ results' \in [Athletes -> Rows]
      /\ \A b \in Athletes : ~HasRow(b)' => results'[b] = NoRow
      /\ calls' \in [Calls -> CallStates] /\ CallsInv'
      /\ written' \subseteq DOMAIN conflicts'
  BY <1>2, CallTypes, StoreStep DEF Amend, At
<1> QED BY <1>3, AnnounceTyped DEF ResultsInv, ResultsTypeOK, Amend

LEMMA ResolveStart ==
  ASSUME ResultsInv, NEW c \in Calls, NEW i \in DOMAIN conflicts, NEW d \in Resolutions,
         NEW a \in Athletes, NEW s \in Codes, NEW e \in BOOLEAN,
         ResolveTimingConflict(c, i, d, a, s, e)
  PROVE  ResultsInv'
<1> DEFINE row == Resolved(i, a, s)
           first == IF d = "merged" THEN "merge" ELSE "state"
           settling == [NoCall EXCEPT !.kind = "resolve", !.item = i, !.decision = d,
                                      !.escalated = e, !.at = "settle"]
           applying == [NoCall EXCEPT !.kind = "resolve", !.item = i, !.decision = d,
                                      !.escalated = e, !.at = first, !.athlete = row.athlete,
                                      !.value = row.value]
<1>1. /\ conflicts[i] \in Conflicts /\ i \in 0..MaxConflicts /\ i # 0
  BY ElementOfSeq, ResultBoundsAssumption DEF ResultsInv, ResultsTypeOK
<1>2. row.athlete \in Athletes /\ row.value \in Values
  BY <1>1 DEF Resolved, Conflicts, Values
<1>3. first \in {"merge", "state"} /\ first \in Steps
  BY DEF Steps
<1>4. NoCall \in CallStates
  BY NoCallInv DEF CallInv
<1> HIDE DEF row, first
<1>5. CASE d = "discarded"
  <2>1. settling \in CallStates
    BY <1>1, <1>4 DEF CallStates, Kinds, Steps
  <2>2. CallInv(settling, DOMAIN conflicts, written)
    BY <1>5, <2>1 DEF CallInv, StepsOf, KnowsOf, ItemOf, NoCall
  <2>3. Reads /\ Continue(c, settling)
    BY <1>5 DEF ResolveTimingConflict
  <2> QED BY <2>2, <2>3, ReadStep
<1>6. CASE d # "discarded"
  <2>1. applying \in CallStates
    BY <1>1, <1>2, <1>3, <1>4 DEF CallStates, Kinds
  <2>2. CallInv(applying, DOMAIN conflicts, written)
    BY <1>2, <1>3, <2>1 DEF CallInv, StepsOf, KnowsOf, ItemOf, NoCall
  <2>3. Reads /\ Continue(c, applying)
    BY <1>6 DEF ResolveTimingConflict, row, first
  <2> QED BY <2>2, <2>3, ReadStep
<1> QED BY <1>5, <1>6

LEMMA SettleStep ==
  ASSUME ResultsInv, NEW c \in Calls, Settle(c)
  PROVE  ResultsInv'
<1> DEFINE i == calls[c].item
<1>1. i \in DOMAIN conflicts /\ calls[c].decision \in Resolutions
  BY CallTypes DEF Settle, At, CallInv, StepsOf, ItemOf
<1>2. conflicts' = IF Settleable(i) THEN [conflicts EXCEPT ![i].status = calls[c].decision] ELSE conflicts
  BY DEF Settle
<1>3. /\ conflicts \in Seq(Conflicts) /\ Len(conflicts) <= MaxConflicts
      /\ conflicts[i] \in Conflicts
  BY <1>1, ElementOfSeq DEF ResultsInv, ResultsTypeOK
<1>4. [conflicts[i] EXCEPT !.status = calls[c].decision] \in Conflicts
  BY <1>1, <1>3 DEF Conflicts
<1> HIDE DEF i
<1>5. /\ conflicts' \in Seq(Conflicts) /\ Len(conflicts') = Len(conflicts)
      /\ DOMAIN conflicts' = DOMAIN conflicts
  BY <1>1, <1>2, <1>3, <1>4, ExceptSeq
<1>6. calls' \in [Calls -> CallStates] /\ CallsInv'
  BY <1>5, NoCallInv, OneCallMoves DEF Settle, End
<1> QED BY <1>3, <1>5, <1>6 DEF ResultsInv, ResultsTypeOK, Settle, unitVars, HasRow

LEMMA CorrectStart ==
  ASSUME ResultsInv, NEW c \in Calls, NEW a \in Athletes, NEW v \in Entered, NEW e \in BOOLEAN,
         CorrectResult(c, a, v, e)
  PROVE  ResultsInv'
<1> DEFINE call == [NoCall EXCEPT !.kind = "correct", !.at = "window", !.athlete = a,
                                  !.value = v, !.escalated = e]
<1>1. call \in CallStates
  BY NoCallInv, ValueTypes DEF CallInv, CallStates, Kinds, Steps
<1>2. CallInv(call, DOMAIN conflicts, written)
  BY <1>1, StartInv DEF NoCall, StepsOf, KnowsOf
<1> QED BY <1>2, ReadStep DEF CorrectResult

\* The steps that belong to no call.
LEMMA UnitSteps ==
  ASSUME ResultsInv,
         AnnounceUnitResults \/ WindowElapses \/ \E w \in 1..MaxWind : SetUnitWind(w)
  PROVE  ResultsInv'
<1>1. CASE AnnounceUnitResults
  BY <1>1, AnnounceTyped
  DEF ResultsInv, ResultsTypeOK, CallsInv, AnnounceUnitResults, HasRow
<1>2. CASE WindowElapses
  BY <1>2 DEF ResultsInv, ResultsTypeOK, CallsInv, WindowElapses, HasRow, Announced
<1>3. CASE \E w \in 1..MaxWind : SetUnitWind(w)
  <2>1. PICK w \in 1..MaxWind : SetUnitWind(w)
    BY <1>3
  <2>2. w \in Winds
    BY <2>1, ResultBoundsAssumption DEF Winds
  <2>3. results' \in [Athletes -> Rows] /\ \A a \in Athletes : ~HasRow(a)' => results'[a] = NoRow
    BY <2>1, <2>2 DEF SetUnitWind, ResultsInv, ResultsTypeOK, HasRow, Rows
  <2> QED BY <2>1, <2>2, <2>3 DEF ResultsInv, ResultsTypeOK, CallsInv, SetUnitWind
<1> QED BY <1>1, <1>2, <1>3

LEMMA ResultsInitInv == ResultsInit => ResultsInv
<1> SUFFICES ASSUME ResultsInit PROVE ResultsInv
  OBVIOUS
<1>1. ResultsTypeOK
  <2>1. official = FALSE /\ written = {} /\ conflicts = <<>> /\ wind = 0 /\ announced = 0
    BY DEF ResultsInit
  <2>2. wind \in Winds /\ announced \in 0..MaxAnnounce
    BY <2>1, ValueTypes, ResultBoundsAssumption
  <2>3. conflicts \in Seq(Conflicts) /\ Len(conflicts) <= MaxConflicts
    BY <2>1, EmptySeq, ResultBoundsAssumption
  <2>4. calls \in [Calls -> CallStates]
    BY NoCallInv DEF ResultsInit, CallInv
  <2>5. results \in [Athletes -> Rows] /\ \A a \in Athletes : ~HasRow(a) => results[a] = NoRow
    BY ValueTypes DEF ResultsInit, HasRow
  <2> QED BY <2>1, <2>2, <2>3, <2>4, <2>5 DEF ResultsTypeOK
<1>2. CallsInv
  BY NoCallInv DEF ResultsInit, CallsInv
<1> QED BY <1>1, <1>2 DEF ResultsInv

LEMMA ResultsNextInv == ResultsInv /\ [ResultsNext]_vars => ResultsInv'
<1> SUFFICES ASSUME ResultsInv, [ResultsNext]_vars PROVE ResultsInv'
  OBVIOUS
<1>1. ASSUME NEW c \in Calls, CallStep(c) PROVE ResultsInv'
  <2>1. ASSUME NEW n \in 1..MaxRows, NEW file \in [1..n -> FileRows], ImportTimingFile(c, file)
        PROVE  ResultsInv'
    BY <2>1, FilesAreSequences, ImportStart
  <2>2. CASE QueueManual(c)
    <3>1. calls[c].file # <<>> /\ "existing_manual_result" \in Reasons
      BY <2>2, CallTypes DEF QueueManual, At, CallInv, StepsOf, KnowsOf, Reasons
    <3> QED BY <2>2, <3>1, QueueStep DEF QueueManual
  <2>3. CASE BulkDone(c) \/ ImportDone(c) \/ Abort(c)
    BY <2>3, EndStep DEF BulkDone, ImportDone, Abort
  <2> QED BY <1>1, <2>1, <2>2, <2>3, CaptureStep, BulkStart, BulkList, BulkInsert, ImportRowStep,
             ReadingSteps, WriteStep, AmendStep, ResolveStart, SettleStep, CorrectStart
          DEF CallStep
<1>2. CASE UNCHANGED vars
  BY <1>2 DEF vars, unitVars, ResultsInv, ResultsTypeOK, CallsInv, HasRow
<1> QED BY <1>1, <1>2, UnitSteps DEF ResultsNext

THEOREM ResultsInvariance == ResultsSpec => []ResultsInv
  BY ResultsInitInv, ResultsNextInv, PTL DEF ResultsSpec

\* Types, and that only an announced list is official.
THEOREM ResultsTypeCorrect == ResultsSpec => []ResultsTypeOK
<1>1. ResultsInv => ResultsTypeOK
  BY DEF ResultsInv
<1> QED BY ResultsInvariance, <1>1, PTL

-----------------------------------------------------------------------------
(* What the invariant and the actions give. *)

\* The steps at which a request is, one by one, for the properties that speak
\* of the requests that have passed a check.
LEMMA OthersStay ==
  ASSUME ResultsTypeOK, NEW c \in Calls, NEW call, Continue(c, call)
  PROVE  calls'[c] = call /\ \A d \in Calls : d # c => calls'[d] = calls[d]
  BY DEF ResultsTypeOK, Continue

\* The steps of a request that is neither cleared nor amending.
LEMMA ReadsKeepValues ==
  Reads => ValuesStand /\ announced' = announced /\ official' = official
  BY DEF Reads, ValuesStand, unitVars

\* Which steps store a value, and what else they do.
LEMMA WhoWrites ==
  ASSUME ResultsInv, NEW c \in Calls, CallStep(c)
  PROVE  \/ ValuesStand /\ announced' = announced /\ official' = official
         \/ At(c, "insert") /\ announced' = announced /\ official' = official
         \/ At(c, "write") /\ announced' = announced /\ official' = official
         \/ At(c, "amend") /\ Announce
<1> DEFINE Still == announced' = announced /\ official' = official
<1>1. CASE \E a \in Athletes : BulkDNSOne(c, a)
  BY <1>1 DEF BulkDNSOne, unitVars
<1>2. CASE Write(c)
  BY <1>2 DEF Write, unitVars
<1>3. CASE Amend(c)
  BY <1>3 DEF Amend
<1>4. CASE Settle(c)
  BY <1>4 DEF Settle, ValuesStand, unitVars
<1>5. ASSUME NEW why, QueueTimingConflict(c, why) PROVE ValuesStand /\ Still
  BY <1>5 DEF QueueTimingConflict, ValuesStand, unitVars
<1>6. CASE Reads
  BY <1>6, ReadsKeepValues
<1> QED
  BY <1>1, <1>2, <1>3, <1>4, <1>5, <1>6
  DEF CallStep, SaveTrackResult, BulkMarkRemainingDNS, UnresultedEntries, BulkDone,
      ImportTimingFile, ImportRow, ReadExisting, QueueManual, ImportDone, ResolveTimingConflict,
      Merge, ReadState, CorrectResult, CheckWindow, ReadBefore, ReadWind, Abort

\* Where a step can take a request.
LEMMA WhereNext ==
  ASSUME ResultsInv, NEW c \in Calls, CallStep(c)
  PROVE  /\ \A d \in Calls : d # c => calls'[d] = calls[d]
         /\ Cleared(c)' => Cleared(c) \/ ~Announced
         /\ InTime(c)' => InTime(c) \/ (At(c, "window") /\ ~official)
         /\ calls'[c].at \in {"write", "amend"} => ReadWind(c) \/ ReadBefore(c)
<1>0. calls[c] \in CallStates /\ ResultsTypeOK
  BY CallTypes DEF ResultsInv
<1> DEFINE Goal == /\ \A d \in Calls : d # c => calls'[d] = calls[d]
                   /\ Cleared(c)' => Cleared(c) \/ ~Announced
                   /\ InTime(c)' => InTime(c) \/ (At(c, "window") /\ ~official)
                   /\ calls'[c].at \in {"write", "amend"} => ReadWind(c) \/ ReadBefore(c)
           Quiet == {"done", "row", "queue", "settle", "merge", "state", "window"}
<1>1. ASSUME NEW call, Continue(c, call), call.at \in Quiet PROVE Goal
  BY <1>0, <1>1, OthersStay DEF Cleared, InTime
<1>2. ASSUME NEW call, Continue(c, call), call.at \in {"list", "insert", "existing", "wind"},
             Cleared(c) \/ ~Announced
      PROVE  Goal
  BY <1>0, <1>2, OthersStay DEF Cleared, InTime
<1>3. CASE End(c)
  BY <1>1, <1>3 DEF End, NoCall
<1>4. CASE NextRow(c)
  BY <1>1, <1>4 DEF NextRow, NoCall
<1>5. CASE \/ \E a \in Athletes, v \in Entered : SaveTrackResult(c, a, v)
           \/ BulkMarkRemainingDNS(c)
  BY <1>2, <1>5 DEF SaveTrackResult, BulkMarkRemainingDNS, NoCall
<1>6. CASE UnresultedEntries(c) \/ \E a \in Athletes : BulkDNSOne(c, a)
  BY <1>0, <1>2, <1>6 DEF UnresultedEntries, BulkDNSOne, At, Cleared, CallStates
<1>7. CASE \E n \in 1..MaxRows : \E file \in [1..n -> FileRows] : ImportTimingFile(c, file)
  BY <1>1, <1>7 DEF ImportTimingFile, NoCall
<1>8. CASE ImportRow(c)
  BY <1>0, <1>2, <1>4, <1>8 DEF ImportRow, QueueTimingConflict, CallStates
<1>9. CASE ReadExisting(c)
  <2>1. ASSUME NEW step \in {"queue", "wind"}, Continue(c, [calls[c] EXCEPT !.at = step]) PROVE Goal
    <3>1. [calls[c] EXCEPT !.at = step].at = step
      BY <1>0 DEF CallStates
    <3> QED BY <1>1, <1>2, <1>9, <2>1, <3>1 DEF ReadExisting, At, Cleared
  <2> QED BY <1>9, <2>1 DEF ReadExisting
<1>10. CASE QueueManual(c)
  BY <1>4, <1>10 DEF QueueManual, QueueTimingConflict
<1>11. CASE \E i \in DOMAIN conflicts, d \in Resolutions, a \in Athletes, s \in Codes,
               e \in BOOLEAN : ResolveTimingConflict(c, i, d, a, s, e)
  <2>1. PICK i \in DOMAIN conflicts, d \in Resolutions, a \in Athletes, s \in Codes,
             e \in BOOLEAN : ResolveTimingConflict(c, i, d, a, s, e)
    BY <1>11
  <2> DEFINE row == Resolved(i, a, s)
             first == IF d = "merged" THEN "merge" ELSE "state"
             settling == [NoCall EXCEPT !.kind = "resolve", !.item = i, !.decision = d,
                                        !.escalated = e, !.at = "settle"]
             applying == [NoCall EXCEPT !.kind = "resolve", !.item = i, !.decision = d,
                                        !.escalated = e, !.at = first, !.athlete = row.athlete,
                                        !.value = row.value]
  <2>2. first \in {"merge", "state"}
    OBVIOUS
  <2> HIDE DEF row, first
  <2>3. settling.at = "settle" /\ applying.at = first
    BY DEF NoCall
  <2>4. CASE d = "discarded"
    <3>1. Continue(c, settling)
      BY <2>1, <2>4 DEF ResolveTimingConflict
    <3> HIDE DEF settling
    <3> QED BY <1>1, <2>3, <3>1
  <2>5. CASE d # "discarded"
    <3>1. Continue(c, applying)
      BY <2>1, <2>5 DEF ResolveTimingConflict, row, first
    <3> HIDE DEF applying
    <3> QED BY <1>1, <2>2, <2>3, <3>1
  <2> QED BY <2>4, <2>5
<1>12. CASE Merge(c)
  <2> DEFINE v == FillBlanks(results[calls[c].athlete].value, calls[c].value)
  <2>1. Continue(c, [calls[c] EXCEPT !.value = v, !.at = "state"])
    BY <1>12 DEF Merge
  <2> HIDE DEF v
  <2>2. [calls[c] EXCEPT !.value = v, !.at = "state"].at = "state"
    BY <1>0 DEF CallStates
  <2> QED BY <1>1, <2>1, <2>2
<1>13. CASE ReadState(c)
  <2>1. ASSUME NEW step \in {"window", "wind"}, Continue(c, [calls[c] EXCEPT !.at = step]),
               step = "wind" => ~Announced
        PROVE Goal
    <3>1. [calls[c] EXCEPT !.at = step].at = step
      BY <1>0 DEF CallStates
    <3> QED BY <1>1, <1>2, <2>1, <3>1
  <2> QED BY <1>13, <2>1 DEF ReadState
<1>14. CASE \E a \in Athletes, v \in Entered, e \in BOOLEAN : CorrectResult(c, a, v, e)
  BY <1>1, <1>14 DEF CorrectResult, NoCall
<1>15. CASE CheckWindow(c)
  <2>1. CASE official /\ ~calls[c].escalated
    BY <1>3, <1>15, <2>1 DEF CheckWindow
  <2>2. CASE ~(official /\ ~calls[c].escalated)
    <3>1. Continue(c, [calls[c] EXCEPT !.at = "before"]) /\ At(c, "window")
      BY <1>15, <2>2 DEF CheckWindow
    <3>2. calls'[c] = [calls[c] EXCEPT !.at = "before"]
      BY <1>0, <3>1 DEF ResultsTypeOK, Continue
    <3>3. calls'[c].at = "before" /\ calls'[c].escalated = calls[c].escalated
      BY <1>0, <3>2 DEF CallStates
    <3>4. ~Cleared(c)' /\ \A d \in Calls : d # c => calls'[d] = calls[d]
      BY <1>0, <3>1, <3>3, OthersStay DEF Cleared
    <3> QED BY <2>2, <3>1, <3>3, <3>4 DEF InTime
  <2> QED BY <2>1, <2>2
<1>16. CASE ReadBefore(c)
  <2>1. CASE calls[c].value = Blank
    BY <1>3, <1>16, <2>1 DEF ReadBefore
  <2>2. CASE calls[c].value # Blank
    <3>1. Continue(c, [calls[c] EXCEPT !.wind = results[calls[c].athlete].wind, !.at = "amend"])
          /\ At(c, "before")
      BY <1>16, <2>2 DEF ReadBefore
    <3>2. calls'[c] = [calls[c] EXCEPT !.wind = results[calls[c].athlete].wind, !.at = "amend"]
      BY <1>0, <3>1 DEF ResultsTypeOK, Continue
    <3>3. calls'[c].at = "amend" /\ calls'[c].escalated = calls[c].escalated
      BY <1>0, <3>2 DEF CallStates
    <3>4. ~Cleared(c)' /\ \A d \in Calls : d # c => calls'[d] = calls[d]
      BY <1>0, <3>1, <3>3, OthersStay DEF Cleared
    <3> QED BY <1>16, <3>1, <3>3, <3>4 DEF InTime, At
  <2> QED BY <2>1, <2>2
<1>17. CASE ReadWind(c)
  <2> DEFINE call == [calls[c] EXCEPT !.wind = wind, !.at = "write"]
  <2>1. Continue(c, call) /\ Cleared(c)
    BY <1>17 DEF ReadWind, At, Cleared
  <2>2. call.at = "write"
    BY <1>0 DEF CallStates
  <2> HIDE DEF call
  <2>3. calls'[c] = call /\ \A d \in Calls : d # c => calls'[d] = calls[d]
    BY <1>0, <2>1, OthersStay
  <2> QED BY <1>17, <2>1, <2>2, <2>3 DEF InTime
<1>18. CASE Stored(c)
  <2>1. [calls[c] EXCEPT !.at = "settle"].at = "settle"
    BY <1>0 DEF CallStates
  <2> QED BY <1>1, <1>3, <1>4, <1>18, <2>1 DEF Stored
<1>19. CASE BulkDone(c) \/ ImportDone(c) \/ Abort(c) \/ Settle(c)
  BY <1>3, <1>19 DEF BulkDone, ImportDone, Abort, Settle
<1>20. CASE Write(c) \/ Amend(c)
  BY <1>18, <1>20 DEF Write, Amend
<1> QED BY <1>5, <1>6, <1>7, <1>8, <1>9, <1>10, <1>11, <1>12, <1>13, <1>14, <1>15, <1>16, <1>17,
           <1>19, <1>20
        DEF CallStep

\* A list nobody has passed the announcement check for is closed.
THEOREM AnnouncementCloses == ResultsSpec => AnnouncementClosesTheList
<1>1. ASSUME ResultsInv, [ResultsNext]_vars, Announced, \A c \in Calls : ~Cleared(c)
      PROVE  /\ \A c \in Calls : ~Cleared(c)'
             /\ ValuesStand \/ announced' = announced + 1
  <2>1. ASSUME NEW c \in Calls, CallStep(c)
        PROVE  /\ \A d \in Calls : ~Cleared(d)'
               /\ ValuesStand \/ announced' = announced + 1
    <3>1. \A d \in Calls : ~Cleared(d)'
      BY <1>1, <2>1, WhereNext DEF Cleared
    <3>2. ValuesStand \/ announced' = announced + 1
      BY <1>1, <2>1, WhoWrites DEF Cleared, At, Announce
    <3> QED BY <3>1, <3>2
  <2>2. CASE AnnounceUnitResults
    BY <1>1, <2>2 DEF AnnounceUnitResults, Announce, Cleared
  <2>3. CASE WindowElapses \/ UNCHANGED vars
    BY <1>1, <2>3 DEF WindowElapses, vars, unitVars, Cleared, ValuesStand
  <2>4. CASE \E w \in 1..MaxWind : SetUnitWind(w)
    BY <1>1, <2>4 DEF SetUnitWind, Cleared, ValuesStand, ResultsInv, ResultsTypeOK, Rows
  <2> QED BY <1>1, <2>1, <2>2, <2>3, <2>4 DEF ResultsNext
<1> QED BY ResultsInvariance, <1>1, PTL DEF ResultsSpec, AnnouncementClosesTheList

\* Past the protest window, no change without an escalation reference.
THEOREM EscalationIsNeeded == ResultsSpec => OfficialNeedsEscalation
<1>1. ASSUME ResultsInv, [ResultsNext]_vars, official, \A c \in Calls : ~Cleared(c) /\ ~InTime(c)
      PROVE  /\ official' => \A c \in Calls : ~Cleared(c)' /\ ~InTime(c)'
             /\ ValuesStand \/ \E c \in Calls : At(c, "amend") /\ calls[c].escalated
  <2>0. Announced
    BY <1>1 DEF ResultsInv, ResultsTypeOK, Announced
  <2>1. ASSUME NEW c \in Calls, CallStep(c)
        PROVE  /\ \A d \in Calls : ~Cleared(d)' /\ ~InTime(d)'
               /\ ValuesStand \/ \E d \in Calls : At(d, "amend") /\ calls[d].escalated
    <3>1. \A d \in Calls : ~Cleared(d)' /\ ~InTime(d)'
      BY <1>1, <2>0, <2>1, WhereNext DEF Cleared, InTime
    <3>2. ValuesStand \/ (At(c, "amend") /\ calls[c].escalated)
      BY <1>1, <2>1, WhoWrites DEF Cleared, InTime, At
    <3> QED BY <3>1, <3>2
  <2>2. CASE AnnounceUnitResults
    BY <1>1, <2>2 DEF AnnounceUnitResults, Announce, ValuesStand
  <2>3. CASE WindowElapses \/ UNCHANGED vars
    BY <1>1, <2>3 DEF WindowElapses, vars, unitVars, Cleared, InTime, ValuesStand
  <2>4. CASE \E w \in 1..MaxWind : SetUnitWind(w)
    BY <1>1, <2>4 DEF SetUnitWind, Cleared, InTime, ValuesStand, ResultsInv, ResultsTypeOK, Rows
  <2> QED BY <1>1, <2>1, <2>2, <2>3, <2>4 DEF ResultsNext
<1> QED BY ResultsInvariance, <1>1, PTL DEF ResultsSpec, OfficialNeedsEscalation

\* The steps of a bulk marking and of an import.
LEMMA WhoseStep ==
  ASSUME ResultsInv, NEW c \in Calls, CallStep(c), calls[c].kind \in {"bulk", "import"}
  PROVE  \/ calls'[c].kind = "none"
         \/ /\ calls[c].kind = "bulk"
            /\ UnresultedEntries(c) \/ \E a \in Athletes : BulkDNSOne(c, a)
         \/ /\ calls[c].kind = "import"
            /\ ImportRow(c) \/ ReadExisting(c) \/ QueueManual(c) \/ ReadWind(c) \/ Write(c)
<1>1. StepsOf(calls[c]) /\ ResultsTypeOK
  BY CallTypes DEF CallInv, ResultsInv
<1>2. CASE End(c)
  BY <1>1, <1>2 DEF End, NoCall, Continue, ResultsTypeOK
<1>3. CASE \/ BulkDone(c) \/ ImportDone(c) \/ Abort(c) \/ Settle(c)
  BY <1>2, <1>3 DEF BulkDone, ImportDone, Abort, Settle
<1>4. CASE \/ UnresultedEntries(c) \/ \E a \in Athletes : BulkDNSOne(c, a)
           \/ ImportRow(c) \/ ReadExisting(c) \/ QueueManual(c) \/ ReadWind(c) \/ Write(c)
  BY <1>1, <1>4
  DEF UnresultedEntries, BulkDNSOne, ImportRow, ReadExisting, QueueManual, ReadWind, Write,
      At, StepsOf
<1>5. ASSUME Idle(c) PROVE FALSE
  BY <1>5 DEF Idle
<1>6. ASSUME At(c, "merge") \/ At(c, "state") \/ At(c, "window") \/ At(c, "before")
             \/ At(c, "amend")
      PROVE  FALSE
  BY <1>1, <1>6 DEF At, StepsOf
<1> QED
  BY <1>3, <1>4, <1>5, <1>6
  DEF CallStep, SaveTrackResult, BulkMarkRemainingDNS, ImportTimingFile, ResolveTimingConflict,
      CorrectResult, Merge, ReadState, CheckWindow, ReadBefore, Amend

\* Other requests, and what is not a request's, leave a request as it is.
LEMMA OnlyItself ==
  ASSUME ResultsInv, [ResultsNext]_vars, NEW c \in Calls, calls'[c] # calls[c]
  PROVE  CallStep(c)
<1>1. ASSUME NEW d \in Calls, CallStep(d) PROVE c = d
  BY <1>1, WhereNext
<1>2. CASE AnnounceUnitResults \/ WindowElapses \/ UNCHANGED vars
  BY <1>2 DEF AnnounceUnitResults, WindowElapses, vars
<1>3. CASE \E w \in 1..MaxWind : SetUnitWind(w)
  BY <1>3 DEF SetUnitWind
<1> QED BY <1>1, <1>2, <1>3 DEF ResultsNext

\* The bulk marking stores a status only where nothing is, and leaves no
\* athlete it listed without a row.
THEOREM DNSFillsGaps == ResultsSpec => DNSOnlyFillsGaps
<1>1. ASSUME ResultsInv, [ResultsNext]_vars, NEW c \in Calls, NEW a \in Athletes,
             a \in calls[c].todo, calls'[c].kind = "bulk", a \notin calls'[c].todo
      PROVE  HasRow(a)' /\ (HasRow(a) => results'[a] = results[a])
  <2>1. calls[c] \in CallStates /\ calls[c].kind = "bulk" /\ ResultsTypeOK
    BY <1>1, CallTypes DEF CallInv, KnowsOf, ResultsInv
  <2>2. UnresultedEntries(c) \/ \E b \in Athletes : BulkDNSOne(c, b)
    BY <1>1, <2>1, OnlyItself, WhoseStep
  <2>3. CASE UnresultedEntries(c)
    <3> DEFINE gaps == {b \in Athletes : ~HasRow(b)}
    <3>1. calls'[c] = [calls[c] EXCEPT !.todo = gaps, !.at = "insert"]
      BY <2>1, <2>3 DEF UnresultedEntries, Continue, ResultsTypeOK
    <3>2. calls'[c].todo = gaps
      BY <2>1, <3>1 DEF CallStates
    <3> QED BY <1>1, <2>3, <3>2 DEF UnresultedEntries, Reads, HasRow
  <2>4. ASSUME NEW b \in Athletes, BulkDNSOne(c, b)
        PROVE  HasRow(a)' /\ (HasRow(a) => results'[a] = results[a])
    <3>1. calls'[c].todo = calls[c].todo \ {b}
      BY <2>1, <2>4 DEF BulkDNSOne, Continue, ResultsTypeOK, CallStates
    <3>2. a = b
      BY <1>1, <3>1
    <3> QED BY <2>1, <2>4, <3>2 DEF BulkDNSOne, InsertDNS, SaveResult, HasRow, Row, ResultsTypeOK
  <2> QED BY <2>2, <2>3, <2>4
<1>2. ResultsInv /\ [ResultsNext]_vars
        => \A c \in Calls, a \in Athletes :
             a \in calls[c].todo /\ calls'[c].kind = "bulk" /\ a \notin calls'[c].todo
             => HasRow(a)' /\ (HasRow(a) => results'[a] = results[a])
  BY <1>1
<1> QED BY ResultsInvariance, <1>2, PTL DEF ResultsSpec, DNSOnlyFillsGaps

\* An import gives up a row only to the queue or to the results, and passes
\* over no manual result it has seen.
THEOREM ImportIsLossless == ResultsSpec => ImportLosesNothing
<1>1. ASSUME ResultsInv, [ResultsNext]_vars, NEW c \in Calls, calls[c].kind = "import",
             calls'[c].kind = "import"
      PROVE  KeepsItsRow(c)
  <2> SUFFICES ASSUME calls[c].file # <<>> PROVE KeepsItsRow(c)
    BY DEF KeepsItsRow
  <2> DEFINE row == Head(calls[c].file)
  <2> USE DEF KeepsItsRow
  <2>1. /\ calls[c] \in CallStates /\ CallInv(calls[c], DOMAIN conflicts, written)
        /\ row \in FileRows /\ ResultsTypeOK
    BY <1>1, CallTypes, FileHead DEF ResultsInv
  <2>2. ASSUME NEW call, Continue(c, call) PROVE calls'[c] = call
    BY <2>1, <2>2, OthersStay
  <2>3. ASSUME NextRow(c) PROVE calls'[c].file = Tail(calls[c].file) /\ calls'[c].at = "row"
    <3> DEFINE call == [NoCall EXCEPT !.kind = "import", !.at = "row", !.file = Tail(calls[c].file)]
    <3>1. call.file = Tail(calls[c].file) /\ call.at = "row"
      BY DEF NoCall
    <3>2. Continue(c, call)
      BY <2>3 DEF NextRow
    <3> HIDE DEF call
    <3> QED BY <2>2, <3>1, <3>2
  <2>4. ASSUME NEW why \in Reasons, QueueTimingConflict(c, why) PROVE KeepsItsRow(c)
    BY <2>3, <2>4 DEF QueueTimingConflict
  <2>5. CASE ImportRow(c)
    <3>1. CASE row.problem # "" \/ Announced
      <4>1. "unit_announced" \in Reasons /\ (row.problem # "" => row.problem \in Reasons)
        BY <2>1, FileRowTypes DEF Reasons
      <4> QED BY <2>4, <2>5, <3>1, <4>1 DEF ImportRow
    <3>2. CASE ~(row.problem # "" \/ Announced)
      <4> DEFINE call == [calls[c] EXCEPT !.at = "existing", !.athlete = row.athlete,
                                          !.value = row.value]
      <4>1. call.file = calls[c].file /\ call.at = "existing"
        BY <2>1 DEF CallStates
      <4>2. Continue(c, call)
        BY <2>5, <3>2 DEF ImportRow
      <4> HIDE DEF call
      <4> QED BY <2>2, <4>1, <4>2
    <3> QED BY <3>1, <3>2
  <2>6. CASE ReadExisting(c)
    <3> DEFINE step == IF KeepsFromImport(results[calls[c].athlete]) THEN "queue" ELSE "wind"
               call == [calls[c] EXCEPT !.at = step]
    <3>1. call.file = calls[c].file /\ call.at = step
      BY <2>1 DEF CallStates
    <3>2. Continue(c, call)
      BY <2>6 DEF ReadExisting
    <3>3. calls[c].athlete = row.athlete
      BY <1>1, <2>1, <2>6 DEF ReadExisting, At, CallInv, KnowsOf
    <3>4. step = "wind" => ~ManualResult(results[row.athlete])
      BY <3>3 DEF KeepsFromImport
    <3> HIDE DEF call, step
    <3> QED BY <2>2, <3>1, <3>2, <3>4
  <2>7. CASE QueueManual(c)
    BY <2>4, <2>7 DEF QueueManual, Reasons
  <2>8. CASE ReadWind(c)
    <3> DEFINE call == [calls[c] EXCEPT !.wind = wind, !.at = "write"]
    <3>1. call.file = calls[c].file /\ calls[c].at = "wind"
      BY <2>1, <2>8 DEF CallStates, ReadWind, At
    <3>2. Continue(c, call)
      BY <2>8 DEF ReadWind
    <3> HIDE DEF call
    <3> QED BY <2>2, <3>1, <3>2
  <2>9. CASE Write(c)
    <3>1. /\ calls[c].athlete = row.athlete /\ calls[c].value = row.value
          /\ row.athlete \in Athletes
      BY <1>1, <2>1, <2>9 DEF Write, At, CallInv, KnowsOf
    <3>2. results'[row.athlete].value = row.value
      BY <2>1, <2>9, <3>1 DEF Write, SaveResult, Row, ResultsTypeOK
    <3>3. NextRow(c)
      BY <1>1, <2>9 DEF Write, Stored
    <3> QED BY <2>3, <3>2, <3>3
  <2>10. CASE calls'[c] = calls[c]
    BY <2>10
  <2> QED BY <1>1, <2>5, <2>6, <2>7, <2>8, <2>9, <2>10, OnlyItself, WhoseStep
<1>2. ResultsInv /\ [ResultsNext]_vars
        => \A c \in Calls :
             calls[c].kind = "import" /\ calls'[c].kind = "import" => KeepsItsRow(c)
  BY <1>1
<1> QED BY ResultsInvariance, <1>2, PTL DEF ResultsSpec, ImportLosesNothing

\* Which steps touch the queue of conflicts.
LEMMA WhoQueues ==
  ASSUME ResultsInv, [ResultsNext]_vars, conflicts' # conflicts
  PROVE  \/ \E row \in Conflicts : conflicts' = Append(conflicts, row)
         \/ \E c \in Calls : Settle(c)
<1>1. ASSUME NEW c \in Calls, NEW why \in Reasons, QueueTimingConflict(c, why),
             calls[c].file # <<>>
      PROVE  \E row \in Conflicts : conflicts' = Append(conflicts, row)
  BY <1>1, CallTypes, FileHead, FileRowTypes DEF QueueTimingConflict
<1>2. ASSUME NEW c \in Calls, ImportRow(c)
      PROVE  \E row \in Conflicts : conflicts' = Append(conflicts, row)
  <2>1. calls[c].file # <<>> /\ Head(calls[c].file) \in FileRows
    BY <1>2, CallTypes, FileHead DEF ImportRow
  <2>2. "unit_announced" \in Reasons
    BY DEF Reasons
  <2> QED BY <1>1, <1>2, <2>1, <2>2, FileRowTypes DEF ImportRow, Reads
<1>3. ASSUME NEW c \in Calls, QueueManual(c)
      PROVE  \E row \in Conflicts : conflicts' = Append(conflicts, row)
  <2>1. calls[c].file # <<>>
    BY <1>3, CallTypes DEF QueueManual, At, CallInv, StepsOf, KnowsOf
  <2> QED BY <1>1, <1>3, <2>1 DEF QueueManual, Reasons
<1>4. ASSUME NEW c \in Calls, CallStep(c)
      PROVE  ImportRow(c) \/ QueueManual(c) \/ Settle(c)
  BY <1>4
  DEF CallStep, SaveTrackResult, BulkMarkRemainingDNS, UnresultedEntries, BulkDNSOne, BulkDone,
      ImportTimingFile, ReadExisting, ImportDone, ResolveTimingConflict, Merge, ReadState,
      CorrectResult, CheckWindow, ReadBefore, Amend, ReadWind, Write, Abort, Reads
<1>5. ~(AnnounceUnitResults \/ WindowElapses \/ (\E w \in 1..MaxWind : SetUnitWind(w))
        \/ UNCHANGED vars)
  BY DEF AnnounceUnitResults, WindowElapses, SetUnitWind, vars
<1> QED BY <1>2, <1>3, <1>4, <1>5 DEF ResultsNext

\* A conflict stays, and is settled once, after its row is stored.
THEOREM ConflictsSettle == ResultsSpec => ConflictsSettleOnce
<1>1. ASSUME ResultsInv, [ResultsNext]_vars, NEW i \in DOMAIN conflicts
      PROVE  /\ i \in DOMAIN conflicts'
             /\ conflicts'[i] # conflicts[i]
                  => /\ conflicts[i].status = "pending"
                     /\ conflicts'[i].status \in {"replaced", "merged"} => i \in written
  <2>0. conflicts \in Seq(Conflicts)
    BY <1>1 DEF ResultsInv, ResultsTypeOK
  <2>1. ASSUME NEW row \in Conflicts, conflicts' = Append(conflicts, row)
        PROVE  i \in DOMAIN conflicts' /\ conflicts'[i] = conflicts[i]
    BY <2>0, <2>1, AppendProperties
  <2>2. ASSUME NEW c \in Calls, Settle(c)
        PROVE  /\ i \in DOMAIN conflicts'
               /\ conflicts'[i] # conflicts[i]
                    => /\ conflicts[i].status = "pending"
                       /\ conflicts'[i].status \in {"replaced", "merged"} => i \in written
    <3> DEFINE j == calls[c].item
    <3>1. /\ calls[c].at = "settle"
          /\ conflicts' = IF Settleable(j)
                          THEN [conflicts EXCEPT ![j].status = calls[c].decision] ELSE conflicts
      BY <2>2 DEF Settle, At
    <3>2. calls[c].decision # "discarded" => j \in written
      BY <1>1, <3>1, CallTypes DEF CallInv, ItemOf
    <3>3. conflicts[i] \in Conflicts
      BY <2>0, ElementOfSeq
    <3>4. CASE i = j /\ Settleable(j)
      <4>1. /\ i \in DOMAIN conflicts'
            /\ conflicts'[i] = [conflicts[i] EXCEPT !.status = calls[c].decision]
        BY <3>1, <3>4
      <4>2. conflicts'[i].status = calls[c].decision
        BY <3>3, <4>1 DEF Conflicts
      <4> QED BY <3>2, <3>4, <4>1, <4>2 DEF Settleable
    <3>5. CASE ~(i = j /\ Settleable(j))
      BY <3>1, <3>5
    <3> QED BY <3>4, <3>5
  <2> QED BY <1>1, <2>1, <2>2, WhoQueues
<1>2. ResultsInv /\ [ResultsNext]_vars
        => \A i \in DOMAIN conflicts :
             /\ i \in DOMAIN conflicts'
             /\ conflicts'[i] # conflicts[i]
                  => /\ conflicts[i].status = "pending"
                     /\ conflicts'[i].status \in {"replaced", "merged"} => i \in written
  BY <1>1
<1> QED BY ResultsInvariance, <1>2, PTL DEF ResultsSpec, ConflictsSettleOnce

\* No request comes to store a reading other than the unit's, save one that
\* read it before it changed or took it from an athlete without a mark.
THEOREM WindLagsOnly == ResultsSpec => WindDisagreesOnlyLate
<1> DEFINE Marked(a) == results[a].value.mark # 0
           Agrees(a) == results'[a].value.mark # 0 => results'[a].wind = wind'
           FromNoMark(c) == At(c, "before") /\ results[calls[c].athlete].value.mark = 0
           Goal == /\ MarksAgree'
                   /\ HeldAgree' \/ wind' # wind \/ \E c \in Calls : FromNoMark(c)
<1>1. ASSUME ResultsInv, [ResultsNext]_vars, MarksAgree, HeldAgree PROVE Goal
  <2>0. ResultsTypeOK
    BY <1>1 DEF ResultsInv
  <2>1. ASSUME NEW c \in Calls, CallStep(c) PROVE Goal
    <3>1. wind' = wind
      BY <2>1
      DEF CallStep, SaveTrackResult, BulkMarkRemainingDNS, UnresultedEntries, BulkDNSOne, BulkDone,
          ImportTimingFile, ImportRow, ReadExisting, QueueManual, QueueTimingConflict, ImportDone,
          ResolveTimingConflict, Merge, ReadState, Settle, CorrectResult, CheckWindow, ReadBefore,
          Amend, ReadWind, Write, Abort, Reads, unitVars
    <3>2. ASSUME NEW a \in Athletes, results'[a] # results[a] PROVE Agrees(a)
      <4>1. CASE \E b \in Athletes : BulkDNSOne(c, b)
        BY <2>0, <3>2, <4>1 DEF BulkDNSOne, InsertDNS, SaveResult, Row, ResultsTypeOK
      <4>2. CASE Write(c) \/ Amend(c)
        <5>1. calls[c].wind = wind
          BY <1>1, <4>2 DEF Write, Amend, At, HeldAgree
        <5>2. results'[a].wind = calls[c].wind
          BY <2>0, <3>2, <4>2 DEF Write, Amend, SaveResult, Row, ResultsTypeOK
        <5> QED BY <3>1, <5>1, <5>2
      <4>3. CASE results' = results
        BY <3>2, <4>3
      <4> QED
        BY <2>1, <4>1, <4>2, <4>3
        DEF CallStep, SaveTrackResult, BulkMarkRemainingDNS, UnresultedEntries, BulkDone,
            ImportTimingFile, ImportRow, ReadExisting, QueueManual, QueueTimingConflict,
            ImportDone, ResolveTimingConflict, Merge, ReadState, Settle, CorrectResult,
            CheckWindow, ReadBefore, ReadWind, Abort, Reads
    <3>3. MarksAgree'
      BY <1>1, <3>1, <3>2 DEF MarksAgree
    <3>4. ASSUME ~FromNoMark(c) PROVE HeldAgree'
      <4>1. ASSUME calls'[c].at \in {"write", "amend"} PROVE calls'[c].wind = wind
        <5>1. calls[c] \in CallStates /\ CallInv(calls[c], DOMAIN conflicts, written)
          BY <1>1, CallTypes
        <5>2. CASE ReadWind(c)
          BY <2>0, <5>1, <5>2 DEF ReadWind, Continue, ResultsTypeOK, CallStates
        <5>3. CASE ReadBefore(c)
          <6>1. calls[c].athlete \in Athletes /\ Marked(calls[c].athlete)
            BY <3>4, <5>1, <5>3 DEF ReadBefore, At, CallInv, KnowsOf
          <6>2. results[calls[c].athlete].wind = wind
            BY <1>1, <6>1 DEF MarksAgree
          <6>3. CASE calls[c].value = Blank
            <7>1. calls'[c] = NoCall
              BY <2>0, <5>3, <6>3 DEF ReadBefore, End, Continue, ResultsTypeOK
            <7>2. NoCall.at = "done"
              BY DEF NoCall
            <7> QED BY <4>1, <7>1, <7>2
          <6>4. CASE calls[c].value # Blank
            BY <2>0, <5>1, <5>3, <6>2, <6>4 DEF ReadBefore, Continue, ResultsTypeOK, CallStates
          <6> QED BY <6>3, <6>4
        <5> QED BY <1>1, <2>1, <4>1, <5>2, <5>3, WhereNext
      <4>2. \A d \in Calls : d # c => calls'[d] = calls[d]
        BY <1>1, <2>1, WhereNext
      <4> QED BY <1>1, <3>1, <4>1, <4>2 DEF HeldAgree
    <3> QED BY <3>3, <3>4
  <2>2. CASE AnnounceUnitResults \/ WindowElapses \/ UNCHANGED vars
    BY <1>1, <2>2 DEF AnnounceUnitResults, WindowElapses, vars, unitVars, MarksAgree, HeldAgree
  <2>3. ASSUME NEW w \in 1..MaxWind, SetUnitWind(w) PROVE Goal
    <3>1. ASSUME NEW a \in Athletes PROVE Agrees(a)
      <4>1. CASE HasRow(a)
        BY <2>0, <2>3, <4>1 DEF SetUnitWind, ResultsTypeOK, Rows
      <4>2. CASE ~HasRow(a)
        <5>1. results'[a] = NoRow
          BY <2>0, <2>3, <4>2 DEF SetUnitWind, ResultsTypeOK
        <5>2. NoRow.value.mark = 0
          BY DEF NoRow, Blank
        <5> QED BY <5>1, <5>2
      <4> QED BY <4>1, <4>2
    <3>2. wind' = wind => HeldAgree'
      BY <1>1, <2>3 DEF SetUnitWind, HeldAgree
    <3> QED BY <3>1, <3>2 DEF MarksAgree
  <2> QED BY <1>1, <2>1, <2>2, <2>3 DEF ResultsNext
<1> QED BY ResultsInvariance, <1>1, PTL DEF ResultsSpec, WindDisagreesOnlyLate
=============================================================================
