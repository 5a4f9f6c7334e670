----------------------------- MODULE UnitResults -----------------------------
(***************************************************************************)
(* The results of one track unit (capture.go, protest.go, exchange.go):    *)
(* operators capture times, the office marks the missing as DNS, imports   *)
(* timing files, resolves the rows an import could not place, announces    *)
(* the list and corrects it.                                               *)
(*                                                                         *)
(* The store has one connection: a transaction, or a statement outside     *)
(* one, is a step. Every call reads what decides it in statements of their *)
(* own and writes in a later transaction, so anything may happen between.  *)
(* A call that fails or dies (Abort) leaves what it committed.             *)
(*                                                                         *)
(* A mark stands for a time with its timing method. Points, record flags,  *)
(* lanes, the audit log and row versions are left out: no route asks for   *)
(* the version check of SaveTrackResult.                                   *)
(***************************************************************************)
EXTENDS Integers, Sequences, FiniteSets

CONSTANTS
  Athletes,      \* entrants of the unit
  NoAthlete,     \* a bib the meet does not know
  Calls,         \* requests that can be in flight
  Codes,         \* CR 25 statuses
  MaxMark,       \* marks are 1..MaxMark
  MaxWind,       \* wind readings are 1..MaxWind; 0 on a discipline without wind
  MaxRows,       \* bound on the rows of a timing file
  MaxConflicts,  \* bound on queued rows
  MaxAnnounce    \* bound on announcements

ASSUME AthletesAssumption == NoAthlete \notin Athletes
ASSUME CodesAssumption == "" \notin Codes /\ "DNS" \in Codes
ASSUME ResultBoundsAssumption ==
  /\ MaxMark \in Nat /\ MaxWind \in Nat /\ MaxRows \in Nat
  /\ MaxConflicts \in Nat /\ MaxAnnounce \in Nat

VARIABLES
  results,    \* results: the row of each athlete
  wind,       \* unit_wind; 0: not recorded
  announced,  \* result_announcements: the latest sequence number
  official,   \* the protest window of the latest announcement has elapsed
  conflicts,  \* timing_import_conflicts, in the order they were queued
  calls,      \* what each request is doing
  written     \* history: the conflicts whose row has reached results

unitVars == <<wind, announced, official>>
vars == <<results, unitVars, conflicts, calls, written>>

-----------------------------------------------------------------------------
Marks == 0..MaxMark                             \* 0: none
Winds == 0..MaxWind                             \* 0: none
Values == [mark : Marks, status : Codes \union {""}]
Blank == [mark |-> 0, status |-> ""]
\* A captured or corrected value is a mark or a status; a timing row may be blank.
Entered == {v \in Values : (v.mark = 0) # (v.status = "")}

Sources == {"none", "manual", "import"}
Rows == [value : Values, wind : Winds, source : Sources]
NoRow == [value |-> Blank, wind |-> 0, source |-> "none"]
HasRow(a) == results[a].source # "none"
Row(v, w, s) == [value |-> v, wind |-> w, source |-> s]

\* A row of a timing file: an athlete, a value (which may be blank), and what
\* keeps it from being placed. The value of a row that names no unit is never used.
Problems == {"", "unresolved_unit", "unknown_bib", "unmapped_status"}
FileRows ==
  {r \in [athlete : Athletes \union {NoAthlete}, value : Values, problem : Problems] :
     /\ r.problem \in {"unmapped_status", "unresolved_unit"} => r.value = Blank
     /\ (r.athlete = NoAthlete) <=> (r.problem \in {"unresolved_unit", "unknown_bib"})
     /\ r.value.mark = 0 \/ r.value.status = ""}

Reasons == (Problems \ {""}) \union {"unit_announced", "existing_manual_result"}
\* "discarded" is also a conflict the office kept the existing result of: the
\* two settle alike.
Resolutions == {"discarded", "replaced", "merged"}
Conflicts ==
  [athlete : Athletes \union {NoAthlete}, value : Values, reason : Reasons,
   status : Resolutions \union {"pending"}]
Queued(r, why) ==
  [athlete |-> r.athlete, value |-> r.value, reason |-> why, status |-> "pending"]

Kinds == {"capture", "bulk", "import", "resolve", "correct"}
Steps == {"wind", "write", "list", "insert", "row", "existing", "queue", "merge",
          "state", "window", "before", "amend", "settle"}
CallStates ==
  [kind : Kinds \union {"none"}, at : Steps \union {"done"},
   athlete : Athletes \union {NoAthlete}, value : Values,
   wind : Winds,                      \* the reading to store, as last read
   todo : SUBSET Athletes,            \* bulk: athletes listed without a result
   file : Seq(FileRows),              \* import: rows still to be handled
   item : 0..MaxConflicts,            \* resolve: the conflict, 0 for other calls
   decision : Resolutions \union {""},
   escalated : BOOLEAN]               \* an escalation reference was given

NoCall ==
  [kind |-> "none", at |-> "done", athlete |-> NoAthlete, value |-> Blank,
   wind |-> 0, todo |-> {}, file |-> <<>>, item |-> 0,
   decision |-> "", escalated |-> FALSE]

ResultsTypeOK ==
  /\ results \in [Athletes -> Rows]
  /\ wind \in Winds /\ announced \in 0..MaxAnnounce /\ official \in BOOLEAN
  /\ conflicts \in Seq(Conflicts) /\ Len(conflicts) <= MaxConflicts
  /\ calls \in [Calls -> CallStates]
  /\ written \subseteq DOMAIN conflicts
  /\ official => announced > 0
  /\ \A a \in Athletes : ~HasRow(a) => results[a] = NoRow

ResultsInit ==
  /\ results = [a \in Athletes |-> NoRow]
  /\ wind = 0 /\ announced = 0 /\ official = FALSE
  /\ conflicts = <<>>
  /\ calls = [c \in Calls |-> NoCall]
  /\ written = {}

-----------------------------------------------------------------------------
(* What the calls have in common. *)

Idle(c) == calls[c].kind = "none"
At(c, step) == calls[c].at = step
Continue(c, call) == calls' = [calls EXCEPT ![c] = call]
End(c) == Continue(c, NoCall)
Announced == announced > 0

\* The database read nothing but this call sees.
Reads == UNCHANGED <<results, unitVars, conflicts, written>>

\* SaveResultWithSource: insert or replace, whatever is there.
SaveResult(a, v, w, source) ==
  results' = [results EXCEPT ![a] = Row(v, w, source)]

\* An import turns to its next row.
NextRow(c) ==
  Continue(c, [NoCall EXCEPT !.kind = "import", !.at = "row", !.file = Tail(calls[c].file)])

\* What a call does once its row is stored.
Stored(c) ==
  IF calls[c].kind = "resolve" THEN Continue(c, [calls[c] EXCEPT !.at = "settle"])
  ELSE IF calls[c].kind = "import" THEN NextRow(c)
  ELSE End(c)

\* A request fails, or the server dies: what is committed stays.
Abort(c) ==
  /\ ~Idle(c)
  /\ End(c)
  /\ Reads

\* GetUnitWind: every mark carries the unit's reading.
ReadWind(c) ==
  /\ At(c, "wind")
  /\ Continue(c, [calls[c] EXCEPT !.wind = wind, !.at = "write"])
  /\ Reads

\* The transaction of SaveTrackResult or of applyTimingRow.
Write(c) ==
  /\ At(c, "write")
  /\ SaveResult(calls[c].athlete, calls[c].value, calls[c].wind,
                IF calls[c].kind = "capture" THEN "manual" ELSE "import")
  /\ written' = written \union ({calls[c].item} \ {0})
  /\ Stored(c)
  /\ UNCHANGED <<unitVars, conflicts>>

-----------------------------------------------------------------------------
(* Capture. *)

\* SaveTrackResult up to requireNotAnnounced.
SaveTrackResult(c, a, v) ==
  /\ Idle(c)
  /\ ~Announced
  /\ Continue(c, [NoCall EXCEPT !.kind = "capture", !.at = "wind", !.athlete = a,
                                !.value = v])
  /\ Reads

\* BulkMarkRemainingDNS up to requireNotAnnounced.
BulkMarkRemainingDNS(c) ==
  /\ Idle(c)
  /\ ~Announced
  /\ Continue(c, [NoCall EXCEPT !.kind = "bulk", !.at = "list"])
  /\ Reads

UnresultedEntries(c) ==
  /\ At(c, "list")
  /\ Continue(c, [calls[c] EXCEPT !.todo = {a \in Athletes : ~HasRow(a)}, !.at = "insert"])
  /\ Reads

\* SaveResultOptimistic with version 0: a row that is there wins.
InsertDNS(a) ==
  IF HasRow(a) THEN UNCHANGED results
  ELSE SaveResult(a, [mark |-> 0, status |-> "DNS"], 0, "manual")

BulkDNSOne(c, a) ==
  /\ At(c, "insert")
  /\ a \in calls[c].todo
  /\ InsertDNS(a)
  /\ Continue(c, [calls[c] EXCEPT !.todo = @ \ {a}])
  /\ UNCHANGED <<unitVars, conflicts, written>>

BulkDone(c) ==
  /\ At(c, "insert")
  /\ calls[c].todo = {}
  /\ End(c)
  /\ Reads

-----------------------------------------------------------------------------
(* The import of a timing file. *)

ImportTimingFile(c, file) ==
  /\ Idle(c)
  /\ Continue(c, [NoCall EXCEPT !.kind = "import", !.at = "row", !.file = file])
  /\ Reads

\* queueTimingConflict, and on to the next row.
QueueTimingConflict(c, why) ==
  /\ Len(conflicts) < MaxConflicts
  /\ conflicts' = Append(conflicts, Queued(Head(calls[c].file), why))
  /\ NextRow(c)
  /\ UNCHANGED <<results, unitVars, written>>

\* A row with a problem is queued; for another, timingWriteConflict reads the
\* announcement. A list announced stays so, so that read and the queueing it
\* leads to are one step.
ImportRow(c) ==
  LET row == Head(calls[c].file)
  IN  /\ At(c, "row") /\ calls[c].file # <<>>
      /\ IF row.problem # "" THEN QueueTimingConflict(c, row.problem)
         ELSE IF Announced THEN QueueTimingConflict(c, "unit_announced")
         ELSE /\ Continue(c, [calls[c] EXCEPT !.at = "existing", !.athlete = row.athlete,
                                              !.value = row.value])
              /\ Reads

ManualResult(row) == row.source = "manual" /\ row.value # Blank

\* Mutant of KeepsFromImport: a manual status is no result.
KeepsFromImport_MarksOnly(row) == row.source = "manual" /\ row.value.mark # 0

\* The rest of timingWriteConflict: a manual result keeps its row.
KeepsFromImport(row) == ManualResult(row)

ReadExisting(c) ==
  /\ At(c, "existing")
  /\ Continue(c, [calls[c] EXCEPT !.at =
       IF KeepsFromImport(results[calls[c].athlete]) THEN "queue" ELSE "wind"])
  /\ Reads

QueueManual(c) ==
  /\ At(c, "queue")
  /\ QueueTimingConflict(c, "existing_manual_result")

\* Every row handled, the batch's counts are recorded.
ImportDone(c) ==
  /\ At(c, "row") /\ calls[c].file = <<>>
  /\ End(c)
  /\ Reads

-----------------------------------------------------------------------------
(* The resolution of a queued row. *)

\* The row a "replace" or "merge" of conflict i applies, and to whom.
Resolved(i, a, code) ==
  [athlete |-> IF conflicts[i].athlete = NoAthlete THEN a ELSE conflicts[i].athlete,
   value |-> IF conflicts[i].reason = "unmapped_status"
             THEN [mark |-> conflicts[i].value.mark, status |-> code]
             ELSE conflicts[i].value]

\* ResolveTimingConflict up to the first read of the unit. It does not look at
\* the status of the conflict.
ResolveTimingConflict(c, i, decision, a, code, escalated) ==
  LET row == Resolved(i, a, code)
      call == [NoCall EXCEPT !.kind = "resolve", !.item = i, !.decision = decision,
                             !.escalated = escalated]
  IN  /\ Idle(c)
      /\ IF decision = "discarded"
         THEN Continue(c, [call EXCEPT !.at = "settle"])
         ELSE /\ conflicts[i].reason # "unresolved_unit"
              /\ Continue(c, [call EXCEPT
                   !.at = IF decision = "merged" THEN "merge" ELSE "state",
                   !.athlete = row.athlete, !.value = row.value])
      /\ Reads

\* mergeTimingRowFillBlanks
FillBlanks(existing, v) ==
  [mark |-> IF existing.mark # 0 THEN existing.mark ELSE v.mark,
   status |-> IF existing.status # "" THEN existing.status ELSE v.status]

Merge(c) ==
  /\ At(c, "merge")
  /\ Continue(c, [calls[c] EXCEPT
       !.value = FillBlanks(results[calls[c].athlete].value, @), !.at = "state"])
  /\ Reads

\* An announced list takes the correction flow.
ReadState(c) ==
  /\ At(c, "state")
  /\ Continue(c, [calls[c] EXCEPT !.at = IF Announced THEN "window" ELSE "wind"])
  /\ Reads

\* WHERE status = 'pending'
Settleable(i) == conflicts[i].status = "pending"

\* Store.ResolveTimingImportConflict; a conflict settled before is an error.
Settle(c) ==
  LET i == calls[c].item
  IN  /\ At(c, "settle")
      /\ conflicts' = IF Settleable(i)
                      THEN [conflicts EXCEPT ![i].status = calls[c].decision] ELSE conflicts
      /\ End(c)
      /\ UNCHANGED <<results, unitVars, written>>

-----------------------------------------------------------------------------
(* Correction, announcement and wind. *)

CorrectResult(c, a, v, escalated) ==
  /\ Idle(c)
  /\ Continue(c, [NoCall EXCEPT !.kind = "correct", !.at = "window", !.athlete = a,
                                !.value = v, !.escalated = escalated])
  /\ Reads

\* Mutant of CheckWindow: an official result is corrected like another.
CheckWindow_Unchecked(c) ==
  /\ At(c, "window")
  /\ Continue(c, [calls[c] EXCEPT !.at = "before"])
  /\ Reads

\* An official result is corrected only with an escalation reference.
CheckWindow(c) ==
  /\ At(c, "window")
  /\ IF official /\ ~calls[c].escalated THEN End(c)
     ELSE Continue(c, [calls[c] EXCEPT !.at = "before"])
  /\ Reads

\* A correction needs a mark or a status.
ReadBefore(c) ==
  /\ At(c, "before")
  /\ IF calls[c].value = Blank THEN End(c)
     ELSE Continue(c, [calls[c] EXCEPT !.wind = results[calls[c].athlete].wind, !.at = "amend"])
  /\ Reads

\* A correction with a status carries no mark.
Corrected(v) == IF v.status # "" THEN [v EXCEPT !.mark = 0] ELSE v

\* AnnounceUnit: the next sequence number opens a new protest window.
Announce ==
  /\ announced < MaxAnnounce
  /\ announced' = announced + 1
  /\ official' = FALSE

\* Mutant of Amend: the amended list is not announced.
Amend_Quietly(c) ==
  /\ At(c, "amend")
  /\ SaveResult(calls[c].athlete, Corrected(calls[c].value), calls[c].wind, "manual")
  /\ written' = written \union ({calls[c].item} \ {0})
  /\ Stored(c)
  /\ UNCHANGED <<unitVars, conflicts>>

\* The transaction of CorrectResult; the wind is the replaced row's.
Amend(c) ==
  /\ At(c, "amend")
  /\ SaveResult(calls[c].athlete, Corrected(calls[c].value), calls[c].wind, "manual")
  /\ Announce
  /\ written' = written \union ({calls[c].item} \ {0})
  /\ Stored(c)
  /\ UNCHANGED <<wind, conflicts>>

AnnounceUnitResults ==
  /\ Announce
  /\ UNCHANGED <<results, wind, conflicts, calls, written>>

\* Mutant of WindowElapses: the window of a list never announced elapses.
WindowElapses_Unannounced ==
  /\ ~official
  /\ official' = TRUE
  /\ UNCHANGED <<results, wind, announced, conflicts, calls, written>>

\* Thirty minutes after the latest announcement (ComputeProtestState).
WindowElapses ==
  /\ Announced /\ ~official
  /\ official' = TRUE
  /\ UNCHANGED <<results, wind, announced, conflicts, calls, written>>

\* Mutant of SetUnitWind: the settled rows keep their reading.
SetUnitWind_UnitOnly(w) ==
  /\ wind' = w
  /\ UNCHANGED <<results, announced, official, conflicts, calls, written>>

\* The reading, and every settled row with it.
SetUnitWind(w) ==
  /\ wind' = w
  /\ results' = [a \in Athletes |->
                   IF HasRow(a) THEN [results[a] EXCEPT !.wind = w] ELSE results[a]]
  /\ UNCHANGED <<announced, official, conflicts, calls, written>>

-----------------------------------------------------------------------------
CallStep(c) ==
  \/ \E a \in Athletes, v \in Entered : SaveTrackResult(c, a, v)
  \/ BulkMarkRemainingDNS(c) \/ UnresultedEntries(c)
  \/ \E a \in Athletes : BulkDNSOne(c, a)
  \/ BulkDone(c)
  \/ \E n \in 1..MaxRows : \E file \in [1..n -> FileRows] : ImportTimingFile(c, file)
  \/ ImportRow(c) \/ ReadExisting(c) \/ QueueManual(c) \/ ImportDone(c)
  \/ \E i \in DOMAIN conflicts, d \in Resolutions, a \in Athletes, s \in Codes, e \in BOOLEAN :
       ResolveTimingConflict(c, i, d, a, s, e)
  \/ Merge(c) \/ ReadState(c) \/ Settle(c)
  \/ \E a \in Athletes, v \in Entered, e \in BOOLEAN : CorrectResult(c, a, v, e)
  \/ CheckWindow(c) \/ ReadBefore(c) \/ Amend(c)
  \/ ReadWind(c) \/ Write(c)
  \/ Abort(c)

ResultsNext ==
  \/ \E c \in Calls : CallStep(c)
  \/ AnnounceUnitResults
  \/ WindowElapses
  \/ \E w \in 1..MaxWind : SetUnitWind(w)

ResultsSpec == ResultsInit /\ [][ResultsNext]_vars

-----------------------------------------------------------------------------
(* Properties. *)

\* Calls that found the list unannounced and have yet to write to it.
Cleared(c) == calls[c].at \in {"list", "insert", "existing", "wind", "write"}

ValuesStand == \A a \in Athletes : results'[a].value = results[a].value

\* Once a list is announced and the calls that found it unannounced are over,
\* it stays so: whatever else is under way, a mark or status changes only in a
\* transaction that announces the amended list (requireNotAnnounced,
\* CorrectResult).
AnnouncementClosesTheList ==
  [][Announced /\ (\A c \in Calls : ~Cleared(c))
       => /\ \A c \in Calls : ~Cleared(c)'
          /\ ValuesStand \/ announced' = announced + 1]_vars

\* Calls that found the protest window open and have yet to amend the list.
InTime(c) == calls[c].at \in {"before", "amend"} /\ ~calls[c].escalated

\* Once the protest window has elapsed on an announced list and the calls
\* begun before are over, only a call with an escalation reference changes a
\* mark or a status (CorrectResult).
OfficialNeedsEscalation ==
  [][official /\ (\A c \in Calls : ~Cleared(c) /\ ~InTime(c))
       => /\ official' => \A c \in Calls : ~Cleared(c)' /\ ~InTime(c)'
          /\ ValuesStand \/ \E c \in Calls : At(c, "amend") /\ calls[c].escalated]_vars

\* "Mark the remaining as DNS" leaves every athlete it listed with a result,
\* and one that had a result by then with that result, whoever stored it
\* meanwhile (bulkDNSOne).
DNSOnlyFillsGaps ==
  [][\A c \in Calls, a \in Athletes :
       a \in calls[c].todo /\ calls'[c].kind = "bulk" /\ a \notin calls'[c].todo
       => HasRow(a)' /\ (HasRow(a) => results'[a] = results[a])]_vars

\* The first row of an import's file is still to do, or queued, or stored.
KeepsItsRow(c) ==
  LET row == Head(calls[c].file)
  IN  calls[c].file # <<>>
      => /\ \/ calls'[c].file = calls[c].file
            \/ /\ calls'[c].file = Tail(calls[c].file)
               /\ \/ \E why \in Reasons : conflicts' = Append(conflicts, Queued(row, why))
                  \/ results'[row.athlete].value = row.value
         /\ calls'[c].at = "wind" /\ calls[c].at # "wind"
              => ~ManualResult(results[row.athlete])

\* Each row an import is done with either waits for the office, or is the
\* athlete's result; and then no manual result was there when the import looked
\* (ImportTimingFile: never silently applied, never silently dropped).
ImportLosesNothing ==
  [][\A c \in Calls : calls[c].kind = "import" /\ calls'[c].kind = "import"
                      => KeepsItsRow(c)]_vars

\* A conflict is never lost, is settled once, and is settled as replaced or
\* merged only after its row has reached the results
\* (Store.ResolveTimingImportConflict).
ConflictsSettleOnce ==
  [][\A i \in DOMAIN conflicts :
       /\ i \in DOMAIN conflicts'
       /\ conflicts'[i] # conflicts[i]
            => /\ conflicts[i].status = "pending"
               /\ conflicts'[i].status \in {"replaced", "merged"} => i \in written]_vars

MarksAgree == \A a \in Athletes : results[a].value.mark # 0 => results[a].wind = wind
HeldAgree == \A c \in Calls : calls[c].at \in {"write", "amend"} => calls[c].wind = wind

\* While no call is about to store another reading, every mark keeps carrying
\* the unit's. A call comes to hold another one in two ways only: the reading
\* changes after the call took it, or a correction takes it from an athlete
\* without a mark (SetUnitWind, SaveTrackResult, CorrectResult).
WindDisagreesOnlyLate ==
  [][MarksAgree /\ HeldAgree
       => /\ MarksAgree'
          /\ \/ HeldAgree'
             \/ wind' # wind
             \/ \E c \in Calls : At(c, "before") /\ results[calls[c].athlete].value.mark = 0]_vars

\* False: a row the office has discarded is not among the results. A second
\* request on the conflict writes before the store refuses it.
DiscardedMeansUnwritten ==
  \A i \in DOMAIN conflicts : conflicts[i].status = "discarded" => i \notin written

\* False: a merge erases no mark and no status. On an announced list it goes
\* through a correction, and a correction with a status carries no mark.
MergeErasesNothing ==
  [][\A c \in Calls :
       calls[c].decision = "merged" /\ calls[c].at # "settle" /\ calls'[c].at = "settle"
       => LET old == results[calls[c].athlete].value
              new == results'[calls[c].athlete].value
          IN  new = FillBlanks(old, new)]_vars
=============================================================================
