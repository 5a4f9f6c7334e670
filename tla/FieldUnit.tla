------------------------------ MODULE FieldUnit ------------------------------
(***************************************************************************)
(* One unit of a field event, horizontal (distance) or vertical (height):  *)
(* operators capture trials, the office sets up the bar heights, announces *)
(* and corrects, and everybody reads standings computed from the trials    *)
(* (capture.go, verticaljump.go, attempt.go, vertical.go).                 *)
(*                                                                         *)
(* A trial is addressed by its place in the series: the trial number, and  *)
(* for heights 3 * height index + trial number, so that the order of the   *)
(* places is the order of both. A transaction, or a statement outside one, *)
(* is a step; a request that fails or dies (Abort) leaves what it          *)
(* committed. Points, records, per-trial wind and the audit log are left   *)
(* out; the protest window is in UnitResults.                              *)
(***************************************************************************)
EXTENDS Integers, Sequences, FiniteSets, FiniteSetsExt

CONSTANTS
  Athletes,      \* entrants
  NoAthlete,     \* the athlete of no request
  Calls,         \* requests that can be in flight
  MaxMark,       \* distances and heights are 1..MaxMark
  Trials,        \* CaptureConfig.Attempts
  CutAfter,      \* CaptureConfig.CutAfter, 0 without a cut
  CutTo,         \* CaptureConfig.CutTo
  MaxHeights,    \* bound on the length of a progression
  Progressions,  \* the bar heights the office may set up
  OneFirstForm,  \* the office never has two set-up forms open on an unset unit
  MaxCaptures,   \* bound on captures, those in flight included
  MaxVersion,    \* bound on the versions of a trial
  MaxSets,       \* bound on the versions of the progression
  MaxCorrected,  \* bound on corrected athletes
  Announceable   \* FALSE bounds a behaviour to what precedes the announcement

ASSUME FieldBoundsAssumption ==
  /\ MaxMark \in Nat /\ Trials \in Nat \ {0} /\ CutAfter \in Nat /\ CutTo \in Nat
  /\ MaxHeights \in Nat /\ MaxCaptures \in Nat /\ MaxVersion \in Nat /\ MaxSets \in Nat
  /\ MaxCorrected \in Nat
ASSUME AthletesAssumption == IsFiniteSet(Athletes)
ASSUME ProgressionsAssumption ==
  Progressions \subseteq {p \in Seq(1..MaxMark) : Len(p) \in 1..MaxHeights}
ASSUME FormsAssumption == OneFirstForm \in BOOLEAN /\ Announceable \in BOOLEAN

VARIABLES
  family,     \* the discipline's family
  heights,    \* vertical_unit_config: the progression and the row's version
  trials,     \* attempts or vertical_trials: per athlete and place
  results,    \* results: the row of each athlete
  announced,  \* result_announcements holds a row of the unit
  calls       \* what each request is doing

vars == <<family, heights, trials, results, announced, calls>>

-----------------------------------------------------------------------------
(* A series: what one athlete has done. *)

Vertical == family = "vertical"
Places == 1..(IF Trials > 3 * MaxHeights THEN Trials ELSE 3 * MaxHeights)
AtHeight(h) == (3 * h + 1)..(3 * h + 3)     \* WA TR26.3: three trials per height
HeightIdxs == 0..(MaxHeights - 1)

\* A valid trial is a distance, or a clearance ("O", no mark of its own).
Captured ==
  [kind : {"valid"}, mark : IF Vertical THEN {0} ELSE 1..MaxMark]
    \union [kind : {"X", "-", "r"}, mark : {0}]
Nothing == [kind |-> "none", mark |-> 0]
TrialRow(value, v) == [kind |-> value.kind, mark |-> value.mark, version |-> v]
NoTrial == TrialRow(Nothing, 0)
TrialKinds == {"valid", "X", "-", "r"}
TrialRows == [kind : TrialKinds \union {"none"}, mark : 0..MaxMark, version : 0..MaxVersion]

NoSeries == [p \in Places |-> NoTrial]
PlacesOf(s, kind) == {p \in Places : s[p].kind = kind}
Taken(s) == Places \ PlacesOf(s, "none")
Valid(s) == PlacesOf(s, "valid")
Retired(s) == PlacesOf(s, "r") # {}

\* Best and BestHeightIdx: for a series with a valid trial.
Best(s) == Max({s[p].mark : p \in Valid(s)})
BestIdx(s) == Max({h \in HeightIdxs : AtHeight(h) \intersect Valid(s) # {}})

AttemptsAt(s, h) == Cardinality(AtHeight(h) \intersect Taken(s))
TotalFailures(s) == Cardinality(PlacesOf(s, "X"))

\* Mutant of SeriesStatus: a series of failures has the failure's symbol.
SeriesStatus_Symbol(s) ==
  IF Retired(s) THEN "r"
  ELSE IF Valid(s) = {} /\ Taken(s) # {} THEN "X"
  ELSE ""

\* FieldSeries.Status and VerticalSeries.Status.
SeriesStatus(s) ==
  IF Retired(s) THEN "r"
  ELSE IF Valid(s) = {} /\ Taken(s) # {} THEN "NM"
  ELSE ""

-----------------------------------------------------------------------------
(* Ranking: RankFieldSeries and RankVertical. *)

\* The places with a valid distance, the best first.
PlacesDesc(s) ==
  CHOOSE row \in [1..Cardinality(Valid(s)) -> Valid(s)] :
    \A i, j \in DOMAIN row : i < j => row[i] # row[j] /\ s[row[i]].mark >= s[row[j]].mark

\* Their distances; a missing one is worse than any.
MarksDesc(s) == [i \in 1..Cardinality(Valid(s)) |-> s[PlacesDesc(s)[i]].mark]
MarkAt(marks, i) == IF i \in DOMAIN marks THEN marks[i] ELSE -1

\* Mutant of AheadOnMarks: a missing next-best mark ties.
AheadOnMarks_MissingTies(s, t) ==
  LET a == MarksDesc(s)
      b == MarksDesc(t)
  IN  \/ b = <<>> /\ a # <<>>
      \/ \E i \in DOMAIN a \intersect DOMAIN b :
           a[i] > b[i] /\ \A j \in 1..(i - 1) : a[j] = b[j]

\* compareMarks: the best that differs decides.
AheadOnMarks(s, t) ==
  LET a == MarksDesc(s)
      b == MarksDesc(t)
  IN  \E i \in Places :
        /\ MarkAt(a, i) > MarkAt(b, i)
        /\ \A j \in 1..(i - 1) : MarkAt(a, j) = MarkAt(b, j)

\* compareVertical: the height, then attempts at it, then failures.
AheadOnHeights(s, t) ==
  \/ Valid(s) # {} /\ Valid(t) = {}
  \/ /\ Valid(s) # {} /\ Valid(t) # {}
     /\ LET h == BestIdx(s)
            k == BestIdx(t)
        IN  \/ h > k
            \/ h = k /\ AttemptsAt(s, h) < AttemptsAt(t, k)
            \/ h = k /\ AttemptsAt(s, h) = AttemptsAt(t, k) /\ TotalFailures(s) < TotalFailures(t)

Ahead(s, t) == IF Vertical THEN AheadOnHeights(s, t) ELSE AheadOnMarks(s, t)

\* The athletes sorted by their series. The code breaks ties by id, which no
\* rank depends on.
Listing(series) ==
  CHOOSE row \in [1..Cardinality(Athletes) -> Athletes] :
    \A i, j \in DOMAIN row : i < j => row[i] # row[j] /\ ~Ahead(series[row[j]], series[row[i]])

\* Place in the listing, shared with whoever the one before ties with; 0
\* without a valid trial.
Ranks(series) ==
  LET row == Listing(series)
      rank[i \in DOMAIN row] ==
        IF Valid(series[row[i]]) = {} THEN 0
        ELSE IF i > 1 /\ ~Ahead(series[row[i - 1]], series[row[i]]) THEN rank[i - 1]
        ELSE i
  IN  [a \in Athletes |-> rank[CHOOSE i \in DOMAIN row : row[i] = a]]

\* Mutant of Continuers: the first CutTo of the listing.
Continuers_NoTies ==
  IF CutAfter = 0 \/ (\E a \in Athletes : Cardinality(Taken(trials[a])) < CutAfter) THEN {}
  ELSE LET row == Listing(trials)
       IN  {row[i] : i \in {j \in 1..Cardinality(Athletes) :
              j <= CutTo /\ Valid(trials[row[j]]) # {} /\ ~Retired(trials[row[j]])}}

\* FieldContinuation, once everybody has taken the trials before the cut.
Continuers ==
  IF CutAfter = 0 \/ (\E a \in Athletes : Cardinality(Taken(trials[a])) < CutAfter) THEN {}
  ELSE LET rank == Ranks(trials)
       IN  {a \in Athletes : rank[a] \in 1..CutTo /\ ~Retired(trials[a])}

-----------------------------------------------------------------------------
(* What the pages show: fieldStandings and VerticalCapture. *)

\* Statuses the series gives, and one only the office gives (DNS, DNF, DQ).
Statuses == {"", "r", "NM", "DNS"}
ResultRows ==
  [by : {"nobody", "series", "office"}, mark : 0..MaxMark, status : Statuses]
NoResult == [by |-> "nobody", mark |-> 0, status |-> ""]

\* A correction's status that is not the series' own puts the athlete last; a
\* corrected distance becomes the whole series.
Overruled(a) ==
  results[a].status # "" /\ results[a].status # SeriesStatus(trials[a])
OneMark(m) ==
  [p \in Places |-> IF p = 1 THEN TrialRow([kind |-> "valid", mark |-> m], 0) ELSE NoTrial]

\* Mutant of Reconciled: a corrected status leaves the series as it is.
Reconciled_MarksOnly(a) ==
  LET row == results[a]
  IN  IF row.mark # 0 /\ (Valid(trials[a]) = {} \/ Best(trials[a]) # row.mark) THEN OneMark(row.mark)
      ELSE trials[a]

Reconciled(a) ==
  LET row == results[a]
  IN  IF Overruled(a) THEN NoSeries
      ELSE IF row.mark # 0 /\ (Valid(trials[a]) = {} \/ Best(trials[a]) # row.mark) THEN OneMark(row.mark)
      ELSE trials[a]

\* Heights rank by the trials alone.
RankingBasis == IF Vertical THEN trials ELSE [a \in Athletes |-> Reconciled(a)]

\* The mark of a standings line; a height index the progression no longer has
\* shows as none.
ShownMark(a) ==
  LET s == RankingBasis[a]
  IN  IF Valid(s) = {} THEN 0
      ELSE IF ~Vertical THEN Best(s)
      ELSE IF BestIdx(s) < Len(heights.list) THEN heights.list[BestIdx(s) + 1]
      ELSE 0

-----------------------------------------------------------------------------
(* Requests. *)

CallStates ==
  [at : {"idle", "heights", "save", "form", "set"},
   athlete : Athletes \union {NoAthlete}, place : Places \union {0},
   trial : [kind : TrialKinds \union {"none"}, mark : 0..MaxMark],
   expected : Nat,                      \* the version the page was rendered from
   list : Seq(1..MaxMark)]              \* the progression, as read or as entered
NoCall ==
  [at |-> "idle", athlete |-> NoAthlete, place |-> 0, trial |-> Nothing, expected |-> 0, list |-> <<>>]

At(c, step) == calls[c].at = step
Continue(c, call) == calls' = [calls EXCEPT ![c] = call]
End(c) == Continue(c, NoCall)
Reads == UNCHANGED <<family, heights, trials, results, announced>>

FieldInit ==
  /\ family \in {"horizontal", "vertical"}
  /\ heights = [list |-> <<>>, version |-> 0]
  /\ trials = [a \in Athletes |-> NoSeries]
  /\ results = [a \in Athletes |-> NoResult]
  /\ announced = FALSE
  /\ calls = [c \in Calls |-> NoCall]

\* A request fails, the server dies, or a form is closed unsent.
Abort(c) ==
  /\ ~At(c, "idle")
  /\ End(c)
  /\ Reads

\* SaveFieldAttempt and SaveVerticalTrial up to requireNotAnnounced. The page
\* showed version v of the trial, which may have been replaced since.
SaveTrial(c, a, p, value, v) ==
  /\ At(c, "idle")
  /\ ~announced
  /\ v <= trials[a][p].version
  /\ ~Vertical => p <= Trials
  /\ Continue(c, [NoCall EXCEPT !.at = IF Vertical THEN "heights" ELSE "save", !.athlete = a,
                                !.place = p, !.trial = value, !.expected = v])
  /\ Reads

\* SaveVerticalTrial reads the progression; a height outside it is refused.
ReadHeights(c) ==
  /\ At(c, "heights")
  /\ IF calls[c].place \in 1..(3 * Len(heights.list))
     THEN Continue(c, [calls[c] EXCEPT !.list = heights.list, !.at = "save"])
     ELSE End(c)
  /\ Reads

\* The result the series gives, where list is the progression the request read.
Settled(s, list) ==
  [by |-> "series", status |-> SeriesStatus(s),
   mark |-> IF Valid(s) = {} THEN 0
            ELSE IF Vertical THEN list[BestIdx(s) + 1] ELSE Best(s)]

\* Mutant of Save: the result is that of the trial, not of the series.
Save_OneTrial(c) ==
  LET call == calls[c]
      old == trials[call.athlete][call.place]
      series == [NoSeries EXCEPT ![call.place] = TrialRow(call.trial, old.version + 1)]
      unknown == Vertical /\ Valid(series) # {} /\ BestIdx(series) >= Len(call.list)
  IN  /\ At(c, "save")
      /\ old.version < MaxVersion
      /\ IF call.expected # old.version \/ unknown THEN UNCHANGED <<trials, results>>
         ELSE /\ trials' = [trials EXCEPT ![call.athlete][call.place] = series[call.place]]
              /\ results' = [results EXCEPT ![call.athlete] = Settled(series, call.list)]
      /\ End(c)
      /\ UNCHANGED <<family, heights, announced>>

\* The transaction: the trial if it is still at the expected version, and the
\* result of the whole series. A cleared height the request does not know ends
\* it (the index is out of range).
Save(c) ==
  LET call == calls[c]
      old == trials[call.athlete][call.place]
      series == [trials[call.athlete] EXCEPT
                   ![call.place] = TrialRow(call.trial, old.version + 1)]
      unknown == Vertical /\ Valid(series) # {} /\ BestIdx(series) >= Len(call.list)
  IN  /\ At(c, "save")
      /\ old.version < MaxVersion
      /\ IF call.expected # old.version \/ unknown THEN UNCHANGED <<trials, results>>
         ELSE /\ trials' = [trials EXCEPT ![call.athlete] = series]
              /\ results' = [results EXCEPT ![call.athlete] = Settled(series, call.list)]
      /\ End(c)
      /\ UNCHANGED <<family, heights, announced>>

-----------------------------------------------------------------------------
(* Setting up and extending the bar heights. *)

\* The loop of SetVerticalHeights: every height the unit has keeps its index.
Extends(list, old) ==
  Len(old) <= Len(list) /\ \A i \in DOMAIN old : list[i] = old[i]

\* The page with verticalHeightsForm, which holds the heights it was rendered from.
OpenHeightsForm(c) ==
  /\ At(c, "idle") /\ Vertical
  /\ heights.version < MaxSets
  /\ OneFirstForm /\ heights.list = <<>> =>
       \A d \in Calls : calls[d].at \notin {"form", "set"}
  /\ Continue(c, [NoCall EXCEPT !.at = "form", !.list = heights.list])
  /\ Reads

\* The form of a page without heights: a progression, and version 0.
FirstHeights(c, list) ==
  /\ At(c, "form") /\ calls[c].list = <<>>
  /\ Continue(c, [calls[c] EXCEPT !.list = list, !.at = "set"])
  /\ Reads

\* The form of a page with heights: these and one more. Its version field holds
\* how many heights the page showed. SetVerticalHeights refuses what does not
\* extend the progression it reads.
AddHeight(c, h) ==
  LET shown == calls[c].list
      longer == Append(shown, h)
  IN  /\ At(c, "form") /\ shown # <<>>
      /\ longer \in Progressions
      /\ IF Extends(longer, heights.list)
         THEN Continue(c, [calls[c] EXCEPT !.list = longer, !.expected = Len(shown), !.at = "set"])
         ELSE End(c)
      /\ Reads

\* Mutant of SetHeights: the version is not compared.
SetHeights_Blind(c) ==
  /\ At(c, "set")
  /\ heights.version < MaxSets
  /\ heights' = [list |-> calls[c].list, version |-> heights.version + 1]
  /\ End(c)
  /\ UNCHANGED <<family, trials, results, announced>>

\* SetVerticalUnitConfig: version 0 inserts or replaces, any other must be the row's.
SetHeights(c) ==
  /\ At(c, "set")
  /\ heights.version < MaxSets
  /\ heights' = IF calls[c].expected \in {0, heights.version}
                THEN [list |-> calls[c].list, version |-> heights.version + 1]
                ELSE heights
  /\ End(c)
  /\ UNCHANGED <<family, trials, results, announced>>

-----------------------------------------------------------------------------
(* The office. *)

AnnounceUnitResults ==
  /\ Announceable
  /\ announced' = TRUE
  /\ UNCHANGED <<family, heights, trials, results, calls>>

Corrected == {a \in Athletes : results[a].by = "office"}

\* The transaction of CorrectResult: a mark or a status, and an announcement;
\* the series stays.
CorrectResult(a, mark, status) ==
  /\ Announceable /\ Cardinality(Corrected \union {a}) <= MaxCorrected
  /\ results' = [results EXCEPT ![a] = [by |-> "office", mark |-> mark, status |-> status]]
  /\ announced' = TRUE
  /\ UNCHANGED <<family, heights, trials, calls>>

-----------------------------------------------------------------------------
Captures ==
  Cardinality({t \in Athletes \X Places \X (1..MaxVersion) : t[3] <= trials[t[1]][t[2]].version})
    + Cardinality({c \in Calls : calls[c].at \in {"heights", "save"}})

CallStep(c) ==
  \/ \E a \in Athletes, p \in Places, v \in 0..MaxVersion :
       /\ Captures < MaxCaptures
       /\ \E value \in Captured : SaveTrial(c, a, p, value, v)
  \/ ReadHeights(c) \/ Save(c)
  \/ OpenHeightsForm(c)
  \/ \E list \in Progressions : FirstHeights(c, list)
  \/ \E h \in 1..MaxMark : AddHeight(c, h)
  \/ SetHeights(c)
  \/ Abort(c)

FieldNext ==
  \/ \E c \in Calls : CallStep(c)
  \/ AnnounceUnitResults
  \/ \E a \in Athletes, m \in 1..MaxMark : CorrectResult(a, m, "")
  \/ \E a \in Athletes, s \in {"NM", "DNS"} : CorrectResult(a, 0, s)

FieldSpec == FieldInit /\ [][FieldNext]_vars

-----------------------------------------------------------------------------
(* Properties. *)

FieldTypeOK ==
  /\ family \in {"horizontal", "vertical"}
  /\ heights.list \in Seq(1..MaxMark) /\ Len(heights.list) <= MaxHeights
  /\ heights.version \in 0..MaxSets
  /\ trials \in [Athletes -> [Places -> TrialRows]]
  /\ results \in [Athletes -> ResultRows]
  /\ announced \in BOOLEAN
  /\ calls \in [Calls -> CallStates]

\* Every athlete with a trial has a result, and unless the office corrected it
\* after the last trial it is what the series and the present progression give:
\* whatever was captured, re-captured or refused meanwhile, and whichever
\* progression the request read (SaveFieldAttempt, SaveVerticalTrial).
ResultsFollowTrials ==
  \A a \in Athletes :
    /\ results[a].by = "nobody" => Taken(trials[a]) = {}
    /\ results[a].by = "series" => results[a] = Settled(trials[a], heights.list)

\* Standings and results agree: the standings show an athlete's mark, rank those
\* with a mark and nobody else, and nobody behind a worse mark. Vertical
\* standings do so for those the office has not corrected (fieldStandings,
\* VerticalCapture).
StandingsShowResults ==
  LET rank == Ranks(RankingBasis)
      reconciled == {a \in Athletes : Vertical => results[a].by # "office"}
  IN  \A a \in reconciled :
        /\ ShownMark(a) = results[a].mark
        /\ rank[a] > 0 <=> results[a].mark # 0
        /\ \A b \in reconciled :
             0 < rank[a] /\ rank[a] < rank[b] => results[a].mark >= results[b].mark

\* How often each distance was reached, and the ranking rules in those terms:
\* the best distance not reached equally often decides.
Reached(s, m) == Cardinality({p \in Valid(s) : s[p].mark = m})
Beats(s, t) ==
  IF Vertical THEN AheadOnHeights(s, t)
  ELSE \E m \in 0..MaxMark :
         /\ Reached(s, m) > Reached(t, m)
         /\ \A n \in (m + 1)..MaxMark : Reached(s, n) = Reached(t, n)

\* Ranking by comparing neighbours in the sorted list ranks everybody with a
\* valid trial behind exactly those who beat them (RankFieldSeries, RankVertical).
RanksCountTheBetter ==
  LET rank == Ranks(RankingBasis)
  IN  \A a \in Athletes :
        rank[a] = IF Valid(RankingBasis[a]) = {} THEN 0
                  ELSE 1 + Cardinality({b \in Athletes : Beats(RankingBasis[b], RankingBasis[a])})

\* The cut keeps at least CutTo athletes unless fewer are left, cuts nobody who
\* ties with one it keeps, and keeps nobody who was beaten by one it cuts for
\* another reason than retirement (FieldContinuation).
CutIsFair ==
  LET left == {a \in Athletes : Valid(trials[a]) # {} /\ ~Retired(trials[a])}
  IN  Continuers # {} =>
        /\ Continuers \subseteq left
        /\ \A a \in Continuers, b \in left \ Continuers : Beats(trials[a], trials[b])
        /\ left # Continuers =>
             Cardinality(Continuers \union {a \in Athletes : Retired(trials[a])}) >= CutTo

\* Heights are only appended: an index, once given, keeps its height
\* (SetVerticalHeights: "heights may only be appended, never reordered or removed").
HeightsOnlyGrow == [][Extends(heights'.list, heights.list)]_vars

\* False: a form that adds a height to the progression as it is carries the
\* version of the progression as it is. The form sends the number of heights.
FreshFormIsCurrent ==
  \A c \in Calls :
    LET list == calls[c].list
    IN  At(c, "set") /\ Len(list) = Len(heights.list) + 1 /\ Extends(list, heights.list)
          /\ heights.list # <<>>
        => calls[c].expected = heights.version

\* False: vertical standings show a correction as well. They rank and show what
\* was captured (VerticalCapture; UC-015 #2: "placings ... reflect the change").
VerticalStandingsShowCorrections ==
  Vertical => \A a \in Athletes : ShownMark(a) = results[a].mark

\* False: who has made the cut is not cut by somebody's later trial. The cut is
\* taken on the trials so far, so of two who tied for the last place one falls
\* out when the other improves (fieldStandings).
TheCutStands ==
  [][\A a \in Continuers : trials'[a] = trials[a] => a \in Continuers']_vars
=============================================================================
