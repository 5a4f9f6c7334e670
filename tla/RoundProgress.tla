---------------------------- MODULE RoundProgress ----------------------------
(***************************************************************************)
(* Round progression (app/progression.go, domain/progression.go): who goes *)
(* on from a round, computed from the settled results by AdvanceRound and  *)
(* decided by hand with ManualAdvance, while officials still correct       *)
(* results and the office may generate the heats again.                    *)
(*                                                                         *)
(* Both read the round's rows, AdvanceRound then the results, on the track *)
(* heat by heat and in the field one by one, and write in a transaction    *)
(* that compares each written row's version. Every entry has one row here, *)
(* in a heat that stays; marks are numbers.                                *)
(***************************************************************************)
EXTENDS Integers, FiniteSets

CONSTANTS
  Entries,
  HeatOf,           \* each entry's heat
  AthleteOrder,     \* the order of the athletes' ids, which parts equal times
  Overridden,       \* entries placed by hand: a new generation leaves their rows
  Marks,            \* marks results can have
  AtFirst,          \* what the results can be when the office begins
  TrackRules,       \* topN and fastestK the office asks for
  FieldRules,       \* standard, capacity and direction; a standard of 0 is none
  ManualCodes,      \* codes ManualAdvance is used with
  Offices,
  MaxCorrections,   \* bound on results changed
  MaxDecisions,     \* bound on manual advancements
  MaxGenerations,   \* bound on generations
  MaxCalls          \* bound on AdvanceRound calls

ASSUME SomebodyAssumption == IsFiniteSet(Entries) /\ Entries # {} /\ TrackRules # {}
\* A number below 0 disables its channel as 0 does.
ASSUME RulesAssumption ==
  /\ TrackRules \subseteq [topN : Nat, fastestK : Nat]
  /\ FieldRules \subseteq [standard : Nat, capacity : Int, lower : BOOLEAN]
ASSUME AthleteOrderAssumption ==
  /\ AthleteOrder \in [Entries -> Nat]
  /\ \A e, d \in Entries : AthleteOrder[e] = AthleteOrder[d] => e = d
ASSUME MarksAssumption == Marks \subseteq Nat \ {0} /\ AtFirst \subseteq Marks \union {-1, 0}
ASSUME ProgressBoundsAssumption ==
  /\ MaxCorrections \in Nat /\ MaxDecisions \in Nat /\ MaxGenerations \in Nat
  /\ MaxCalls \in Nat

VARIABLES
  track,        \* the discipline's family
  results,      \* the settled results
  rows,         \* each entry's unit_entries row: code and version
  advances,     \* each office's AdvanceRound under way
  decisions,    \* each office's ManualAdvance under way
  corrections, decided, generations, calls

counters == <<corrections, decided, generations, calls>>
vars == <<track, results, rows, advances, decisions, counters>>

-----------------------------------------------------------------------------
Heats == {HeatOf[e] : e \in Entries}

\* None: no result yet. NoMark: a status such as DNF, or no valid trial.
None == -1
NoMark == 0
Results == Marks \union {None, NoMark}

NoCode == "-"
Codes == {NoCode, "Q", "q"} \union ManualCodes
Row == [code : Codes, version : Nat \ {0}]

Rules == IF track THEN TrackRules ELSE FieldRules

\* heard: the results of the entries in read.
Advance ==
  [at : {"idle", "reading"}, rule : TrackRules \union FieldRules, rows : [Entries -> Row],
   read : SUBSET Entries, heard : [Entries -> Results]]
Decision == [at : {"idle", "read"}, entry : Entries, code : Codes, version : Nat]

NoAdvance ==
  [at |-> "idle", rule |-> CHOOSE r \in TrackRules : TRUE,
   rows |-> [e \in Entries |-> [code |-> NoCode, version |-> 1]],
   read |-> {}, heard |-> [e \in Entries |-> None]]
NoDecision ==
  [at |-> "idle", entry |-> CHOOSE e \in Entries : TRUE, code |-> NoCode, version |-> 0]

ProgressTypeOK ==
  /\ track \in BOOLEAN
  /\ results \in [Entries -> Results]
  /\ rows \in [Entries -> Row]
  /\ advances \in [Offices -> Advance]
  /\ \A o \in Offices :
       /\ advances[o].at = "reading" => advances[o].rule \in Rules
       /\ \A e \in Entries : advances[o].rows[e].version <= rows[e].version
  /\ decisions \in [Offices -> Decision]
  /\ corrections \in 0..MaxCorrections /\ decided \in 0..MaxDecisions
  /\ generations \in 0..MaxGenerations /\ calls \in 0..MaxCalls

ProgressInit ==
  /\ track \in BOOLEAN
  /\ results \in [Entries -> AtFirst]
  /\ rows = [e \in Entries |-> [code |-> NoCode, version |-> 1]]
  /\ advances = [o \in Offices |-> NoAdvance]
  /\ decisions = [o \in Offices |-> NoDecision]
  /\ corrections = 0 /\ decided = 0 /\ generations = 0 /\ calls = 0

-----------------------------------------------------------------------------
(* The rules (domain/progression.go). marks has None and NoMark for those   *)
(* who have no mark.                                                        *)

Marked(marks) == {e \in Entries : marks[e] \in Marks}

\* BetterDirection; times are always better when lower.
Better(rule, m, n) == IF track \/ rule.lower THEN m < n ELSE m > n

\* trackStandings, which has equal times in the order of the athletes' ids.
Ahead(marks, e, d) ==
  marks[e] < marks[d] \/ (marks[e] = marks[d] /\ AthleteOrder[e] < AthleteOrder[d])

\* The first topN of each heat.
TopPlaces(rule, marks) ==
  {e \in Marked(marks) :
     Cardinality({d \in Marked(marks) : HeatOf[d] = HeatOf[e] /\ Ahead(marks, d, e)})
       < rule.topN}

OnStandard(rule, marks) ==
  {e \in Marked(marks) : rule.standard # 0 /\ ~Better(rule, rule.standard, marks[e])}

\* Q
Outright(rule, marks) == IF track THEN TopPlaces(rule, marks) ELSE OnStandard(rule, marks)

\* How many the next channel takes. The standard's qualifiers count against a
\* field round's capacity.
Slots(rule, marks) ==
  IF track THEN rule.fastestK
  ELSE LET left == rule.capacity - Cardinality(Outright(rule, marks))
       IN  IF left > 0 THEN left ELSE 0

Rest(rule, marks) == Marked(marks) \ Outright(rule, marks)

\* Mutant of Cutoff: the first mark that does not fit.
Cutoff_Next(rule, rest, slots, marks) ==
  CHOOSE m \in Marks :
    /\ Cardinality({e \in rest : Better(rule, marks[e], m)}) <= slots
    /\ Cardinality({e \in rest : ~Better(rule, m, marks[e])}) > slots

\* The mark of the last who fits.
Cutoff(rule, rest, slots, marks) ==
  CHOOSE m \in Marks :
    /\ Cardinality({e \in rest : Better(rule, marks[e], m)}) < slots
    /\ Cardinality({e \in rest : ~Better(rule, m, marks[e])}) >= slots

\* By mark: q for those who fit, and the tied when not all at the cutoff fit
\* (TimeTie), with the slots left to them.
ByMark(rule, marks) ==
  LET rest == Rest(rule, marks)
      slots == Slots(rule, marks)
      cutoff == Cutoff(rule, rest, slots, marks)
      secured == {e \in rest : Better(rule, marks[e], cutoff)}
      atCutoff == {e \in rest : marks[e] = cutoff}
      left == slots - Cardinality(secured)
  IN  IF slots = 0 THEN [q |-> {}, tied |-> {}, left |-> 0]
      ELSE IF Cardinality(rest) <= slots THEN [q |-> rest, tied |-> {}, left |-> 0]
      ELSE IF Cardinality(atCutoff) <= left
      THEN [q |-> secured \union atCutoff, tied |-> {}, left |-> 0]
      ELSE [q |-> secured, tied |-> atCutoff, left |-> left]

-----------------------------------------------------------------------------
(* AdvanceRound *)

\* ListRoundAssignments
Begin(o, rule) ==
  /\ advances[o].at = "idle" /\ calls < MaxCalls
  /\ rule \in Rules
  /\ advances' = [advances EXCEPT ![o] =
       [NoAdvance EXCEPT !.at = "reading", !.rule = rule, !.rows = rows]]
  /\ calls' = calls + 1
  /\ UNCHANGED <<track, results, rows, decisions, corrections, decided, generations>>

Took(g, S) ==
  [g EXCEPT !.read = @ \union S,
            !.heard = [e \in Entries |-> IF e \in S THEN results[e] ELSE g.heard[e]]]

Heat(h) == {e \in Entries : HeatOf[e] = h}

\* trackHeatFinishes: a heat without any result ends the call.
ReadHeat(o, h) ==
  /\ advances[o].at = "reading" /\ track /\ ~(Heat(h) \subseteq advances[o].read)
  /\ advances' = [advances EXCEPT ![o] =
       IF \E e \in Heat(h) : results[e] # None THEN Took(advances[o], Heat(h)) ELSE NoAdvance]
  /\ UNCHANGED <<track, results, rows, decisions, counters>>

\* fieldFinishes
ReadResult(o, e) ==
  /\ advances[o].at = "reading" /\ ~track /\ e \notin advances[o].read
  /\ advances' = [advances EXCEPT ![o] = Took(advances[o], {e})]
  /\ UNCHANGED <<track, results, rows, decisions, counters>>

AllRead(o) == advances[o].at = "reading" /\ advances[o].read = Entries

\* The new codes: whoever has one keeps it.
Computed(g) ==
  LET outright == Outright(g.rule, g.heard)
      all == outright \union ByMark(g.rule, g.heard).q
  IN  [e \in {e \in all : g.rows[e].code = NoCode} |-> IF e \in outright THEN "Q" ELSE "q"]

\* Mutant of SameVersions: the rows are written whatever they have become.
SameVersions_Any(new, read) == TRUE

\* SetUnitAssignmentQualification compares versions, row by row.
SameVersions(new, read) == \A e \in DOMAIN new : rows[e].version = read[e].version

\* The version moves on with every write.
Coded(row, code) == [code |-> code, version |-> row.version + 1]

\* The transaction: all of it, or nothing when one row has moved on.
AdvanceCommit(o) ==
  LET new == Computed(advances[o])
  IN  /\ AllRead(o) /\ SameVersions(new, advances[o].rows)
      /\ rows' = [e \in Entries |-> IF e \in DOMAIN new THEN Coded(rows[e], new[e]) ELSE rows[e]]
      /\ advances' = [advances EXCEPT ![o] = NoAdvance]
      /\ UNCHANGED <<track, results, decisions, counters>>

\* A conflict, or a lost request.
AdvanceFails(o) ==
  /\ advances[o].at = "reading"
  /\ advances' = [advances EXCEPT ![o] = NoAdvance]
  /\ UNCHANGED <<track, results, rows, decisions, counters>>

\* What the call reports: a tie is settled as soon as one of the tied has a code.
Reported(g) ==
  LET tied == ByMark(g.rule, g.heard).tied
  IN  IF \E e \in tied : g.rows[e].code # NoCode THEN {} ELSE tied

-----------------------------------------------------------------------------
(* ManualAdvance, and what others do meanwhile. *)

\* It reads the version itself; the page sends none.
Decide(o, e, code) ==
  /\ decisions[o].at = "idle" /\ decided < MaxDecisions
  /\ decisions' = [decisions EXCEPT ![o] =
       [at |-> "read", entry |-> e, code |-> code, version |-> rows[e].version]]
  /\ decided' = decided + 1
  /\ UNCHANGED <<track, results, rows, advances, corrections, generations, calls>>

DecideCommit(o) ==
  LET d == decisions[o]
  IN  /\ d.at = "read"
      /\ rows' = [rows EXCEPT ![d.entry] = IF @.version = d.version THEN Coded(@, d.code) ELSE @]
      /\ decisions' = [decisions EXCEPT ![o] = NoDecision]
      /\ UNCHANGED <<track, results, advances, counters>>

\* An official enters, corrects or takes back a result.
Correct(e, r) ==
  /\ corrections < MaxCorrections
  /\ results[e] # r
  /\ results' = [results EXCEPT ![e] = r]
  /\ corrections' = corrections + 1
  /\ UNCHANGED <<track, rows, advances, decisions, decided, generations, calls>>

\* Mutant of Regenerate: the rows are deleted and inserted anew.
Regenerate_Anew ==
  /\ generations < MaxGenerations
  /\ rows' = [e \in Entries |->
       IF e \in Overridden THEN rows[e] ELSE [code |-> NoCode, version |-> 1]]
  /\ generations' = generations + 1
  /\ UNCHANGED <<track, results, advances, decisions, corrections, decided, calls>>

\* GenerateHeats saves every row but the overridden again, without its code.
Regenerate ==
  /\ generations < MaxGenerations
  /\ rows' = [e \in Entries |-> IF e \in Overridden THEN rows[e] ELSE Coded(rows[e], NoCode)]
  /\ generations' = generations + 1
  /\ UNCHANGED <<track, results, advances, decisions, corrections, decided, calls>>

-----------------------------------------------------------------------------
AdvanceStep(o) ==
  \/ \E rule \in TrackRules \union FieldRules : Begin(o, rule)
  \/ \E h \in Heats : ReadHeat(o, h)
  \/ \E e \in Entries : ReadResult(o, e)
  \/ AdvanceCommit(o) \/ AdvanceFails(o)

DecideStep(o) == (\E e \in Entries, code \in ManualCodes : Decide(o, e, code)) \/ DecideCommit(o)

ProgressNext ==
  \/ \E o \in Offices : AdvanceStep(o) \/ DecideStep(o)
  \/ \E e \in Entries, r \in Results : Correct(e, r)
  \/ Regenerate

ProgressSpec == ProgressInit /\ [][ProgressNext]_vars

-----------------------------------------------------------------------------
(* Properties. *)

\* The office's AdvanceRound has written codes in this step.
Advanced(o) == advances[o].at = "reading" /\ advances'[o].at = "idle" /\ rows' # rows

\* AdvanceRound never replaces a code, whatever was decided or advanced between
\* its reading and its writing ("never clobber a resolved entry").
DecisionsStand ==
  [][\A o \in Offices : Advanced(o) =>
       \A e \in Entries : rows[e].code # NoCode => rows'[e].code = rows[e].code]_vars

\* On the track as many per heat as asked for or as have a time, and nobody behind
\* a faster one of the same heat; in the field those who have the standard.
OutrightIsFair(rule, marks) ==
  LET outright == Outright(rule, marks)
  IN  IF track
      THEN \A h \in Heats :
             LET timed == Marked(marks) \intersect Heat(h)
                 top == timed \intersect outright
             IN  /\ Cardinality(top) <= rule.topN
                 /\ top # timed => Cardinality(top) = rule.topN
                 /\ \A e \in top, d \in timed \ top : marks[e] <= marks[d]
      ELSE \A e \in Entries :
             e \in outright <=>
               /\ e \in Marked(marks) /\ rule.standard # 0
               /\ marks[e] = rule.standard \/ Better(rule, marks[e], rule.standard)

\* Nobody is passed over for a worse or an equal mark, no more than the slots are
\* given, and one stays open only for a tie between more than it.
ByMarkIsFair(rule, marks) ==
  LET rest == Rest(rule, marks)
      result == ByMark(rule, marks)
      given == result.q
      tied == result.tied
      open == Slots(rule, marks) - Cardinality(given)
  IN  /\ given \subseteq rest /\ tied \subseteq rest \ given
      /\ \A e \in given, d \in rest \ given : Better(rule, marks[e], marks[d])
      /\ open >= 0
      /\ tied = {} => open = 0 \/ given = rest
      /\ tied # {} => open = result.left /\ open \in 1..(Cardinality(tied) - 1)
      /\ \A e \in tied, d \in rest \ given :
           IF d \in tied THEN marks[d] = marks[e] ELSE Better(rule, marks[e], marks[d])

\* Whatever results a call has read, ties at every boundary among them, those it
\* computes are the ones the rules name (ComputeTrackAdvancement,
\* ComputeFieldAdvancement: sorting, cutting and comparing with the cutoff).
QualifiersAreFair ==
  \A o \in Offices : AllRead(o) =>
    /\ OutrightIsFair(advances[o].rule, advances[o].heard)
    /\ ByMarkIsFair(advances[o].rule, advances[o].heard)

\* False: codes are given for complete results only. One result makes a heat
\* complete.
NobodyIsStillRunning ==
  [][\A o \in Offices : Advanced(o) =>
       \A e \in Entries : track => advances[o].heard[e] # None]_vars

\* False: a slot stays open only with its tie reported. The first code given to
\* one of the tied hides a tie that is about several slots.
OpenSlotsAreReported ==
  \A o \in Offices :
    LET g == advances[o]
        result == ByMark(g.rule, g.heard)
    IN  AllRead(o) /\ result.tied # {} /\ Reported(g) = {}
        => Cardinality({e \in result.tied : g.rows[e].code # NoCode}) >= result.left

\* False: no more get q than the rule has slots. Two calls, one of them after a
\* correction, each code their own.
QuotaIsKept ==
  track => \A rule \in TrackRules :
    Cardinality({e \in Entries : rows[e].code = "q"}) <= rule.fastestK
=============================================================================
