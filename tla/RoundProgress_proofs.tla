------------------------- MODULE RoundProgress_proofs -------------------------
(* Proofs about RoundProgress. *)
EXTENDS RoundProgress, RankingFacts

\* While a row has the version a call has read, it is the row the call has read.
ReadingsTell ==
  \A o \in Offices, e \in Entries :
    advances[o].at = "reading" /\ advances[o].rows[e].version = rows[e].version
    => advances[o].rows[e] = rows[e]

ProgressInv == ProgressTypeOK /\ ReadingsTell

-----------------------------------------------------------------------------
LEMMA NothingIsTyped ==
  /\ NoAdvance \in Advance /\ NoDecision \in Decision
  /\ NoAdvance.at = "idle" /\ \A e \in Entries : NoAdvance.rows[e].version = 1
<1>1. (CHOOSE r \in TrackRules : TRUE) \in TrackRules /\ (CHOOSE e \in Entries : TRUE) \in Entries
  BY SomebodyAssumption
<1> QED
  BY <1>1 DEF NoAdvance, NoDecision, Advance, Decision, Row, Codes, Results

\* A written row.
LEMMA CodedIsTyped ==
  ASSUME NEW row \in Row, NEW code \in Codes
  PROVE  Coded(row, code) \in Row /\ Coded(row, code).version = row.version + 1
BY DEF Coded, Row

LEMMA TookIsTyped ==
  ASSUME NEW g \in Advance, NEW S \in SUBSET Entries, results \in [Entries -> Results]
  PROVE  /\ Took(g, S) \in Advance /\ Took(g, S).at = g.at
         /\ Took(g, S).rule = g.rule /\ Took(g, S).rows = g.rows
<1> DEFINE heard == [e \in Entries |-> IF e \in S THEN results[e] ELSE g.heard[e]]
<1>1. heard \in [Entries -> Results] /\ g.read \union S \in SUBSET Entries
  BY DEF Advance
<1>2. Took(g, S) = [g EXCEPT !.read = @ \union S, !.heard = heard]
  BY DEF Took
<1> HIDE DEF heard
<1> QED
  BY <1>1, <1>2 DEF Advance

\* What a call computes: codes for entries that had none when it read them.
LEMMA ComputedIsNew ==
  ASSUME NEW g
  PROVE  /\ DOMAIN Computed(g) \subseteq {e \in Entries : g.rows[e].code = NoCode}
         /\ \A e \in DOMAIN Computed(g) : Computed(g)[e] \in Codes
<1>1. Outright(g.rule, g.heard) \subseteq Entries
  BY DEF Outright, TopPlaces, OnStandard, Marked
<1>2. Rest(g.rule, g.heard) \subseteq Entries
  BY DEF Rest, Marked
<1>3. ByMark(g.rule, g.heard).q \subseteq Entries
  BY <1>2 DEF ByMark
<1> QED
  BY <1>1, <1>3 DEF Computed, Codes

-----------------------------------------------------------------------------
(* Rows only move on, and a call begins with the rows as they are. *)

\* What a step makes of an office's call.
CallGoesOn(o) ==
  \/ advances'[o] = advances[o]
  \/ advances'[o] = NoAdvance
  \/ /\ advances[o].at = "reading" /\ advances'[o].at = "reading"
     /\ advances'[o].rule = advances[o].rule /\ advances'[o].rows = advances[o].rows
  \/ advances'[o].rule \in Rules /\ advances'[o].rows = rows /\ rows' = rows

RowsMoveOn == \A e \in Entries : rows'[e] = rows[e] \/ rows'[e].version > rows[e].version

CountersTyped ==
  /\ corrections \in 0..MaxCorrections /\ decided \in 0..MaxDecisions
  /\ generations \in 0..MaxGenerations /\ calls \in 0..MaxCalls

StepIsSafe ==
  /\ track' = track /\ results' \in [Entries -> Results]
  /\ rows' \in [Entries -> Row] /\ RowsMoveOn
  /\ advances' \in [Offices -> Advance] /\ \A o \in Offices : CallGoesOn(o)
  /\ decisions' \in [Offices -> Decision]
  /\ CountersTyped'

LEMMA CallsSeeTheRows ==
  ASSUME ProgressInv, track' = track, RowsMoveOn,
         rows' \in [Entries -> Row], advances' \in [Offices -> Advance],
         \A o \in Offices : CallGoesOn(o)
  PROVE  /\ \A o \in Offices :
              /\ advances'[o].at = "reading" => advances'[o].rule \in Rules'
              /\ \A e \in Entries : advances'[o].rows[e].version <= rows'[e].version
         /\ ReadingsTell'
<1> USE DEF ProgressInv, ProgressTypeOK
<1>1. Rules' = Rules
  BY DEF Rules
<1> SUFFICES ASSUME NEW o \in Offices
             PROVE  /\ advances'[o].at = "reading" => advances'[o].rule \in Rules
                    /\ \A e \in Entries :
                         /\ advances'[o].rows[e].version <= rows'[e].version
                         /\ advances'[o].at = "reading"
                              /\ advances'[o].rows[e].version = rows'[e].version
                            => advances'[o].rows[e] = rows'[e]
  BY <1>1 DEF ReadingsTell
<1>2. \A e \in Entries : rows[e].version \in Nat \ {0} /\ rows'[e].version \in Nat \ {0}
  BY DEF Row
<1>3. \A e \in Entries : advances[o].rows[e].version \in Nat
  BY DEF Advance, Row
<1>4. CASE advances'[o] = NoAdvance
  BY <1>2, <1>4, NothingIsTyped
<1>5. CASE advances'[o].rows = rows /\ advances'[o].rule \in Rules /\ rows' = rows
  BY <1>2, <1>5
<1>6. CASE /\ advances'[o].at = advances[o].at
           /\ advances'[o].rule = advances[o].rule /\ advances'[o].rows = advances[o].rows
  <2> SUFFICES ASSUME NEW e \in Entries
               PROVE  /\ advances[o].rows[e].version <= rows'[e].version
                      /\ advances[o].at = "reading"
                           /\ advances[o].rows[e].version = rows'[e].version
                         => advances[o].rows[e] = rows'[e]
    BY <1>6
  <2>1. advances[o].rows[e].version <= rows[e].version
    OBVIOUS
  <2>2. CASE rows'[e] = rows[e]
    BY <2>1, <2>2 DEF ReadingsTell
  <2>3. CASE rows'[e].version > rows[e].version
    BY <2>1, <2>3, <1>2, <1>3
  <2> QED
    BY <2>2, <2>3 DEF RowsMoveOn
<1> QED
  BY <1>4, <1>5, <1>6 DEF CallGoesOn

-----------------------------------------------------------------------------
LEMMA InitKeeps == ProgressInit => ProgressInv
<1> SUFFICES ASSUME ProgressInit PROVE ProgressInv
  OBVIOUS
<1> USE DEF ProgressInit
<1>1. results \in [Entries -> Results]
  BY MarksAssumption DEF Results, None, NoMark
<1>2. rows \in [Entries -> Row]
  BY DEF Row, Codes
<1> QED
  BY <1>1, <1>2, NothingIsTyped, ProgressBoundsAssumption
  DEF ProgressInv, ProgressTypeOK, ReadingsTell

LEMMA NextIsSafe == ProgressInv /\ [ProgressNext]_vars => StepIsSafe
<1> SUFFICES ASSUME ProgressInv, [ProgressNext]_vars PROVE StepIsSafe
  OBVIOUS
<1> USE DEF ProgressInv, ProgressTypeOK, CountersTyped
<1>1. /\ \A e \in Entries : rows[e] \in Row /\ rows[e].version \in Nat /\ rows[e].code \in Codes
      /\ ManualCodes \subseteq Codes /\ NoCode \in Codes
  BY DEF Row, Codes
<1>2. \A e \in Entries, code \in Codes :
        Coded(rows[e], code) \in Row /\ Coded(rows[e], code).version > rows[e].version
  BY <1>1, CodedIsTyped
<1>3. ASSUME rows' = rows PROVE RowsMoveOn
  BY <1>3 DEF RowsMoveOn
<1>4. ASSUME advances' = advances PROVE \A o \in Offices : CallGoesOn(o)
  BY <1>4 DEF CallGoesOn
<1>5. ASSUME NEW o \in Offices, advances' = [advances EXCEPT ![o] = NoAdvance]
      PROVE  advances' \in [Offices -> Advance] /\ \A p \in Offices : CallGoesOn(p)
  BY <1>5, NothingIsTyped DEF CallGoesOn
<1>6. ASSUME NEW o \in Offices, NEW rule \in TrackRules \union FieldRules, Begin(o, rule)
      PROVE  StepIsSafe
  <2> DEFINE g == [NoAdvance EXCEPT !.at = "reading", !.rule = rule, !.rows = rows]
  <2>1. g \in Advance /\ g.rule = rule /\ g.rows = rows
    BY NothingIsTyped DEF Advance
  <2>2. advances' = [advances EXCEPT ![o] = g] /\ rule \in Rules /\ rows' = rows
    BY <1>6 DEF Begin
  <2> HIDE DEF g
  <2>3. advances' \in [Offices -> Advance] /\ \A p \in Offices : CallGoesOn(p)
    BY <2>1, <2>2 DEF CallGoesOn
  <2>4. calls' \in 0..MaxCalls
    BY <1>6, ProgressBoundsAssumption DEF Begin
  <2> QED
    BY <1>3, <1>6, <2>3, <2>4 DEF Begin, StepIsSafe
<1>7. ASSUME NEW o \in Offices, NEW S \in SUBSET Entries,
             advances[o].at = "reading", rows' = rows, advances' = [advances EXCEPT ![o] = Took(advances[o], S)]
      PROVE  advances' \in [Offices -> Advance] /\ \A p \in Offices : CallGoesOn(p)
  <2> DEFINE g == Took(advances[o], S)
  <2>1. /\ g \in Advance /\ g.at = "reading"
        /\ g.rule = advances[o].rule /\ g.rows = advances[o].rows
    BY <1>7, TookIsTyped
  <2>2. advances' = [advances EXCEPT ![o] = g]
    BY <1>7
  <2> HIDE DEF g
  <2> QED
    BY <1>7, <2>1, <2>2 DEF CallGoesOn
<1>8. ASSUME NEW o \in Offices, NEW h \in Heats, ReadHeat(o, h)
       PROVE  StepIsSafe
  <2>1. Heat(h) \in SUBSET Entries /\ advances[o].at = "reading" /\ rows' = rows
    BY <1>8 DEF Heat, ReadHeat
  <2>2. \/ advances' = [advances EXCEPT ![o] = NoAdvance]
        \/ advances' = [advances EXCEPT ![o] = Took(advances[o], Heat(h))]
    BY <1>8 DEF ReadHeat
  <2>3. advances' \in [Offices -> Advance] /\ \A p \in Offices : CallGoesOn(p)
    BY <1>5, <1>7, <2>1, <2>2
  <2> QED
    BY <1>3, <1>8, <2>3 DEF ReadHeat, counters, StepIsSafe
<1>9. ASSUME NEW o \in Offices, NEW e \in Entries, ReadResult(o, e)
       PROVE  StepIsSafe
  <2>1. /\ {e} \in SUBSET Entries /\ advances[o].at = "reading" /\ rows' = rows
        /\ advances' = [advances EXCEPT ![o] = Took(advances[o], {e})]
    BY <1>9 DEF ReadResult
  <2>2. advances' \in [Offices -> Advance] /\ \A p \in Offices : CallGoesOn(p)
    BY <1>7, <2>1
  <2> QED
    BY <1>3, <1>9, <2>2 DEF ReadResult, counters, StepIsSafe
<1>10. ASSUME NEW o \in Offices, AdvanceCommit(o)
      PROVE  StepIsSafe
  <2> DEFINE new == Computed(advances[o])
  <2>1. \A e \in DOMAIN new : new[e] \in Codes
    BY ComputedIsNew
  <2>2. rows' = [e \in Entries |-> IF e \in DOMAIN new THEN Coded(rows[e], new[e]) ELSE rows[e]]
    BY <1>10 DEF AdvanceCommit
  <2> HIDE DEF new
  <2>3. rows' \in [Entries -> Row] /\ RowsMoveOn
    BY <1>1, <1>2, <2>1, <2>2 DEF RowsMoveOn
  <2> QED
    BY <1>5, <1>10, <2>3 DEF AdvanceCommit, counters, StepIsSafe
<1>11. ASSUME NEW o \in Offices, AdvanceFails(o)
      PROVE  StepIsSafe
  BY <1>3, <1>5, <1>11 DEF AdvanceFails, counters, StepIsSafe
<1>12. ASSUME NEW o \in Offices, NEW e \in Entries, NEW code \in ManualCodes, Decide(o, e, code)
       PROVE  StepIsSafe
  <2>1. decisions' \in [Offices -> Decision]
    BY <1>1, <1>12 DEF Decide, Decision
  <2>2. decided' \in 0..MaxDecisions
    BY <1>12, ProgressBoundsAssumption DEF Decide
  <2> QED
    BY <1>3, <1>4, <1>12, <2>1, <2>2 DEF Decide, StepIsSafe
<1>13. ASSUME NEW o \in Offices, DecideCommit(o)
       PROVE  StepIsSafe
  <2> DEFINE d == decisions[o]
  <2>1. d.entry \in Entries /\ d.code \in Codes
    BY DEF Decision
  <2>2. rows' = [rows EXCEPT ![d.entry] = IF @.version = d.version THEN Coded(@, d.code) ELSE @]
    BY <1>13 DEF DecideCommit
  <2> HIDE DEF d
  <2>3. rows' \in [Entries -> Row] /\ RowsMoveOn
    BY <1>1, <1>2, <2>1, <2>2 DEF RowsMoveOn
  <2> QED
    BY <1>4, <1>13, <2>3, NothingIsTyped DEF DecideCommit, counters, StepIsSafe
<1>14. ASSUME NEW e \in Entries, NEW r \in Results, Correct(e, r)
       PROVE  StepIsSafe
  <2>1. corrections' \in 0..MaxCorrections
    BY <1>14, ProgressBoundsAssumption DEF Correct
  <2> QED
    BY <1>3, <1>4, <1>14, <2>1 DEF Correct, StepIsSafe
<1>15. ASSUME Regenerate
       PROVE  StepIsSafe
  <2>1. generations' \in 0..MaxGenerations
    BY <1>15, ProgressBoundsAssumption DEF Regenerate
  <2>2. rows' \in [Entries -> Row] /\ RowsMoveOn
    BY <1>1, <1>2, <1>15 DEF Regenerate, RowsMoveOn
  <2> QED
    BY <1>4, <1>15, <2>1, <2>2 DEF Regenerate, StepIsSafe
<1>16. ASSUME UNCHANGED vars
       PROVE  StepIsSafe
  BY <1>3, <1>4, <1>16 DEF vars, counters, StepIsSafe
<1> QED
  BY <1>6, <1>8, <1>9, <1>10, <1>11, <1>12, <1>13, <1>14, <1>15, <1>16
  DEF ProgressNext, AdvanceStep, DecideStep

LEMMA StepKeeps == ProgressInv /\ [ProgressNext]_vars => ProgressInv'
BY NextIsSafe, CallsSeeTheRows DEF StepIsSafe, CountersTyped, ProgressInv, ProgressTypeOK

LEMMA ProgressIsSound == ProgressSpec => []ProgressInv
BY InitKeeps, StepKeeps, PTL DEF ProgressSpec

-----------------------------------------------------------------------------
\* Every reachable state of a round's progression is well typed, and no call is
\* ahead of the rows.
THEOREM ProgressTypeCorrect == ProgressSpec => []ProgressTypeOK
<1>1. ProgressInv => ProgressTypeOK
  BY DEF ProgressInv
<1> QED
  BY <1>1, ProgressIsSound, PTL

\* A step that ends a call under way with rows changed is that call's commit.
LEMMA OnlyItsCommitAdvances ==
  ASSUME ProgressInv, [ProgressNext]_vars, NEW o \in Offices, Advanced(o)
  PROVE  AdvanceCommit(o)
<1> USE DEF ProgressInv, ProgressTypeOK
<1>1. advances[o].at = "reading" /\ advances'[o].at = "idle" /\ rows' # rows
  BY DEF Advanced
<1>2. ASSUME NEW p \in Offices, AdvanceStep(p)
      PROVE  p = o /\ AdvanceCommit(p)
  BY <1>1, <1>2 DEF AdvanceStep, Begin, ReadHeat, ReadResult, AdvanceCommit, AdvanceFails
<1>3. ASSUME NEW p \in Offices, DecideStep(p)
      PROVE  FALSE
  BY <1>1, <1>3 DEF DecideStep, Decide, DecideCommit
<1> QED
  BY <1>1, <1>2, <1>3 DEF ProgressNext, Correct, Regenerate, vars

\* AdvanceRound replaces no code, for any rounds, rules, officials and corrections.
THEOREM CodesStand == ProgressSpec => DecisionsStand
<1>1. ASSUME ProgressInv, [ProgressNext]_vars
      PROVE  \A o \in Offices : Advanced(o) =>
               \A e \in Entries : rows[e].code # NoCode => rows'[e].code = rows[e].code
  <2> SUFFICES ASSUME NEW o \in Offices, Advanced(o), NEW e \in Entries, rows[e].code # NoCode
               PROVE  rows'[e] = rows[e]
    OBVIOUS
  <2> DEFINE new == Computed(advances[o])
  <2>1. AdvanceCommit(o)
    BY <1>1, OnlyItsCommitAdvances
  <2>2. /\ rows' = [d \in Entries |-> IF d \in DOMAIN new THEN Coded(rows[d], new[d]) ELSE rows[d]]
        /\ \A d \in DOMAIN new : rows[d].version = advances[o].rows[d].version
        /\ advances[o].at = "reading"
    BY <2>1 DEF AdvanceCommit, AllRead, SameVersions
  <2>3. \A d \in DOMAIN new : d \in Entries /\ advances[o].rows[d].code = NoCode
    BY ComputedIsNew
  <2> HIDE DEF new
  <2>4. e \notin DOMAIN new
    BY <1>1, <2>2, <2>3 DEF ProgressInv, ReadingsTell
  <2> QED
    BY <2>2, <2>4
<1> QED
  BY <1>1, ProgressIsSound, PTL DEF ProgressSpec, DecisionsStand

-----------------------------------------------------------------------------
(* The rules. Each compares numbers, so it puts the entries in an order, and *)
(* counting who is ahead in it is what sorting and cutting a list comes to.  *)

\* Who has a mark.
LEMMA MarkedFacts ==
  ASSUME NEW marks \in [Entries -> Results]
  PROVE  /\ Marked(marks) \in SUBSET Entries /\ IsFiniteSet(Marked(marks))
         /\ \A e \in Marked(marks) : marks[e] \in Marks /\ marks[e] \in Nat
<1>1. Marked(marks) \in SUBSET Entries /\ \A e \in Marked(marks) : marks[e] \in Marks
  BY DEF Marked
<1> QED
  BY <1>1, SomebodyAssumption, MarksAssumption, FS_Subset

\* Of each heat the first topN, however equal times are parted.
LEMMA TopPlacesAreFair ==
  ASSUME track, NEW rule \in TrackRules, NEW marks \in [Entries -> Results], NEW h \in Heats
  PROVE  LET timed == Marked(marks) \intersect Heat(h)
             top == timed \intersect TopPlaces(rule, marks)
         IN  /\ Cardinality(top) <= rule.topN
             /\ top # timed => Cardinality(top) = rule.topN
             /\ \A e \in top, d \in timed \ top : marks[e] <= marks[d]
<1> DEFINE timed == Marked(marks) \intersect Heat(h)
           top == timed \intersect TopPlaces(rule, marks)
           R == {p \in Entries \X Entries : Ahead(marks, p[1], p[2])}
<1>1. timed \in SUBSET Entries /\ IsFiniteSet(timed)
      /\ \A e \in timed : marks[e] \in Nat /\ HeatOf[e] = h /\ e \in Marked(marks)
  BY MarkedFacts, FS_Subset DEF Heat
<1>2. \A e, d \in timed : <<e, d>> \in R <=> Ahead(marks, e, d)
  BY <1>1
<1>3. TotalOrder(R, timed)
  <2>1. \A e \in timed : marks[e] \in Nat /\ AthleteOrder[e] \in Nat
    BY <1>1, AthleteOrderAssumption
  <2>2. \A e, d \in timed : AthleteOrder[e] = AthleteOrder[d] => e = d
    BY <1>1, AthleteOrderAssumption
  <2> HIDE DEF R, timed
  <2> QED
    BY <1>2, <2>1, <2>2 DEF TotalOrder, Ahead
<1>4. rule.topN \in Nat
  BY RulesAssumption
<1> DEFINE pos == Positions(R, timed)
<1>5. top = {e \in timed : pos[e] < rule.topN}
  <2> SUFFICES ASSUME NEW e \in timed
               PROVE  e \in TopPlaces(rule, marks) <=> pos[e] < rule.topN
    OBVIOUS
  <2>1. {d \in Marked(marks) : HeatOf[d] = HeatOf[e] /\ Ahead(marks, d, e)} = AheadOf(e, R, timed)
    BY <1>1, <1>2, MarkedFacts DEF AheadOf, Heat
  <2>2. pos[e] = Cardinality(AheadOf(e, R, timed))
    BY DEF Positions
  <2>3. e \in Marked(marks)
    OBVIOUS
  <2> QED
    BY <2>1, <2>2, <2>3 DEF TopPlaces
<1>6. Cardinality(top) = IF rule.topN <= Cardinality(timed) THEN rule.topN ELSE Cardinality(timed)
  <2> HIDE DEF R, timed, top
  <2> QED
    BY <1>1, <1>3, <1>4, <1>5, FirstPositions
<1>7. Cardinality(timed) \in Nat /\ (Cardinality(timed) = Cardinality(top) => timed = top)
  <2>1. top \in SUBSET timed
    OBVIOUS
  <2> HIDE DEF timed, top
  <2> QED
    BY <1>1, <2>1, FS_CardinalityType, FS_Subset
<1>8. ASSUME NEW e \in top, NEW d \in timed \ top
      PROVE  marks[e] <= marks[d]
  <2>1. \A x \in timed : pos[x] \in Int
    <3> HIDE DEF R, timed
    <3> QED
      BY <1>1, <1>3, PositionsOrder, FS_CardinalityType
  <2>2. e \in timed /\ d \in timed /\ pos[e] < rule.topN /\ ~(pos[d] < rule.topN)
    BY <1>5
  <2>3. <<e, d>> \in R
    <3>1. pos[e] < pos[d]
      <4> HIDE DEF pos, timed
      <4> QED
        BY <1>4, <2>1, <2>2
    <3> HIDE DEF R, timed
    <3> QED
      BY <1>1, <1>3, <2>2, <3>1, PositionsOrder
  <2>4. Ahead(marks, e, d) /\ marks[e] \in Nat /\ marks[d] \in Nat
    BY <1>1, <1>2, <2>2, <2>3
  <2> QED
    BY <2>4 DEF Ahead
<1> HIDE DEF timed, top
<1>9. Cardinality(top) <= rule.topN /\ (top # timed => Cardinality(top) = rule.topN)
  BY <1>4, <1>6, <1>7
<1> QED
  BY <1>8, <1>9 DEF timed, top

LEMMA OutrightFair ==
  ASSUME NEW rule \in Rules, NEW marks \in [Entries -> Results], track \in BOOLEAN
  PROVE  OutrightIsFair(rule, marks)
<1>1. CASE track
  <2>1. rule \in TrackRules
    BY <1>1 DEF Rules
  <2> QED
    BY <1>1, <2>1, TopPlacesAreFair DEF OutrightIsFair, Outright
<1>2. CASE ~track
  <2>1. rule.standard \in Nat
    BY <1>2, RulesAssumption DEF Rules
  <2> SUFFICES ASSUME NEW e \in Entries
               PROVE  e \in OnStandard(rule, marks) <=>
                        /\ e \in Marked(marks) /\ rule.standard # 0
                        /\ marks[e] = rule.standard \/ Better(rule, marks[e], rule.standard)
    BY <1>2 DEF OutrightIsFair, Outright
  <2>2. e \in Marked(marks) => marks[e] \in Nat
    BY MarkedFacts
  <2> QED
    BY <1>2, <2>1, <2>2 DEF OnStandard, Better
<1> QED
  BY <1>1, <1>2
-----------------------------------------------------------------------------
(* The cut. *)

LEMMA RestFacts ==
  ASSUME NEW rule, NEW marks \in [Entries -> Results]
  PROVE  /\ Rest(rule, marks) \in SUBSET Entries /\ IsFiniteSet(Rest(rule, marks))
         /\ \A e \in Rest(rule, marks) : marks[e] \in Marks /\ marks[e] \in Nat
<1>1. Rest(rule, marks) \in SUBSET Marked(marks)
  BY DEF Rest
<1> QED
  BY <1>1, MarkedFacts, FS_Subset

LEMMA SlotsAreNatural ==
  ASSUME NEW rule \in Rules, NEW marks \in [Entries -> Results], track \in BOOLEAN
  PROVE  Slots(rule, marks) \in Nat
<1>1. CASE track
  BY <1>1, RulesAssumption DEF Slots, Rules
<1>2. CASE ~track
  <2>1. Outright(rule, marks) \in SUBSET Marked(marks)
    BY DEF Outright, TopPlaces, OnStandard
  <2>2. Cardinality(Outright(rule, marks)) \in Nat
    BY <2>1, MarkedFacts, FS_Subset, FS_CardinalityType
  <2>3. rule.capacity \in Int
    BY <1>2, RulesAssumption DEF Rules
  <2> QED
    BY <1>2, <2>2, <2>3 DEF Slots
<1> QED
  BY <1>1, <1>2

\* When not all fit the code finds a cutoff: fewer than the slots are better,
\* and with those level the slots are filled.
LEMMA CutoffCuts ==
  ASSUME NEW rule, NEW marks \in [Entries -> Results],
         NEW rest \in SUBSET Entries, \A e \in rest : marks[e] \in Marks,
         NEW slots \in Nat, 0 < slots, slots < Cardinality(rest)
  PROVE  LET cutoff == Cutoff(rule, rest, slots, marks)
         IN  /\ cutoff \in Marks
             /\ Cardinality({e \in rest : Better(rule, marks[e], cutoff)}) < slots
             /\ Cardinality({e \in rest : ~Better(rule, cutoff, marks[e])}) >= slots
<1> DEFINE W == {p \in Entries \X Entries : Better(rule, marks[p[1]], marks[p[2]])}
<1>1. \A e, d \in rest : <<e, d>> \in W <=> Better(rule, marks[e], marks[d])
  OBVIOUS
<1>2. \A e \in rest : marks[e] \in Nat
  BY MarksAssumption
<1> HIDE DEF W
<1>3. WeakOrder(W, rest)
  <2>1. \A e \in rest : <<e, e>> \notin W
    BY <1>1, <1>2 DEF Better
  <2>2. \A e, d, f \in rest : <<e, d>> \in W => <<e, f>> \in W \/ <<f, d>> \in W
    BY <1>1, <1>2 DEF Better
  <2>3. \A e, d \in rest : <<e, d>> \in W => <<d, e>> \notin W
    BY <1>1, <1>2 DEF Better
  <2> QED
    BY <2>1, <2>2, <2>3 DEF WeakOrder
<1>4. IsFiniteSet(rest) /\ Cardinality(rest) \in Nat
  BY SomebodyAssumption, FS_Subset, FS_CardinalityType
<1>5. PICK x \in rest : /\ Cardinality(AheadOf(x, W, rest)) < slots
                        /\ Cardinality({y \in rest : <<x, y>> \notin W}) >= slots
  BY <1>3, <1>4, TheLastWhoFits
<1>6. AheadOf(x, W, rest) = {e \in rest : Better(rule, marks[e], marks[x])}
  BY <1>1 DEF AheadOf
<1>7. {y \in rest : <<x, y>> \notin W} = {e \in rest : ~Better(rule, marks[x], marks[e])}
  BY <1>1
<1>8. \E m \in Marks : /\ Cardinality({e \in rest : Better(rule, marks[e], m)}) < slots
                       /\ Cardinality({e \in rest : ~Better(rule, m, marks[e])}) >= slots
  BY <1>5, <1>6, <1>7
<1> QED
  BY <1>8 DEF Cutoff

\* Of those who get no Q: what each result of a call that has a cutoff is made of.
LEMMA CutFacts ==
  ASSUME NEW rule \in Rules, NEW marks \in [Entries -> Results], track \in BOOLEAN,
         Slots(rule, marks) # 0, Cardinality(Rest(rule, marks)) > Slots(rule, marks)
  PROVE  LET rest == Rest(rule, marks)
             slots == Slots(rule, marks)
             cutoff == Cutoff(rule, rest, slots, marks)
             secured == {e \in rest : Better(rule, marks[e], cutoff)}
             atCutoff == {e \in rest : marks[e] = cutoff}
         IN  /\ cutoff \in Nat
             /\ Cardinality(secured) \in Nat /\ Cardinality(atCutoff) \in Nat
             /\ Cardinality(secured) < slots
             /\ Cardinality(secured) + Cardinality(atCutoff) >= slots
             /\ Cardinality(secured \union atCutoff) = Cardinality(secured) + Cardinality(atCutoff)
             /\ \A e \in rest \ (secured \union atCutoff) : Better(rule, cutoff, marks[e])
<1> DEFINE rest == Rest(rule, marks)
           slots == Slots(rule, marks)
           cutoff == Cutoff(rule, rest, slots, marks)
           secured == {e \in rest : Better(rule, marks[e], cutoff)}
           atCutoff == {e \in rest : marks[e] = cutoff}
<1>1. slots \in Nat
  BY SlotsAreNatural
<1>2. rest \in SUBSET Entries /\ IsFiniteSet(rest) /\ \A e \in rest : marks[e] \in Marks /\ marks[e] \in Nat
  BY RestFacts
<1> HIDE DEF rest, slots
<1>3. /\ cutoff \in Marks
      /\ Cardinality(secured) < slots
      /\ Cardinality({e \in rest : ~Better(rule, cutoff, marks[e])}) >= slots
  BY <1>1, <1>2, CutoffCuts DEF rest, slots
<1>4. cutoff \in Nat
  BY <1>3, MarksAssumption
<1> HIDE DEF cutoff
<1>5. {e \in rest : ~Better(rule, cutoff, marks[e])} = secured \union atCutoff
  BY <1>2, <1>4 DEF Better
<1>6. secured \intersect atCutoff = {}
  BY <1>2, <1>4 DEF Better
<1>7. secured \in SUBSET rest /\ atCutoff \in SUBSET rest
  OBVIOUS
<1>8. \A e \in rest \ (secured \union atCutoff) : Better(rule, cutoff, marks[e])
  BY <1>5
<1> HIDE DEF secured, atCutoff
<1>9. IsFiniteSet(secured) /\ IsFiniteSet(atCutoff)
  BY <1>2, <1>7, FS_Subset
<1>10. Cardinality(secured) \in Nat /\ Cardinality(atCutoff) \in Nat
  BY <1>9, FS_CardinalityType
<1>11. Cardinality(secured \union atCutoff) = Cardinality(secured) + Cardinality(atCutoff)
  <2>1. Cardinality(secured \union atCutoff)
          = Cardinality(secured) + Cardinality(atCutoff) - Cardinality(secured \intersect atCutoff)
    BY <1>9, FS_Union
  <2>2. Cardinality(secured \intersect atCutoff) = 0
    BY <1>6, FS_EmptySet
  <2> QED
    BY <1>10, <2>1, <2>2
<1>12. Cardinality(secured) + Cardinality(atCutoff) >= slots
  BY <1>3, <1>5, <1>11
<1> QED
  BY <1>3, <1>4, <1>8, <1>10, <1>11, <1>12 DEF rest, slots, cutoff, secured, atCutoff

LEMMA ByMarkFair ==
  ASSUME NEW rule \in Rules, NEW marks \in [Entries -> Results], track \in BOOLEAN
  PROVE  ByMarkIsFair(rule, marks)
<1> DEFINE rest == Rest(rule, marks)
           slots == Slots(rule, marks)
           cutoff == Cutoff(rule, rest, slots, marks)
           secured == {e \in rest : Better(rule, marks[e], cutoff)}
           atCutoff == {e \in rest : marks[e] = cutoff}
           result == ByMark(rule, marks)
<1>1. slots \in Nat
  BY SlotsAreNatural
<1>2. IsFiniteSet(rest) /\ Cardinality(rest) \in Nat /\ \A e \in rest : marks[e] \in Nat
  BY RestFacts, FS_CardinalityType
<1>3. CASE slots = 0
  <2>1. result.q = {} /\ result.tied = {}
    BY <1>3 DEF ByMark
  <2>2. Cardinality({}) = 0
    BY FS_EmptySet
  <2> QED
    BY <1>3, <2>1, <2>2 DEF ByMarkIsFair
<1>4. CASE slots # 0 /\ Cardinality(rest) <= slots
  <2>1. result.q = rest /\ result.tied = {}
    BY <1>4 DEF ByMark
  <2> HIDE DEF rest, slots, result
  <2>2. slots - Cardinality(rest) >= 0
    BY <1>1, <1>2, <1>4
  <2> QED
    BY <2>1, <2>2 DEF ByMarkIsFair, rest, slots, result
<1>5. CASE slots # 0 /\ ~(Cardinality(rest) <= slots)
  <2>1. /\ cutoff \in Nat
        /\ Cardinality(secured) \in Nat /\ Cardinality(atCutoff) \in Nat
        /\ Cardinality(secured) < slots
        /\ Cardinality(secured) + Cardinality(atCutoff) >= slots
        /\ Cardinality(secured \union atCutoff) = Cardinality(secured) + Cardinality(atCutoff)
        /\ \A e \in rest \ (secured \union atCutoff) : Better(rule, cutoff, marks[e])
    <3>1. Cardinality(rest) > slots
      BY <1>1, <1>2, <1>5
    <3> QED
      BY <1>5, <3>1, CutFacts
  <2> DEFINE left == slots - Cardinality(secured)
  <2>2. result = IF Cardinality(atCutoff) <= left
                 THEN [q |-> secured \union atCutoff, tied |-> {}, left |-> 0]
                 ELSE [q |-> secured, tied |-> atCutoff, left |-> left]
    BY <1>5 DEF ByMark
  <2>3. secured \union atCutoff \subseteq rest /\ secured \intersect atCutoff = {}
    BY <1>2, <2>1 DEF Better
  <2>4. \A e \in secured \union atCutoff, d \in rest \ (secured \union atCutoff) :
          Better(rule, marks[e], marks[d])
    <3> SUFFICES ASSUME NEW e \in secured \union atCutoff,
                        NEW d \in rest \ (secured \union atCutoff)
                 PROVE  Better(rule, marks[e], marks[d])
      OBVIOUS
    <3>1. Better(rule, cutoff, marks[d])
      BY <2>1
    <3>2. marks[e] = cutoff \/ Better(rule, marks[e], cutoff)
      OBVIOUS
    <3>3. marks[e] \in Nat /\ marks[d] \in Nat /\ cutoff \in Nat
      BY <1>2, <2>1
    <3> HIDE DEF cutoff
    <3> QED
      BY <3>1, <3>2, <3>3 DEF Better
  <2>5. \A e \in secured, d \in atCutoff : Better(rule, marks[e], marks[d])
    OBVIOUS
  <2>6. CASE Cardinality(atCutoff) <= left
    <3>1. result.q = secured \union atCutoff /\ result.tied = {}
      BY <2>2, <2>6
    <3>2. slots - Cardinality(secured \union atCutoff) = 0
      <4> HIDE DEF slots, secured, atCutoff
      <4> QED
        BY <1>1, <2>1, <2>6
    <3> HIDE DEF secured, atCutoff, slots, rest, result
    <3> QED
      BY <2>3, <2>4, <3>1, <3>2 DEF ByMarkIsFair, slots, rest, result
  <2>7. CASE ~(Cardinality(atCutoff) <= left)
    <3>1. result.q = secured /\ result.tied = atCutoff /\ result.left = left
      BY <2>2, <2>7
    <3>2. left >= 0 /\ left \in 1..(Cardinality(atCutoff) - 1)
      <4> HIDE DEF slots, secured, atCutoff
      <4> QED
        BY <1>1, <2>1, <2>7
    <3>3. atCutoff # {}
      <4>1. Cardinality(atCutoff) # 0
        BY <3>2, <2>1
      <4> QED
        BY <4>1, FS_EmptySet
    <3>4. \A e \in atCutoff, d \in rest \ secured :
            IF d \in atCutoff THEN marks[d] = marks[e] ELSE Better(rule, marks[e], marks[d])
      BY <2>4
    <3>5. \A e \in secured, d \in rest \ secured : Better(rule, marks[e], marks[d])
      BY <2>4, <2>5
    <3>6. left = slots - Cardinality(secured)
      OBVIOUS
    <3> HIDE DEF secured, atCutoff, slots, rest, result, left
    <3> QED
      BY <2>3, <3>1, <3>2, <3>3, <3>4, <3>5, <3>6 DEF ByMarkIsFair, slots, rest, result
  <2> QED
    BY <2>6, <2>7
<1> QED
  BY <1>3, <1>4, <1>5

\* Whatever is corrected while a call reads and whatever the rules, numbers of
\* entries and ties: those AdvanceRound computes are the ones its rule names.
THEOREM QualifiersAreRight == ProgressSpec => []QualifiersAreFair
<1>1. ProgressInv => QualifiersAreFair
  <2> SUFFICES ASSUME ProgressInv, NEW o \in Offices, AllRead(o)
               PROVE  /\ OutrightIsFair(advances[o].rule, advances[o].heard)
                      /\ ByMarkIsFair(advances[o].rule, advances[o].heard)
    BY DEF QualifiersAreFair
  <2>1. advances[o].rule \in Rules /\ track \in BOOLEAN
    BY DEF ProgressInv, ProgressTypeOK, AllRead
  <2>2. advances[o].heard \in [Entries -> Results]
    BY DEF ProgressInv, ProgressTypeOK, Advance
  <2> QED
    BY <2>1, <2>2, OutrightFair, ByMarkFair
<1> QED
  BY <1>1, ProgressIsSound, PTL
=============================================================================
