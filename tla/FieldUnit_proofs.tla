-------------------------- MODULE FieldUnit_proofs --------------------------
(***************************************************************************)
(* Proofs about FieldUnit, for any athletes, requests, marks, progressions *)
(* and bounds.                                                             *)
(*                                                                         *)
(* Types rest on what a request at a step holds (CallsInv) and on where    *)
(* the trials of a vertical unit can be (PlacesInv). That the progression  *)
(* only grows rests on what a form has shown its reader (FormsInv), and    *)
(* that results follow the trials on both and on the progression a capture *)
(* has read being a beginning of the present one (ReadersInv).             *)
(***************************************************************************)
EXTENDS FieldUnit, RankingFacts, SequenceTheorems

-----------------------------------------------------------------------------
(* The largest of a bounded set of numbers, and what a series gives. *)

LEMMA NatIsWellFounded ==
  IsWellFoundedOn({ss \in Nat \X Nat : ss[1] < ss[2]}, Nat)
BY NatLessThanWellFounded, Zenon DEF OpToRel

LEMMA MaxIsIn ==
  ASSUME NEW n \in Nat, NEW S, S \subseteq 0..n, S # {}
  PROVE  Max(S) \in S /\ \A x \in S : Max(S) >= x
<1> DEFINE T == {n - x : x \in S}
           R == {ss \in Nat \X Nat : ss[1] < ss[2]}
<1>1. T \subseteq Nat
  <2>1. \A x \in S : n - x \in Nat
    OBVIOUS
  <2> QED BY <2>1
<1>2. PICK x0 \in S : TRUE
  OBVIOUS
<1>3. n - x0 \in T
  OBVIOUS
<1>4. PICK t \in T : \A u \in T : ~(<<u, t>> \in R)
  <2> HIDE DEF T, R
  <2>1. IsWellFoundedOn(R, Nat)
    BY NatIsWellFounded DEF R
  <2>2. T # {}
    BY <1>3
  <2> QED BY <1>1, <2>1, <2>2, WFMin
<1>5. \A u \in T : u >= t
  <2> TAKE u \in T
  <2>1. u \in Nat /\ t \in Nat
    BY <1>1
  <2>2. ~(<<u, t>> \in R)
    BY <1>4
  <2> HIDE DEF T
  <2> QED BY <2>1, <2>2
<1>6. PICK x \in S : t = n - x
  OBVIOUS
<1>7. \A y \in S : x >= y
  <2> TAKE y \in S
  <2>1. n - y >= t
    BY <1>5
  <2>2. x \in 0..n /\ y \in 0..n
    OBVIOUS
  <2> HIDE DEF T
  <2> QED BY <1>6, <2>1, <2>2
<1> HIDE DEF T
<1> QED BY <1>7 DEF Max

Series == [Places -> TrialRows]

\* The places of heights.
HeightPlaces == 1..(3 * MaxHeights)

LEMMA BestIsAMark ==
  ASSUME NEW s \in Series, Valid(s) # {}
  PROVE  /\ Best(s) \in 0..MaxMark
         /\ \E p \in Valid(s) : Best(s) = s[p].mark
         /\ \A p \in Valid(s) : Best(s) >= s[p].mark
<1> DEFINE S == {s[p].mark : p \in Valid(s)}
<1>1. \A p \in Valid(s) : s[p].mark \in 0..MaxMark
  BY DEF Series, TrialRows, Valid, PlacesOf
<1>2. S \subseteq 0..MaxMark /\ S # {}
  BY <1>1
<1>3. Max(S) \in S /\ \A x \in S : Max(S) >= x
  <2> HIDE DEF S
  <2> QED BY <1>2, MaxIsIn, FieldBoundsAssumption
<1> QED BY <1>2, <1>3 DEF Best

LEMMA BestIdxIsAHeight ==
  ASSUME NEW s, Valid(s) # {}, Valid(s) \subseteq HeightPlaces
  PROVE  BestIdx(s) \in HeightIdxs
<1> DEFINE S == {h \in HeightIdxs : AtHeight(h) \intersect Valid(s) # {}}
<1>1. PICK p \in Valid(s) : p \in HeightPlaces
  OBVIOUS
<1>2. PICK h \in HeightIdxs : p \in AtHeight(h)
  <2>1. \E h \in 0..(MaxHeights - 1) : p >= 3 * h + 1 /\ p <= 3 * h + 3
    <3> DEFINE h == (p - 1) \div 3
    <3>1. p \in Nat /\ p >= 1 /\ p <= 3 * MaxHeights /\ MaxHeights \in Nat
      BY <1>1, FieldBoundsAssumption DEF HeightPlaces
    <3>2. h \in 0..(MaxHeights - 1) /\ p >= 3 * h + 1 /\ p <= 3 * h + 3
      BY <3>1
    <3> QED BY <3>2
  <2> QED BY <2>1, <1>1, FieldBoundsAssumption DEF HeightIdxs, AtHeight, HeightPlaces
<1>3. S \subseteq 0..MaxHeights /\ S # {}
  BY <1>1, <1>2, FieldBoundsAssumption DEF HeightIdxs
<1>4. Max(S) \in S
  <2> HIDE DEF S
  <2> QED BY <1>3, MaxIsIn, FieldBoundsAssumption
<1> QED BY <1>4 DEF BestIdx

-----------------------------------------------------------------------------
(* Types. *)

\* What a request at a step holds.
CallInv(call) ==
  /\ call \in CallStates
  /\ call.at \in {"heights", "save"} =>
       call.athlete \in Athletes /\ call.place \in Places /\ call.trial.kind # "none"
  /\ call.at = "set" => call.list \in Progressions

CallsInv == \A c \in Calls : CallInv(calls[c])

\* Vertical trials are at heights, captured or about to be.
PlacesInv ==
  Vertical =>
    /\ \A a \in Athletes : Taken(trials[a]) \subseteq HeightPlaces
    /\ \A c \in Calls : At(c, "save") => calls[c].place \in HeightPlaces

TypeInv == FieldTypeOK /\ CallsInv /\ PlacesInv

LEMMA NoSeriesTyped == NoSeries \in Series /\ Taken(NoSeries) = {}
BY FieldBoundsAssumption
   DEF NoSeries, Series, NoTrial, TrialRow, Nothing, TrialRows, TrialKinds, Taken, PlacesOf

LEMMA MarkRange == 1..MaxMark \subseteq 0..MaxMark /\ 0 \in 0..MaxMark
BY FieldBoundsAssumption

LEMMA NoResultTyped == NoResult \in ResultRows
<1>1. 0 \in 0..MaxMark
  BY FieldBoundsAssumption
<1>2. "" \in Statuses /\ "nobody" \in {"nobody", "series", "office"}
  BY DEF Statuses
<1> QED BY <1>1, <1>2, Zenon DEF NoResult, ResultRows

LEMMA NoResultFields == NoResult.mark = 0 /\ NoResult.status = ""
BY Zenon DEF NoResult

LEMMA NoCallInv == CallInv(NoCall)
<1>1. NoCall \in CallStates
  BY FieldBoundsAssumption DEF NoCall, CallStates, Nothing
<1> QED BY <1>1 DEF NoCall, CallInv

LEMMA ValidIsTaken == \A s : Valid(s) \subseteq Taken(s)
BY DEF Valid, Taken, PlacesOf

\* A result settled from a typed series and progression is a result.
LEMMA SettledTyped ==
  ASSUME NEW s \in Series, NEW list \in Seq(1..MaxMark),
         Vertical /\ Valid(s) # {} => Valid(s) \subseteq HeightPlaces /\ BestIdx(s) < Len(list)
  PROVE  Settled(s, list) \in ResultRows
<1>1. SeriesStatus(s) \in Statuses
  BY DEF SeriesStatus, Statuses
<1>2. 0 \in 0..MaxMark
  BY FieldBoundsAssumption
<1>3. ASSUME Valid(s) # {}, Vertical
      PROVE  list[BestIdx(s) + 1] \in 0..MaxMark
  <2>1. BestIdx(s) \in Nat /\ BestIdx(s) < Len(list)
    BY <1>3, BestIdxIsAHeight, FieldBoundsAssumption DEF HeightIdxs
  <2>2. BestIdx(s) + 1 \in 1..Len(list)
    BY <2>1
  <2>3. list[BestIdx(s) + 1] \in 1..MaxMark
    BY <2>2, ElementOfSeq
  <2> QED BY <2>3
<1>4. ASSUME Valid(s) # {}
      PROVE  Best(s) \in 0..MaxMark
  BY <1>4, BestIsAMark
<1> QED BY <1>1, <1>2, <1>3, <1>4 DEF Settled, ResultRows

LEMMA TypeInit == FieldInit => TypeInv
<1> SUFFICES ASSUME FieldInit PROVE TypeInv
  OBVIOUS
<1> USE DEF FieldInit
<1>1. heights.list \in Seq(1..MaxMark) /\ Len(heights.list) <= MaxHeights /\ heights.version \in 0..MaxSets
  BY FieldBoundsAssumption
<1>2. trials \in [Athletes -> [Places -> TrialRows]] /\ \A a \in Athletes : Taken(trials[a]) = {}
  BY NoSeriesTyped DEF Series
<1>3. NoResult \in ResultRows
  BY NoResultTyped
<1>4. CallsInv
  BY NoCallInv DEF CallsInv
<1>5. calls \in [Calls -> CallStates]
  BY NoCallInv DEF CallInv
<1>6. FieldTypeOK
  BY <1>1, <1>2, <1>3, <1>5 DEF FieldTypeOK
<1>7. PlacesInv
  BY <1>2 DEF PlacesInv, At, NoCall
<1> QED BY <1>4, <1>6, <1>7 DEF TypeInv

\* A step that leaves the trials alone and moves one request.
LEMMA TypeCall ==
  ASSUME TypeInv, NEW c \in Calls, NEW call, CallInv(call), Continue(c, call),
         UNCHANGED <<family, trials>>,
         Vertical /\ call.at = "save" => call.place \in HeightPlaces
  PROVE  CallsInv' /\ PlacesInv' /\ calls' \in [Calls -> CallStates]
<1> USE DEF TypeInv, FieldTypeOK
<1>1. calls' = [calls EXCEPT ![c] = call]
  BY DEF Continue
<1>2. calls' \in [Calls -> CallStates]
  BY <1>1 DEF CallInv
<1>3. \A d \in Calls : calls'[d] = IF d = c THEN call ELSE calls[d]
  BY <1>1
<1>4. CallsInv'
  BY <1>3 DEF CallsInv
<1>5. PlacesInv'
  BY <1>3 DEF PlacesInv, At, Vertical
<1> QED BY <1>2, <1>4, <1>5

\* A step that moves one request and nothing else.
LEMMA TypeReads ==
  ASSUME TypeInv, NEW c \in Calls, NEW call, CallInv(call), Continue(c, call), Reads,
         Vertical /\ call.at = "save" => call.place \in HeightPlaces
  PROVE  TypeInv'
<1>1. UNCHANGED <<family, heights, trials, results, announced>>
  BY DEF Reads
<1>2. CallsInv' /\ PlacesInv' /\ calls' \in [Calls -> CallStates]
  BY <1>1, TypeCall
<1>3. FieldTypeOK'
  BY <1>1, <1>2 DEF TypeInv, FieldTypeOK
<1> QED BY <1>2, <1>3 DEF TypeInv

LEMMA TypeAbort ==
  ASSUME TypeInv, NEW c \in Calls, Abort(c) PROVE TypeInv'
<1>1. Continue(c, NoCall) /\ Reads
  BY DEF Abort, End
<1>2. NoCall.at = "idle"
  BY DEF NoCall
<1> QED BY <1>1, <1>2, NoCallInv, TypeReads

LEMMA TypeSaveTrial ==
  ASSUME TypeInv, NEW c \in Calls, NEW a \in Athletes, NEW p \in Places,
         NEW value \in Captured, NEW v \in 0..MaxVersion, SaveTrial(c, a, p, value, v)
  PROVE  TypeInv'
<1> DEFINE call == [NoCall EXCEPT !.at = IF Vertical THEN "heights" ELSE "save", !.athlete = a,
                                  !.place = p, !.trial = value, !.expected = v]
<1>1. Continue(c, call) /\ Reads
  BY DEF SaveTrial
<1>2. value \in [kind : TrialKinds \union {"none"}, mark : 0..MaxMark] /\ value.kind # "none"
  BY FieldBoundsAssumption DEF Captured, TrialKinds
<1>3. v \in Nat
  BY FieldBoundsAssumption
<1>4. call \in CallStates
  <2>1. NoCall \in CallStates
    BY NoCallInv DEF CallInv
  <2>2. (IF Vertical THEN "heights" ELSE "save") \in {"idle", "heights", "save", "form", "set"}
    OBVIOUS
  <2> QED BY <1>2, <1>3, <2>1, <2>2 DEF CallStates
<1>5. /\ call.at = (IF Vertical THEN "heights" ELSE "save")
      /\ call.athlete = a /\ call.place = p /\ call.trial = value
  BY DEF NoCall
<1>6. CallInv(call) /\ ~(Vertical /\ call.at = "save")
  <2> HIDE DEF call
  <2> QED BY <1>2, <1>4, <1>5 DEF CallInv
<1> HIDE DEF call
<1> QED BY <1>1, <1>6, TypeReads

LEMMA TypeReadHeights ==
  ASSUME TypeInv, NEW c \in Calls, ReadHeights(c) PROVE TypeInv'
<1>1. CallInv(calls[c]) /\ At(c, "heights") /\ Reads
  BY DEF ReadHeights, TypeInv, CallsInv
<1>2. CASE calls[c].place \in 1..(3 * Len(heights.list))
  <2> DEFINE call == [calls[c] EXCEPT !.list = heights.list, !.at = "save"]
  <2>1. Continue(c, call)
    BY <1>2 DEF ReadHeights
  <2>2. heights.list \in Seq(1..MaxMark) /\ Len(heights.list) <= MaxHeights
    BY DEF TypeInv, FieldTypeOK
  <2>3. call \in CallStates /\ call.at = "save" /\ call.athlete = calls[c].athlete
          /\ call.place = calls[c].place /\ call.trial = calls[c].trial
    BY <1>1, <2>2 DEF CallInv, CallStates
  <2>4. CallInv(call)
    <3> HIDE DEF call
    <3> QED BY <1>1, <2>3 DEF CallInv, At
  <2>5. call.place \in HeightPlaces
    BY <1>2, <2>2, <2>3, FieldBoundsAssumption DEF HeightPlaces
  <2> HIDE DEF call
  <2> QED BY <1>1, <2>1, <2>4, <2>5, TypeReads
<1>3. CASE calls[c].place \notin 1..(3 * Len(heights.list))
  <2>1. Continue(c, NoCall) /\ NoCall.at = "idle"
    BY <1>3 DEF ReadHeights, End, NoCall
  <2> QED BY <1>1, <2>1, NoCallInv, TypeReads
<1> QED BY <1>2, <1>3

LEMMA TypeForms ==
  ASSUME TypeInv, NEW c \in Calls,
         \/ OpenHeightsForm(c)
         \/ \E list \in Progressions : FirstHeights(c, list)
         \/ \E h \in 1..MaxMark : AddHeight(c, h)
  PROVE  TypeInv'
<1>1. CallInv(calls[c])
  BY DEF TypeInv, CallsInv
<1>2. CASE OpenHeightsForm(c)
  <2> DEFINE call == [NoCall EXCEPT !.at = "form", !.list = heights.list]
  <2>1. Continue(c, call) /\ Reads
    BY <1>2 DEF OpenHeightsForm
  <2>2. heights.list \in Seq(1..MaxMark)
    BY DEF TypeInv, FieldTypeOK
  <2>3. call \in CallStates /\ call.at = "form"
    BY <2>2, NoCallInv DEF CallInv, CallStates, NoCall
  <2>4. CallInv(call)
    <3> HIDE DEF call
    <3> QED BY <2>3 DEF CallInv
  <2> HIDE DEF call
  <2> QED BY <2>1, <2>3, <2>4, TypeReads
<1>3. ASSUME NEW list \in Progressions, FirstHeights(c, list) PROVE TypeInv'
  <2> DEFINE call == [calls[c] EXCEPT !.list = list, !.at = "set"]
  <2>1. Continue(c, call) /\ Reads
    BY <1>3 DEF FirstHeights
  <2>2. list \in Seq(1..MaxMark)
    BY ProgressionsAssumption
  <2>3. call \in CallStates /\ call.at = "set" /\ call.list = list
    BY <1>1, <2>2 DEF CallInv, CallStates
  <2>4. CallInv(call)
    <3> HIDE DEF call
    <3> QED BY <2>3 DEF CallInv
  <2> HIDE DEF call
  <2> QED BY <2>1, <2>3, <2>4, TypeReads
<1>4. ASSUME NEW h \in 1..MaxMark, AddHeight(c, h) PROVE TypeInv'
  <2> DEFINE longer == Append(calls[c].list, h)
             call == [calls[c] EXCEPT !.list = longer, !.expected = Len(calls[c].list), !.at = "set"]
  <2>1. Reads /\ longer \in Progressions
    BY <1>4 DEF AddHeight
  <2>2. Continue(c, call) \/ Continue(c, NoCall)
    BY <1>4 DEF AddHeight, End
  <2>3. longer \in Seq(1..MaxMark) /\ Len(calls[c].list) \in Nat
    BY <1>1, <2>1, ProgressionsAssumption DEF CallInv, CallStates
  <2>4. call \in CallStates /\ call.at = "set" /\ call.list = longer
    <3> HIDE DEF longer
    <3> QED BY <1>1, <2>3 DEF CallInv, CallStates
  <2>5. CallInv(call) /\ CallInv(NoCall) /\ NoCall.at = "idle"
    <3>1. NoCall.at = "idle"
      BY DEF NoCall
    <3> HIDE DEF call, longer
    <3> QED BY <2>1, <2>4, <3>1, NoCallInv DEF CallInv
  <2> HIDE DEF call
  <2> QED BY <2>1, <2>2, <2>4, <2>5, TypeReads
<1> QED BY <1>2, <1>3, <1>4

LEMMA TypeSetHeights ==
  ASSUME TypeInv, NEW c \in Calls, SetHeights(c) PROVE TypeInv'
<1>1. Continue(c, NoCall) /\ UNCHANGED <<family, trials, results, announced>> /\ NoCall.at = "idle"
  BY DEF SetHeights, End, NoCall
<1>2. CallsInv' /\ PlacesInv' /\ calls' \in [Calls -> CallStates]
  BY <1>1, NoCallInv, TypeCall
<1>3. calls[c].list \in Seq(1..MaxMark) /\ Len(calls[c].list) <= MaxHeights
  BY ProgressionsAssumption, FieldBoundsAssumption DEF SetHeights, At, TypeInv, CallsInv, CallInv
<1>4. /\ heights'.list \in Seq(1..MaxMark) /\ Len(heights'.list) <= MaxHeights
      /\ heights'.version \in 0..MaxSets
  BY <1>3, FieldBoundsAssumption DEF SetHeights, TypeInv, FieldTypeOK
<1>5. FieldTypeOK'
  BY <1>1, <1>2, <1>4 DEF TypeInv, FieldTypeOK
<1> QED BY <1>2, <1>5 DEF TypeInv
\* What a capture stores: a typed series, at heights when the unit is vertical.
LEMMA SaveStores ==
  ASSUME TypeInv, NEW c \in Calls, At(c, "save"),
         LET call == calls[c]
             old == trials[call.athlete][call.place]
         IN  old.version < MaxVersion
  PROVE  LET call == calls[c]
             old == trials[call.athlete][call.place]
             series == [trials[call.athlete] EXCEPT
                          ![call.place] = TrialRow(call.trial, old.version + 1)]
         IN  /\ call.athlete \in Athletes /\ call.place \in Places /\ call.list \in Seq(1..MaxMark)
             /\ series \in Series
             /\ call.place \in Taken(series)
             /\ Vertical => Taken(series) \subseteq HeightPlaces
<1> DEFINE call == calls[c]
           old == trials[call.athlete][call.place]
           row == TrialRow(call.trial, old.version + 1)
           series == [trials[call.athlete] EXCEPT ![call.place] = row]
<1>1. /\ call.athlete \in Athletes /\ call.place \in Places /\ call.list \in Seq(1..MaxMark)
      /\ call.trial.kind # "none"
      /\ call.trial \in [kind : TrialKinds \union {"none"}, mark : 0..MaxMark]
  BY DEF TypeInv, CallsInv, CallInv, CallStates, At
<1>2. trials[call.athlete] \in Series /\ old \in TrialRows
  BY <1>1 DEF TypeInv, FieldTypeOK, Series
<1>3. old.version + 1 \in 0..MaxVersion
  BY <1>2, FieldBoundsAssumption DEF TrialRows
<1>4. row \in TrialRows /\ row.kind # "none"
  <2> HIDE DEF call, old
  <2> QED BY <1>1, <1>3 DEF TrialRow, TrialRows
<1>5. series \in Series
  <2> HIDE DEF call, row
  <2> QED BY <1>1, <1>2, <1>4 DEF Series
<1>6. Taken(series) = Taken(trials[call.athlete]) \union {call.place}
  <2> HIDE DEF call, row
  <2> QED BY <1>1, <1>2, <1>4 DEF Series, Taken, PlacesOf
<1>7. Vertical => call.place \in HeightPlaces /\ Taken(trials[call.athlete]) \subseteq HeightPlaces
  BY <1>1 DEF TypeInv, PlacesInv
<1> QED BY <1>1, <1>5, <1>6, <1>7

LEMMA TypeSave ==
  ASSUME TypeInv, NEW c \in Calls, Save(c) PROVE TypeInv'
<1> DEFINE call == calls[c]
           old == trials[call.athlete][call.place]
           series == [trials[call.athlete] EXCEPT
                        ![call.place] = TrialRow(call.trial, old.version + 1)]
           unknown == Vertical /\ Valid(series) # {} /\ BestIdx(series) >= Len(call.list)
<1>1. /\ Continue(c, NoCall) /\ NoCall.at = "idle" /\ At(c, "save")
      /\ UNCHANGED <<family, heights, announced>>
  BY DEF Save, End, NoCall
<1>2. /\ call.athlete \in Athletes /\ call.place \in Places /\ call.list \in Seq(1..MaxMark)
      /\ series \in Series
      /\ Vertical => Taken(series) \subseteq HeightPlaces
  BY <1>1, SaveStores DEF Save
<1>3. \/ UNCHANGED <<trials, results>>
      \/ /\ ~unknown
         /\ trials' = [trials EXCEPT ![call.athlete] = series]
         /\ results' = [results EXCEPT ![call.athlete] = Settled(series, call.list)]
  BY DEF Save
<1> HIDE DEF call, series
<1>4. calls' \in [Calls -> CallStates] /\ CallsInv'
  BY <1>1, NoCallInv DEF TypeInv, FieldTypeOK, CallsInv, CallInv, Continue
<1>5. CASE UNCHANGED <<trials, results>>
  <2>1. CallsInv' /\ PlacesInv' /\ calls' \in [Calls -> CallStates]
    BY <1>1, <1>5, NoCallInv, TypeCall
  <2> QED BY <1>1, <1>5, <2>1 DEF TypeInv, FieldTypeOK
<1>6. CASE /\ ~unknown
           /\ trials' = [trials EXCEPT ![call.athlete] = series]
           /\ results' = [results EXCEPT ![call.athlete] = Settled(series, call.list)]
  <2>1. Vertical /\ Valid(series) # {} =>
          Valid(series) \subseteq HeightPlaces /\ BestIdx(series) < Len(call.list)
    <3> SUFFICES ASSUME Vertical, Valid(series) # {}
                 PROVE  Valid(series) \subseteq HeightPlaces /\ BestIdx(series) < Len(call.list)
      OBVIOUS
    <3>1. Valid(series) \subseteq HeightPlaces
      BY <1>2, ValidIsTaken
    <3>2. BestIdx(series) \in Nat /\ Len(call.list) \in Nat
      BY <1>2, <3>1, BestIdxIsAHeight, FieldBoundsAssumption DEF HeightIdxs
    <3> QED BY <1>6, <3>1, <3>2
  <2>2. Settled(series, call.list) \in ResultRows
    BY <1>2, <2>1, SettledTyped
  <2>3. results' \in [Athletes -> ResultRows]
    BY <1>6, <2>2 DEF TypeInv, FieldTypeOK
  <2>4. trials' \in [Athletes -> [Places -> TrialRows]]
    BY <1>2, <1>6 DEF TypeInv, FieldTypeOK, Series
  <2>5. \A a \in Athletes : trials'[a] = IF a = call.athlete THEN series ELSE trials[a]
    BY <1>6 DEF TypeInv, FieldTypeOK
  <2>6. \A d \in Calls : calls'[d] = IF d = c THEN NoCall ELSE calls[d]
    BY <1>1 DEF Continue, TypeInv, FieldTypeOK
  <2>7. PlacesInv'
    BY <1>1, <1>2, <2>5, <2>6 DEF TypeInv, PlacesInv, At, Vertical
  <2>8. FieldTypeOK'
    BY <1>1, <1>4, <2>3, <2>4 DEF TypeInv, FieldTypeOK
  <2> QED BY <1>4, <2>7, <2>8 DEF TypeInv
<1> QED BY <1>3, <1>5, <1>6

LEMMA TypeOffice ==
  ASSUME TypeInv,
         \/ AnnounceUnitResults
         \/ \E a \in Athletes, m \in 1..MaxMark : CorrectResult(a, m, "")
         \/ \E a \in Athletes, s \in {"NM", "DNS"} : CorrectResult(a, 0, s)
  PROVE  TypeInv'
<1>1. UNCHANGED <<family, heights, trials, calls>> /\ announced' = TRUE
  BY DEF AnnounceUnitResults, CorrectResult
<1>2. results' \in [Athletes -> ResultRows]
  <2>1. CASE AnnounceUnitResults
    BY <2>1 DEF AnnounceUnitResults, TypeInv, FieldTypeOK
  <2>2. ASSUME NEW a \in Athletes, NEW m \in 0..MaxMark, NEW s \in Statuses, CorrectResult(a, m, s)
        PROVE  results' \in [Athletes -> ResultRows]
    <3>1. [by |-> "office", mark |-> m, status |-> s] \in ResultRows
      BY DEF ResultRows
    <3> QED BY <2>2, <3>1 DEF CorrectResult, TypeInv, FieldTypeOK
  <2>3. 1..MaxMark \subseteq 0..MaxMark /\ 0 \in 0..MaxMark
    BY MarkRange
  <2>4. "" \in Statuses /\ {"NM", "DNS"} \subseteq Statuses
    BY DEF Statuses
  <2> QED BY <2>1, <2>2, <2>3, <2>4
<1>3. CallsInv' /\ PlacesInv' /\ FieldTypeOK'
  BY <1>1, <1>2 DEF TypeInv, CallsInv, PlacesInv, FieldTypeOK, At, Vertical
<1> QED BY <1>3 DEF TypeInv

LEMMA TypeStep == TypeInv /\ [FieldNext]_vars => TypeInv'
<1> SUFFICES ASSUME TypeInv, [FieldNext]_vars PROVE TypeInv'
  OBVIOUS
<1>1. CASE UNCHANGED vars
  BY <1>1 DEF vars, TypeInv, FieldTypeOK, CallsInv, PlacesInv, At, Vertical
<1>2. ASSUME NEW c \in Calls, CallStep(c) PROVE TypeInv'
  BY <1>2, TypeAbort, TypeSaveTrial, TypeReadHeights, TypeSave, TypeForms, TypeSetHeights
     DEF CallStep
<1> QED BY <1>1, <1>2, TypeOffice DEF FieldNext

\* Every reachable state of a unit is well typed: settling a series never
\* stores a mark the progression or the range of distances does not have
\* (FieldSeries.Best, VerticalSeries.BestHeightIdx, SaveVerticalTrial).
THEOREM FieldTypeCorrect == FieldSpec => []FieldTypeOK
<1>1. TypeInv => FieldTypeOK
  BY DEF TypeInv
<1> QED BY <1>1, TypeInit, TypeStep, PTL DEF FieldSpec

-----------------------------------------------------------------------------
(* The progression only grows while the office agrees on who sets it up. *)

\* The form that sets a progression up, open or sent.
FirstForm(call) ==
  \/ call.at = "form" /\ call.list = <<>>
  \/ call.at = "set" /\ call.expected = 0

\* What the other forms have shown is a beginning of the progression, and the
\* whole of it before the first extension.
Shows(call, now) ==
  /\ call.at = "form" =>
       /\ call.expected = 0
       /\ call.list # <<>> =>
            Extends(now.list, call.list) /\ (now.version = 1 => call.list = now.list)
  /\ call.at = "set" /\ call.expected # 0 =>
       /\ Len(call.list) = call.expected + 1
       /\ call.expected <= Len(now.list)
       /\ \A i \in 1..call.expected : call.list[i] = now.list[i]
       /\ now.version = 1 => call.expected = Len(now.list)

\* After the first extension the version is the length.
VersionInv ==
  /\ heights.version = 0 <=> heights.list = <<>>
  /\ heights.version > 1 => Len(heights.list) = heights.version

FormsInv ==
  /\ VersionInv
  /\ \A c \in Calls : Shows(calls[c], heights)
  /\ \A c \in Calls : FirstForm(calls[c]) =>
       heights.list = <<>> /\ \A d \in Calls \ {c} : calls[d].at \notin {"form", "set"}

LEMMA NoCallForm == NoCall.at = "idle"
BY DEF NoCall

LEMMA FormsInit == FieldInit => FormsInv
BY NoCallForm DEF FieldInit, FormsInv, VersionInv, Shows, FirstForm

\* A request that goes on, or ends, away from the forms.
LEMMA FormsCall ==
  ASSUME TypeInv, FormsInv, NEW c \in Calls, NEW call, Continue(c, call),
         call.at \notin {"form", "set"}, heights' = heights
  PROVE  FormsInv'
<1>1. \A d \in Calls : calls'[d] = IF d = c THEN call ELSE calls[d]
  BY DEF Continue, TypeInv, FieldTypeOK
<1> QED BY <1>1 DEF FormsInv, VersionInv, Shows, FirstForm

LEMMA FormsOpen ==
  ASSUME OneFirstForm, TypeInv, FormsInv, NEW c \in Calls, OpenHeightsForm(c)
  PROVE  FormsInv'
<1> DEFINE call == [NoCall EXCEPT !.at = "form", !.list = heights.list]
<1>1. call.at = "form" /\ call.list = heights.list /\ call.expected = 0
  BY DEF NoCall
<1>2. /\ heights' = heights /\ calls' = [calls EXCEPT ![c] = call]
      /\ heights.list = <<>> => \A d \in Calls : calls[d].at \notin {"form", "set"}
  BY DEF OpenHeightsForm, Continue, Reads
<1>3. \A d \in Calls : calls'[d] = IF d = c THEN call ELSE calls[d]
  BY <1>2 DEF TypeInv, FieldTypeOK
<1>4. Extends(heights.list, heights.list)
  BY DEF Extends, TypeInv, FieldTypeOK
<1> HIDE DEF call
<1>5. Shows(call, heights)
  BY <1>1, <1>4 DEF Shows
<1>6. \A d \in Calls : Shows(calls'[d], heights')
  BY <1>2, <1>3, <1>5 DEF FormsInv
<1>7. \A d \in Calls : FirstForm(calls'[d]) =>
        heights'.list = <<>> /\ \A e \in Calls \ {d} : calls'[e].at \notin {"form", "set"}
  BY <1>1, <1>2, <1>3 DEF FormsInv, FirstForm
<1> QED BY <1>2, <1>6, <1>7 DEF FormsInv, VersionInv

LEMMA FormsFirst ==
  ASSUME TypeInv, FormsInv, NEW c \in Calls, NEW list \in Progressions, FirstHeights(c, list)
  PROVE  FormsInv'
<1> DEFINE call == [calls[c] EXCEPT !.list = list, !.at = "set"]
<1>1. FirstForm(calls[c]) /\ calls[c].expected = 0
  BY DEF FirstHeights, At, FirstForm, FormsInv, Shows
<1>2. call.at = "set" /\ call.expected = 0
  BY <1>1 DEF TypeInv, FieldTypeOK, CallStates
<1>3. heights' = heights /\ calls' = [calls EXCEPT ![c] = call]
  BY DEF FirstHeights, Continue, Reads
<1>4. \A d \in Calls : calls'[d] = IF d = c THEN call ELSE calls[d]
  BY <1>3 DEF TypeInv, FieldTypeOK
<1> HIDE DEF call
<1>5. heights.list = <<>> /\ \A d \in Calls \ {c} : calls[d].at \notin {"form", "set"}
  BY <1>1 DEF FormsInv
<1> QED BY <1>2, <1>3, <1>4, <1>5 DEF FormsInv, VersionInv, Shows, FirstForm

LEMMA FormsAdd ==
  ASSUME TypeInv, FormsInv, NEW c \in Calls, NEW h \in 1..MaxMark, AddHeight(c, h)
  PROVE  FormsInv'
<1> DEFINE shown == calls[c].list
           call == [calls[c] EXCEPT !.list = Append(shown, h), !.expected = Len(shown), !.at = "set"]
<1>1. heights' = heights /\ At(c, "form") /\ shown # <<>>
  BY DEF AddHeight, Reads
<1>2. Continue(c, call) \/ Continue(c, NoCall)
  BY DEF AddHeight, End
<1>3. CASE Continue(c, NoCall)
  BY <1>1, <1>3, NoCallForm, FormsCall
<1>4. CASE Continue(c, call)
  <2>1. calls[c] \in CallStates /\ shown \in Seq(1..MaxMark) /\ heights.list \in Seq(1..MaxMark)
    BY DEF TypeInv, FieldTypeOK, CallStates
  <2>2. call.at = "set" /\ call.expected = Len(shown) /\ call.list = Append(shown, h)
    BY <2>1 DEF CallStates
  <2>3. Len(shown) \in Nat /\ Len(shown) # 0
    BY <1>1, <2>1
  <2>4. Extends(heights.list, shown) /\ (heights.version = 1 => shown = heights.list)
    BY <1>1 DEF FormsInv, Shows, At
  <2>5. \A i \in 1..Len(shown) : Append(shown, h)[i] = heights.list[i]
    BY <2>1, <2>4 DEF Extends
  <2>6. Len(Append(shown, h)) = Len(shown) + 1
    BY <2>1
  <2>7. \A d \in Calls : calls'[d] = IF d = c THEN call ELSE calls[d]
    BY <1>4 DEF Continue, TypeInv, FieldTypeOK
  <2> HIDE DEF call, shown
  <2>8. Shows(call, heights) /\ ~FirstForm(call)
    BY <2>2, <2>3, <2>4, <2>5, <2>6 DEF Shows, FirstForm, Extends
  <2>9. \A d \in Calls : Shows(calls'[d], heights')
    BY <1>1, <2>7, <2>8 DEF FormsInv
  <2>10. \A d \in Calls : ~FirstForm(calls'[d])
    <3>1. \A d \in Calls \ {c} : ~FirstForm(calls[d])
      BY <1>1 DEF FormsInv, At
    <3> QED BY <2>7, <2>8, <3>1
  <2> QED BY <1>1, <2>9, <2>10 DEF FormsInv, VersionInv
<1> QED BY <1>2, <1>3, <1>4

LEMMA FormsSet ==
  ASSUME TypeInv, FormsInv, NEW c \in Calls, SetHeights(c)
  PROVE  FormsInv' /\ Extends(heights'.list, heights.list)
<1> DEFINE call == calls[c]
<1>1. Continue(c, NoCall) /\ NoCall.at = "idle" /\ call.at = "set"
  BY NoCallForm DEF SetHeights, End, At
<1>2. /\ call.list \in Seq(1..MaxMark) /\ Len(call.list) \in Nat \ {0}
      /\ call.expected \in Nat
  BY <1>1, ProgressionsAssumption, FieldBoundsAssumption
     DEF TypeInv, FieldTypeOK, CallsInv, CallInv, CallStates
<1>3. heights.list \in Seq(1..MaxMark) /\ heights.version \in Nat /\ Len(heights.list) \in Nat
  BY FieldBoundsAssumption DEF TypeInv, FieldTypeOK
<1>4. \A d \in Calls : calls'[d] = IF d = c THEN NoCall ELSE calls[d]
  BY <1>1 DEF Continue, TypeInv, FieldTypeOK
<1>5. Shows(call, heights) /\ VersionInv
  BY DEF FormsInv
<1> DEFINE next == [list |-> call.list, version |-> heights.version + 1]
<1>6. heights' = IF call.expected \in {0, heights.version} THEN next ELSE heights
  BY DEF SetHeights
<1>7. next.list = call.list /\ next.version = heights.version + 1
  OBVIOUS
<1>8. CASE call.expected = 0
  <2>1. heights.list = <<>> /\ \A d \in Calls \ {c} : calls[d].at \notin {"form", "set"}
    BY <1>1, <1>8 DEF FormsInv, FirstForm
  <2>2. heights.version = 0
    BY <1>5, <2>1 DEF VersionInv
  <2>3. heights'.list = call.list /\ heights'.version = 1
    BY <1>6, <1>7, <1>8, <2>2
  <2>4. Extends(heights'.list, heights.list)
    BY <1>2, <2>1, <2>3 DEF Extends
  <2>5. VersionInv'
    BY <1>2, <2>3 DEF VersionInv
  <2>6. \A d \in Calls : calls'[d].at \notin {"form", "set"}
    BY <1>1, <1>4, <2>1
  <2> QED BY <2>4, <2>5, <2>6 DEF FormsInv, Shows, FirstForm
<1>9. CASE call.expected # 0 /\ call.expected = heights.version
  <2>1. /\ Len(call.list) = heights.version + 1
        /\ \A i \in 1..heights.version : call.list[i] = heights.list[i]
        /\ heights.version = 1 => Len(heights.list) = 1
    BY <1>1, <1>5, <1>9 DEF Shows
  <2>2. Len(heights.list) = heights.version
    <3>1. heights.version = 1 \/ heights.version > 1
      BY <1>3, <1>9
    <3>2. heights.version > 1 => Len(heights.list) = heights.version
      BY <1>5 DEF VersionInv
    <3> QED BY <2>1, <3>1, <3>2
  <2>3. heights'.list = call.list /\ heights'.version = heights.version + 1
    BY <1>6, <1>7, <1>9
  <2>4. Extends(call.list, heights.list)
    <3>1. DOMAIN heights.list = 1..heights.version
      BY <1>3, <2>2
    <3>2. Len(heights.list) <= Len(call.list)
      BY <1>3, <2>1, <2>2
    <3> QED BY <2>1, <3>1, <3>2 DEF Extends
  <2>5. VersionInv'
    BY <1>2, <1>3, <1>9, <2>1, <2>3 DEF VersionInv
  <2>6. \A d \in Calls : ~FirstForm(calls'[d])
    <3>1. heights.list # <<>>
      BY <1>5, <1>9 DEF VersionInv
    <3> QED BY <1>1, <1>4, <3>1 DEF FormsInv, FirstForm
  <2>7. ASSUME NEW d \in Calls PROVE Shows(calls'[d], heights')
    <3>1. CASE d = c
      BY <1>1, <1>4, <3>1 DEF Shows
    <3>2. CASE d # c
      <4>1. calls'[d] = calls[d] /\ Shows(calls[d], heights)
        BY <1>4, <3>2 DEF FormsInv
      <4>2. heights'.version # 1
        BY <1>3, <1>9, <2>3
      <4>3. calls[d].list \in Seq(1..MaxMark) /\ calls[d].expected \in Nat
        BY DEF TypeInv, FieldTypeOK, CallStates
      <4>4. ASSUME calls[d].at = "form", calls[d].list # <<>>
            PROVE  Extends(heights'.list, calls[d].list)
        <5>1. Extends(heights.list, calls[d].list)
          BY <4>1, <4>4 DEF Shows
        <5> QED BY <1>2, <1>3, <2>3, <2>4, <4>3, <5>1 DEF Extends
      <4>5. ASSUME calls[d].at = "set", calls[d].expected # 0
            PROVE  /\ Len(calls[d].list) = calls[d].expected + 1
                   /\ calls[d].expected <= Len(heights'.list)
                   /\ \A i \in 1..calls[d].expected : calls[d].list[i] = heights'.list[i]
        <5>1. /\ Len(calls[d].list) = calls[d].expected + 1
              /\ calls[d].expected <= Len(heights.list)
              /\ \A i \in 1..calls[d].expected : calls[d].list[i] = heights.list[i]
          BY <4>1, <4>5 DEF Shows
        <5> QED BY <1>2, <1>3, <2>3, <2>4, <4>3, <5>1 DEF Extends
      <4> QED BY <4>1, <4>2, <4>4, <4>5 DEF Shows
    <3> QED BY <3>1, <3>2
  <2> QED BY <2>3, <2>4, <2>5, <2>6, <2>7 DEF FormsInv
<1>10. CASE call.expected # 0 /\ call.expected # heights.version
  <2>1. heights' = heights
    BY <1>6, <1>10
  <2>2. FormsInv'
    BY <1>1, <2>1, FormsCall
  <2> QED BY <1>3, <2>1, <2>2 DEF Extends
<1> QED BY <1>8, <1>9, <1>10

\* What the steps that are about no form do to requests.
LEMMA OtherCallSteps ==
  ASSUME NEW c \in Calls,
         \/ Abort(c) \/ ReadHeights(c) \/ Save(c)
         \/ \E a \in Athletes, p \in Places, v \in 0..MaxVersion, value \in Captured :
              SaveTrial(c, a, p, value, v)
  PROVE  heights' = heights /\ \E call : Continue(c, call) /\ call.at \notin {"form", "set"}
<1>1. CASE Abort(c) \/ Save(c)
  BY <1>1, NoCallForm DEF Abort, Save, Reads, End
<1>2. CASE ReadHeights(c)
  <2> DEFINE call == [calls[c] EXCEPT !.list = heights.list, !.at = "save"]
  <2>1. heights' = heights /\ (Continue(c, call) \/ Continue(c, NoCall))
    BY <1>2 DEF ReadHeights, Reads, End
  <2>2. call.at \in {"save"} \union {calls[c].at} /\ (call.at # "save" => ~At(c, "heights"))
    BY DEF At
  <2>3. call.at = "save"
    BY <1>2, <2>2 DEF ReadHeights
  <2> QED BY <2>1, <2>3, NoCallForm
<1>3. ASSUME NEW a \in Athletes, NEW p \in Places, NEW v \in 0..MaxVersion, NEW value \in Captured,
             SaveTrial(c, a, p, value, v)
      PROVE  heights' = heights /\ \E call : Continue(c, call) /\ call.at \notin {"form", "set"}
  <2> DEFINE call == [NoCall EXCEPT !.at = IF Vertical THEN "heights" ELSE "save", !.athlete = a,
                                    !.place = p, !.trial = value, !.expected = v]
  <2>1. heights' = heights /\ Continue(c, call)
    BY <1>3 DEF SaveTrial, Reads
  <2>2. call.at \in {"heights", "save"}
    BY DEF NoCall
  <2> HIDE DEF call
  <2> QED BY <2>1, <2>2
<1> QED BY <1>1, <1>2, <1>3

LEMMA FormsStep ==
  ASSUME OneFirstForm, TypeInv, FormsInv, [FieldNext]_vars
  PROVE  FormsInv' /\ Extends(heights'.list, heights.list)
<1>1. Extends(heights.list, heights.list)
  BY DEF Extends, TypeInv, FieldTypeOK
<1>2. ASSUME heights' = heights PROVE Extends(heights'.list, heights.list)
  BY <1>1, <1>2
<1>3. CASE UNCHANGED <<heights, calls>>
  BY <1>2, <1>3 DEF FormsInv, VersionInv, Shows, FirstForm
<1>4. ASSUME NEW c \in Calls, CallStep(c)
      PROVE  FormsInv' /\ Extends(heights'.list, heights.list)
  <2>1. CASE \/ Abort(c) \/ ReadHeights(c) \/ Save(c)
             \/ \E a \in Athletes, p \in Places, v \in 0..MaxVersion, value \in Captured :
                  SaveTrial(c, a, p, value, v)
    BY <1>2, <2>1, OtherCallSteps, FormsCall
  <2>2. CASE OpenHeightsForm(c)
    BY <1>2, <2>2, FormsOpen DEF OpenHeightsForm, Reads
  <2>3. CASE \E list \in Progressions : FirstHeights(c, list)
    BY <1>2, <2>3, FormsFirst DEF FirstHeights, Reads
  <2>4. CASE \E h \in 1..MaxMark : AddHeight(c, h)
    BY <1>2, <2>4, FormsAdd DEF AddHeight, Reads
  <2>5. CASE SetHeights(c)
    BY <2>5, FormsSet
  <2> QED BY <1>4, <2>1, <2>2, <2>3, <2>4, <2>5 DEF CallStep
<1>5. ASSUME \/ AnnounceUnitResults
             \/ \E a \in Athletes, m \in 1..MaxMark : CorrectResult(a, m, "")
             \/ \E a \in Athletes, s \in {"NM", "DNS"} : CorrectResult(a, 0, s)
      PROVE  UNCHANGED <<heights, calls>>
  BY <1>5 DEF AnnounceUnitResults, CorrectResult
<1>6. CASE UNCHANGED vars
  BY <1>3, <1>6 DEF vars
<1> QED BY <1>3, <1>4, <1>5, <1>6 DEF FieldNext

\* While no two forms set up an unset progression at once, the progression only
\* grows, whatever forms are open, late or refused (SetVerticalHeights,
\* SetVerticalUnitConfig, verticalHeightsForm).
THEOREM HeightsNeverShrink ==
  ASSUME OneFirstForm
  PROVE  FieldSpec => HeightsOnlyGrow
<1>1. TypeInv /\ FormsInv /\ [FieldNext]_vars =>
        FormsInv' /\ [Extends(heights'.list, heights.list)]_vars
  BY FormsStep
<1> QED BY <1>1, TypeInit, TypeStep, FormsInit, PTL DEF FieldSpec, HeightsOnlyGrow

-----------------------------------------------------------------------------
(* Results follow the trials. *)

\* A capture that is about to be stored has read a beginning of the progression.
ReadersInv ==
  Vertical => \A c \in Calls : At(c, "save") => Extends(heights.list, calls[c].list)

\* ResultsFollowTrials, and the cleared heights are in the progression.
SettledInv ==
  \A a \in Athletes :
    /\ results[a].by = "nobody" => Taken(trials[a]) = {}
    /\ results[a].by = "series" =>
         /\ results[a] = Settled(trials[a], heights.list)
         /\ Vertical /\ Valid(trials[a]) # {} => BestIdx(trials[a]) < Len(heights.list)

\* A longer progression settles a series alike.
LEMMA SettledAlike ==
  ASSUME NEW s, NEW old \in Seq(1..MaxMark), NEW new \in Seq(1..MaxMark), Extends(new, old),
         Vertical /\ Valid(s) # {} => Valid(s) \subseteq HeightPlaces /\ BestIdx(s) < Len(old)
  PROVE  /\ Settled(s, new) = Settled(s, old)
         /\ Vertical /\ Valid(s) # {} => BestIdx(s) < Len(new)
<1>1. ASSUME Vertical, Valid(s) # {}
      PROVE  new[BestIdx(s) + 1] = old[BestIdx(s) + 1] /\ BestIdx(s) < Len(new)
  <2>1. BestIdx(s) \in Nat /\ BestIdx(s) < Len(old)
    BY <1>1, BestIdxIsAHeight, FieldBoundsAssumption DEF HeightIdxs
  <2>2. BestIdx(s) + 1 \in DOMAIN old /\ Len(old) <= Len(new)
    BY <2>1 DEF Extends
  <2> QED BY <2>1, <2>2 DEF Extends
<1> QED BY <1>1 DEF Settled

LEMMA SettledInit == FieldInit => ReadersInv /\ SettledInv
<1> SUFFICES ASSUME FieldInit PROVE ReadersInv /\ SettledInv
  OBVIOUS
<1>1. ReadersInv
  BY NoCallForm DEF FieldInit, ReadersInv, At
<1>2. \A a \in Athletes : results[a].by = "nobody" /\ Taken(trials[a]) = {}
  <2>1. NoResult.by = "nobody"
    BY DEF NoResult
  <2> QED BY <2>1, NoSeriesTyped DEF FieldInit
<1> QED BY <1>1, <1>2 DEF SettledInv

\* Steps that store neither a trial nor a result.
LEMMA SettledKept ==
  ASSUME TypeInv, TypeInv', SettledInv, UNCHANGED <<family, trials, results>>,
         Extends(heights'.list, heights.list)
  PROVE  SettledInv'
<1> SUFFICES ASSUME NEW a \in Athletes
             PROVE  /\ results[a].by = "nobody" => Taken(trials[a]) = {}
                    /\ results[a].by = "series" =>
                         /\ results[a] = Settled(trials[a], heights'.list)
                         /\ Vertical /\ Valid(trials[a]) # {} => BestIdx(trials[a]) < Len(heights'.list)
  BY DEF SettledInv, Settled, Vertical
<1>1. heights.list \in Seq(1..MaxMark) /\ heights'.list \in Seq(1..MaxMark)
  BY DEF TypeInv, FieldTypeOK
<1>2. Vertical => Valid(trials[a]) \subseteq HeightPlaces
  BY ValidIsTaken DEF TypeInv, PlacesInv
<1>3. /\ results[a].by = "nobody" => Taken(trials[a]) = {}
      /\ results[a].by = "series" =>
           /\ results[a] = Settled(trials[a], heights.list)
           /\ Vertical /\ Valid(trials[a]) # {} => BestIdx(trials[a]) < Len(heights.list)
  BY DEF SettledInv
<1>4. CASE results[a].by = "series"
  <2>1. /\ Settled(trials[a], heights'.list) = Settled(trials[a], heights.list)
        /\ Vertical /\ Valid(trials[a]) # {} => BestIdx(trials[a]) < Len(heights'.list)
    BY <1>1, <1>2, <1>3, <1>4, SettledAlike
  <2> QED BY <1>3, <1>4, <2>1
<1> QED BY <1>3, <1>4

LEMMA SettledSave ==
  ASSUME TypeInv, ReadersInv, SettledInv, NEW c \in Calls, Save(c)
  PROVE  SettledInv'
<1> DEFINE call == calls[c]
           old == trials[call.athlete][call.place]
           series == [trials[call.athlete] EXCEPT
                        ![call.place] = TrialRow(call.trial, old.version + 1)]
           unknown == Vertical /\ Valid(series) # {} /\ BestIdx(series) >= Len(call.list)
<1>1. At(c, "save") /\ UNCHANGED <<family, heights>>
  BY DEF Save
<1>2. /\ call.athlete \in Athletes /\ call.list \in Seq(1..MaxMark)
      /\ Vertical => Taken(series) \subseteq HeightPlaces
  BY <1>1, SaveStores DEF Save
<1>3. \/ UNCHANGED <<trials, results>>
      \/ /\ ~unknown
         /\ trials' = [trials EXCEPT ![call.athlete] = series]
         /\ results' = [results EXCEPT ![call.athlete] = Settled(series, call.list)]
  BY DEF Save
<1>4. heights.list \in Seq(1..MaxMark) /\ (Vertical => Extends(heights.list, call.list))
  BY <1>1 DEF TypeInv, FieldTypeOK, ReadersInv
<1> HIDE DEF call, series
<1>5. CASE UNCHANGED <<trials, results>>
  BY <1>1, <1>5 DEF SettledInv, Settled, Vertical
<1>6. CASE /\ ~unknown
           /\ trials' = [trials EXCEPT ![call.athlete] = series]
           /\ results' = [results EXCEPT ![call.athlete] = Settled(series, call.list)]
  <2>1. Vertical /\ Valid(series) # {} =>
          Valid(series) \subseteq HeightPlaces /\ BestIdx(series) < Len(call.list)
    <3> SUFFICES ASSUME Vertical, Valid(series) # {}
                 PROVE  Valid(series) \subseteq HeightPlaces /\ BestIdx(series) < Len(call.list)
      OBVIOUS
    <3>1. Valid(series) \subseteq HeightPlaces
      BY <1>2, ValidIsTaken
    <3>2. BestIdx(series) \in Nat /\ Len(call.list) \in Nat
      BY <1>2, <3>1, BestIdxIsAHeight, FieldBoundsAssumption DEF HeightIdxs
    <3> QED BY <1>6, <3>1, <3>2
  <2>2. /\ Settled(series, heights.list) = Settled(series, call.list)
        /\ Vertical /\ Valid(series) # {} => BestIdx(series) < Len(heights.list)
    <3>1. CASE Vertical
      BY <1>2, <1>4, <2>1, <3>1, SettledAlike
    <3>2. CASE ~Vertical
      BY <3>2 DEF Settled
    <3> QED BY <3>1, <3>2
  <2>3. Settled(series, call.list).by = "series"
    BY DEF Settled
  <2>4. ASSUME NEW a \in Athletes, a = call.athlete
        PROVE  trials'[a] = series /\ results'[a] = Settled(series, heights.list)
    BY <1>6, <2>2, <2>4 DEF TypeInv, FieldTypeOK
  <2>5. ASSUME NEW a \in Athletes, a # call.athlete
        PROVE  trials'[a] = trials[a] /\ results'[a] = results[a]
    BY <1>6, <2>5 DEF TypeInv, FieldTypeOK
  <2>6. ASSUME NEW a \in Athletes
        PROVE  /\ results'[a].by = "nobody" => Taken(trials'[a]) = {}
               /\ results'[a].by = "series" =>
                    /\ results'[a] = Settled(trials'[a], heights.list)
                    /\ Vertical /\ Valid(trials'[a]) # {} => BestIdx(trials'[a]) < Len(heights.list)
    <3>1. CASE a = call.athlete
      BY <2>2, <2>3, <2>4, <3>1
    <3>2. CASE a # call.athlete
      BY <2>5, <3>2 DEF SettledInv
    <3> QED BY <3>1, <3>2
  <2> QED BY <1>1, <2>6 DEF SettledInv, Settled, Vertical
<1> QED BY <1>3, <1>5, <1>6

LEMMA SettledOffice ==
  ASSUME TypeInv, SettledInv,
         \/ AnnounceUnitResults
         \/ \E a \in Athletes, m \in 1..MaxMark : CorrectResult(a, m, "")
         \/ \E a \in Athletes, s \in {"NM", "DNS"} : CorrectResult(a, 0, s)
  PROVE  SettledInv'
<1>1. UNCHANGED <<family, heights, trials>>
  BY DEF AnnounceUnitResults, CorrectResult
<1>2. \A a \in Athletes : results'[a] = results[a] \/ results'[a].by = "office"
  <2>1. ASSUME NEW a \in Athletes, NEW m, NEW s, CorrectResult(a, m, s), NEW b \in Athletes
        PROVE  results'[b] = results[b] \/ results'[b].by = "office"
    BY <2>1 DEF CorrectResult, TypeInv, FieldTypeOK
  <2> QED BY <2>1 DEF AnnounceUnitResults
<1>3. ASSUME NEW a \in Athletes, results'[a] = results[a]
      PROVE  /\ results'[a].by = "nobody" => Taken(trials[a]) = {}
             /\ results'[a].by = "series" =>
                  /\ results'[a] = Settled(trials[a], heights.list)
                  /\ Vertical /\ Valid(trials[a]) # {} => BestIdx(trials[a]) < Len(heights.list)
  BY <1>3 DEF SettledInv
<1>4. ASSUME NEW a \in Athletes
      PROVE  /\ results'[a].by = "nobody" => Taken(trials[a]) = {}
             /\ results'[a].by = "series" =>
                  /\ results'[a] = Settled(trials[a], heights.list)
                  /\ Vertical /\ Valid(trials[a]) # {} => BestIdx(trials[a]) < Len(heights.list)
  BY <1>2, <1>3
<1> QED BY <1>1, <1>4 DEF SettledInv, Settled, Vertical

LEMMA ReadersStep ==
  ASSUME TypeInv, ReadersInv, [FieldNext]_vars, Extends(heights'.list, heights.list), TypeInv'
  PROVE  ReadersInv'
<1>1. family' = family
  BY DEF FieldNext, CallStep, vars, Abort, SaveTrial, ReadHeights, Save, OpenHeightsForm, FirstHeights,
         AddHeight, SetHeights, AnnounceUnitResults, CorrectResult, Reads
<1> SUFFICES ASSUME Vertical, NEW d \in Calls, At(d, "save")'
             PROVE  Extends(heights'.list, calls'[d].list)
  BY <1>1 DEF ReadersInv, Vertical
<1>2. heights.list \in Seq(1..MaxMark) /\ heights'.list \in Seq(1..MaxMark)
  BY DEF TypeInv, FieldTypeOK
<1>3. ASSUME NEW list \in Seq(1..MaxMark), Extends(heights.list, list)
      PROVE  Extends(heights'.list, list)
  BY <1>2, <1>3 DEF Extends
<1>4. ASSUME calls'[d] = calls[d]
      PROVE  Extends(heights'.list, calls'[d].list)
  <2>1. At(d, "save") /\ calls[d].list \in Seq(1..MaxMark)
    BY <1>4 DEF At, TypeInv, FieldTypeOK, CallStates
  <2> QED BY <1>3, <1>4, <2>1 DEF ReadersInv
<1>5. CASE UNCHANGED calls
  BY <1>4, <1>5
<1>6. ASSUME NEW c \in Calls, CallStep(c) PROVE Extends(heights'.list, calls'[d].list)
  <2>1. CASE c # d
    <3>1. \E call : Continue(c, call)
      BY <1>6 DEF CallStep, Abort, SaveTrial, ReadHeights, Save, OpenHeightsForm, FirstHeights,
                  AddHeight, SetHeights, End
    <3> QED BY <1>4, <2>1, <3>1 DEF Continue
  <2>2. CASE c = d
    <3>1. CASE ReadHeights(c)
      <4>1. \/ calls'[c] = NoCall
            \/ calls'[c] = [calls[c] EXCEPT !.list = heights.list, !.at = "save"]
        BY <3>1 DEF ReadHeights, Continue, End, TypeInv, FieldTypeOK
      <4>2. calls'[c].list = heights.list
        BY <2>2, <4>1, NoCallForm DEF At, TypeInv, FieldTypeOK, CallStates
      <4>3. heights'.list = heights.list
        BY <3>1 DEF ReadHeights, Reads
      <4> QED BY <1>2, <2>2, <4>2, <4>3 DEF Extends
    <3>2. CASE Abort(c) \/ Save(c) \/ SetHeights(c)
      <4>1. calls'[c] = NoCall
        BY <3>2 DEF Abort, Save, SetHeights, Continue, End, TypeInv, FieldTypeOK
      <4> QED BY <2>2, <4>1, NoCallForm DEF At
    <3>3. ASSUME NEW a \in Athletes, NEW p \in Places, NEW v \in 0..MaxVersion, NEW value \in Captured,
                 SaveTrial(c, a, p, value, v)
          PROVE  FALSE
      <4>1. calls'[c] = [NoCall EXCEPT !.at = "heights", !.athlete = a,
                                       !.place = p, !.trial = value, !.expected = v]
        BY <3>3 DEF SaveTrial, Continue, TypeInv, FieldTypeOK
      <4> QED BY <2>2, <4>1 DEF At, NoCall
    <3>4. CASE OpenHeightsForm(c)
      <4>1. calls'[c] = [NoCall EXCEPT !.at = "form", !.list = heights.list]
        BY <3>4 DEF OpenHeightsForm, Continue, TypeInv, FieldTypeOK
      <4> QED BY <2>2, <4>1 DEF At, NoCall
    <3>5. ASSUME NEW list \in Progressions, FirstHeights(c, list) PROVE FALSE
      <4>1. calls'[c] = [calls[c] EXCEPT !.list = list, !.at = "set"]
        BY <3>5 DEF FirstHeights, Continue, TypeInv, FieldTypeOK
      <4> QED BY <2>2, <4>1 DEF At, TypeInv, FieldTypeOK, CallStates
    <3>6. ASSUME NEW h \in 1..MaxMark, AddHeight(c, h) PROVE FALSE
      <4> DEFINE longer == Append(calls[c].list, h)
                 call == [calls[c] EXCEPT !.list = longer, !.expected = Len(calls[c].list), !.at = "set"]
      <4>1. calls'[c] = call \/ calls'[c] = NoCall
        BY <3>6 DEF AddHeight, Continue, End, TypeInv, FieldTypeOK
      <4>2. call.at = "set"
        BY DEF TypeInv, FieldTypeOK, CallStates
      <4> HIDE DEF call
      <4> QED BY <2>2, <4>1, <4>2, NoCallForm DEF At
    <3> QED BY <1>6, <3>1, <3>2, <3>3, <3>4, <3>5, <3>6 DEF CallStep
  <2> QED BY <2>1, <2>2
<1>7. ASSUME \/ AnnounceUnitResults
             \/ \E a \in Athletes, m \in 1..MaxMark : CorrectResult(a, m, "")
             \/ \E a \in Athletes, s \in {"NM", "DNS"} : CorrectResult(a, 0, s)
      PROVE  UNCHANGED calls
  BY <1>7 DEF AnnounceUnitResults, CorrectResult
<1> QED BY <1>5, <1>6, <1>7 DEF FieldNext, vars

LEMMA SettledStep ==
  ASSUME TypeInv, TypeInv', ReadersInv, SettledInv, [FieldNext]_vars,
         Extends(heights'.list, heights.list)
  PROVE  SettledInv'
<1>1. CASE UNCHANGED <<family, trials, results>>
  BY <1>1, SettledKept
<1>2. ASSUME NEW c \in Calls, Save(c) PROVE SettledInv'
  BY <1>2, SettledSave
<1>3. CASE \/ AnnounceUnitResults
           \/ \E a \in Athletes, m \in 1..MaxMark : CorrectResult(a, m, "")
           \/ \E a \in Athletes, s \in {"NM", "DNS"} : CorrectResult(a, 0, s)
  BY <1>3, SettledOffice
<1>4. ASSUME NEW c \in Calls, CallStep(c), ~Save(c) PROVE UNCHANGED <<family, trials, results>>
  BY <1>4 DEF CallStep, Abort, SaveTrial, ReadHeights, OpenHeightsForm, FirstHeights, AddHeight,
              SetHeights, Reads
<1> QED BY <1>1, <1>2, <1>3, <1>4 DEF FieldNext, vars

\* While no two forms set up an unset progression at once, the result of every
\* athlete the office has not corrected is that of the series under the present
\* progression, whatever captures were in flight when either changed
\* (SaveFieldAttempt, SaveVerticalTrial, SetVerticalHeights).
THEOREM ResultsAreSettled ==
  ASSUME OneFirstForm
  PROVE  FieldSpec => []ResultsFollowTrials
<1> DEFINE Inv == TypeInv /\ FormsInv /\ ReadersInv /\ SettledInv
<1>1. FieldInit => Inv
  BY TypeInit, FormsInit, SettledInit
<1>2. Inv /\ [FieldNext]_vars => Inv'
  <2> SUFFICES ASSUME Inv, [FieldNext]_vars PROVE Inv'
    OBVIOUS
  <2>1. TypeInv'
    BY TypeStep
  <2>2. FormsInv' /\ Extends(heights'.list, heights.list)
    BY FormsStep
  <2>3. ReadersInv'
    BY <2>1, <2>2, ReadersStep
  <2>4. SettledInv'
    BY <2>1, <2>2, SettledStep
  <2> QED BY <2>1, <2>2, <2>3, <2>4
<1>3. Inv => ResultsFollowTrials
  BY DEF SettledInv, ResultsFollowTrials
<1> QED BY <1>1, <1>2, <1>3, PTL DEF FieldSpec

-----------------------------------------------------------------------------
(* Distances: the standings show the results. *)

\* Rows nobody wrote are empty; the office's have a mark or a status.
RowOK(row) ==
  /\ row.by = "nobody" => row = NoResult
  /\ row.by = "office" =>
       (row.status = "" /\ row.mark \in 1..MaxMark) \/ (row.status \in {"NM", "DNS"} /\ row.mark = 0)
RowsInv == \A a \in Athletes : RowOK(results[a])

LEMMA RowsInit == FieldInit => RowsInv
<1>1. RowOK(NoResult)
  BY DEF RowOK, NoResult
<1> QED BY <1>1 DEF FieldInit, RowsInv

LEMMA RowsStep == TypeInv /\ RowsInv /\ [FieldNext]_vars => RowsInv'
<1> SUFFICES ASSUME TypeInv, RowsInv, [FieldNext]_vars PROVE RowsInv'
  OBVIOUS
<1>1. CASE UNCHANGED results
  BY <1>1 DEF RowsInv
<1>2. ASSUME NEW c \in Calls, CallStep(c), ~Save(c) PROVE UNCHANGED results
  BY <1>2 DEF CallStep, Abort, SaveTrial, ReadHeights, OpenHeightsForm, FirstHeights, AddHeight,
              SetHeights, Reads
<1>3. ASSUME NEW c \in Calls, Save(c) PROVE RowsInv'
  <2>1. \A a \in Athletes : results'[a] = results[a] \/ results'[a].by = "series"
    <3>1. \A s, list : Settled(s, list).by = "series"
      BY DEF Settled
    <3> QED BY <1>3, <3>1 DEF Save, TypeInv, FieldTypeOK
  <2>2. ASSUME NEW a \in Athletes, results'[a].by = "series" PROVE RowOK(results'[a])
    BY <2>2 DEF RowOK
  <2> QED BY <2>1, <2>2 DEF RowsInv
<1>4. ASSUME NEW a \in Athletes, NEW m, NEW s, CorrectResult(a, m, s),
             RowOK([by |-> "office", mark |-> m, status |-> s])
      PROVE  RowsInv'
  <2>1. results' = [results EXCEPT ![a] = [by |-> "office", mark |-> m, status |-> s]]
    BY <1>4 DEF CorrectResult
  <2> QED BY <1>4, <2>1 DEF RowsInv, TypeInv, FieldTypeOK
<1>5. ASSUME NEW m \in 1..MaxMark PROVE RowOK([by |-> "office", mark |-> m, status |-> ""])
  BY <1>5, Zenon DEF RowOK
<1>6. ASSUME NEW s \in {"NM", "DNS"} PROVE RowOK([by |-> "office", mark |-> 0, status |-> s])
  BY <1>6, Zenon DEF RowOK
<1>7. CASE AnnounceUnitResults
  BY <1>1, <1>7 DEF AnnounceUnitResults
<1> QED BY <1>1, <1>2, <1>3, <1>4, <1>5, <1>6, <1>7 DEF FieldNext, vars

LEMMA OneMarkIsBest ==
  ASSUME NEW m \in 1..MaxMark
  PROVE  Valid(OneMark(m)) # {} /\ Best(OneMark(m)) = m
<1>1. 1 \in Places
  BY FieldBoundsAssumption DEF Places
<1>2. \A p \in Places : OneMark(m)[p] =
        IF p = 1 THEN [kind |-> "valid", mark |-> m, version |-> 0]
        ELSE [kind |-> "none", mark |-> 0, version |-> 0]
  BY DEF OneMark, TrialRow, NoTrial, Nothing
<1>3. Valid(OneMark(m)) = {1}
  BY <1>1, <1>2 DEF Valid, PlacesOf
<1>4. {OneMark(m)[p].mark : p \in Valid(OneMark(m))} = {m}
  BY <1>1, <1>2, <1>3
<1>5. Max({m}) = m
  <2>1. {m} \subseteq 0..MaxMark /\ {m} # {}
    BY FieldBoundsAssumption
  <2> QED BY <2>1, MaxIsIn, FieldBoundsAssumption
<1> QED BY <1>3, <1>4, <1>5 DEF Best

\* Every line of the standings of a horizontal event shows the mark of the
\* athlete's result: reconciling the series with the result undoes whatever a
\* correction and a late trial did to either (fieldStandings).
MarksShown == ~Vertical => \A a \in Athletes : ShownMark(a) = results[a].mark

LEMMA SettledMarksShown ==
  ASSUME TypeInv, RowsInv, SettledInv
  PROVE  MarksShown
<1> SUFFICES ASSUME ~Vertical, NEW a \in Athletes
             PROVE  ShownMark(a) = results[a].mark
  BY DEF MarksShown
<1> DEFINE row == results[a]
           s == Reconciled(a)
<1>1. ShownMark(a) = IF Valid(s) = {} THEN 0 ELSE Best(s)
  BY DEF ShownMark, RankingBasis
<1>2. row \in ResultRows /\ RowOK(row) /\ trials[a] \in Series
  BY DEF TypeInv, FieldTypeOK, RowsInv, Series
<1>3. row.by \in {"nobody", "series", "office"} /\ row.mark \in 0..MaxMark
  BY <1>2 DEF ResultRows
<1>4. CASE row.by = "nobody"
  <2>1. row = NoResult /\ Valid(trials[a]) = {}
    BY <1>2, <1>4, ValidIsTaken DEF RowOK, SettledInv
  <2>2. row.mark = 0 /\ row.status = ""
    BY <2>1, NoResultFields
  <2>3. s = trials[a]
    BY <2>2, Zenon DEF Reconciled, Overruled
  <2> QED BY <1>1, <2>1, <2>2, <2>3, Zenon
<1>5. CASE row.by = "series"
  <2>1. /\ row.status = SeriesStatus(trials[a])
        /\ row.mark = IF Valid(trials[a]) = {} THEN 0 ELSE Best(trials[a])
    <3>1. row = Settled(trials[a], heights.list)
      BY <1>5 DEF SettledInv
    <3>2. /\ Settled(trials[a], heights.list).status = SeriesStatus(trials[a])
          /\ Settled(trials[a], heights.list).mark =
               IF Valid(trials[a]) = {} THEN 0 ELSE Best(trials[a])
      BY DEF Settled
    <3> HIDE DEF row
    <3> QED BY <3>1, <3>2
  <2>2. s = trials[a]
    BY <2>1, Zenon DEF Reconciled, Overruled
  <2> QED BY <1>1, <2>1, <2>2
<1>6. CASE row.by = "office" /\ row.status = "" /\ row.mark \in 1..MaxMark
  <2>1. row.mark # 0
    <3>1. \A m \in 1..MaxMark : m # 0
      BY FieldBoundsAssumption
    <3> QED BY <1>6, <3>1, Zenon
  <2>2. s = IF Valid(trials[a]) = {} \/ Best(trials[a]) # row.mark THEN OneMark(row.mark) ELSE trials[a]
    BY <1>6, <2>1, Zenon DEF Reconciled, Overruled
  <2> QED BY <1>1, <1>6, <2>2, OneMarkIsBest
<1>7. CASE row.by = "office" /\ row.status \in {"NM", "DNS"} /\ row.mark = 0
  <2>1. CASE row.status # SeriesStatus(trials[a])
    <3>1. row.status # ""
      BY <1>7
    <3>2. s = NoSeries
      BY <2>1, <3>1 DEF Reconciled, Overruled
    <3> QED BY <1>1, <1>7, <3>2, NoSeriesTyped, ValidIsTaken
  <2>2. CASE row.status = SeriesStatus(trials[a])
    <3>1. s = trials[a]
      BY <1>7, <2>2 DEF Reconciled, Overruled
    <3>2. Valid(trials[a]) = {}
      BY <1>7, <2>2 DEF SeriesStatus
    <3> QED BY <1>1, <1>7, <3>1, <3>2
  <2> QED BY <2>1, <2>2
<1> QED BY <1>2, <1>3, <1>4, <1>5, <1>6, <1>7 DEF RowOK

\* The first part of StandingsShowResults for distances: after any corrections
\* and trials the standings show every athlete's result (fieldStandings).
THEOREM StandingsShowEveryMark ==
  ASSUME OneFirstForm
  PROVE  FieldSpec => []MarksShown
<1> DEFINE Inv == TypeInv /\ FormsInv /\ ReadersInv /\ SettledInv /\ RowsInv
<1>1. FieldInit => Inv
  BY TypeInit, FormsInit, SettledInit, RowsInit
<1>2. Inv /\ [FieldNext]_vars => Inv'
  BY TypeStep, FormsStep, ReadersStep, SettledStep, RowsStep
<1>3. Inv => MarksShown
  BY SettledMarksShown
<1> QED BY <1>1, <1>2, <1>3, PTL DEF FieldSpec

-----------------------------------------------------------------------------
(* Distances: the sorted marks and how often each was reached say the same. *)

AtLeast(s, m) == {p \in Valid(s) : s[p].mark >= m}
NextBest(s, i) == MarkAt(MarksDesc(s), i)
LastPlace == IF Trials > 3 * MaxHeights THEN Trials ELSE 3 * MaxHeights

LEMMA ValidIsFinite ==
  ASSUME NEW s
  PROVE  /\ LastPlace \in Nat \ {0} /\ Places = 1..LastPlace
         /\ IsFiniteSet(Valid(s)) /\ Cardinality(Valid(s)) \in 0..LastPlace
<1>1. LastPlace \in Nat \ {0} /\ Places = 1..LastPlace
  BY FieldBoundsAssumption DEF LastPlace, Places
<1>2. IsFiniteSet(Places) /\ Cardinality(Places) = LastPlace
  <2>1. Cardinality(1..LastPlace) = IF 1 > LastPlace THEN 0 ELSE LastPlace - 1 + 1
    BY <1>1, FS_Interval
  <2> QED
    BY <1>1, <2>1, FS_Interval
<1>3. Valid(s) \in SUBSET Places
  BY DEF Valid, PlacesOf
<1>4. IsFiniteSet(Valid(s)) /\ Cardinality(Valid(s)) <= LastPlace
  BY <1>2, <1>3, FS_Subset
<1> QED
  BY <1>1, <1>4, FS_CardinalityType

\* marksDesc: every valid trial once, none behind a worse one.
LEMMA BestFirst ==
  ASSUME NEW s \in Series
  PROVE  /\ PlacesDesc(s) \in [1..Cardinality(Valid(s)) -> Valid(s)]
         /\ \A i, j \in 1..Cardinality(Valid(s)) :
              i < j => PlacesDesc(s)[i] # PlacesDesc(s)[j]
                       /\ s[PlacesDesc(s)[i]].mark >= s[PlacesDesc(s)[j]].mark
         /\ \A p \in Valid(s) : \E i \in 1..Cardinality(Valid(s)) : PlacesDesc(s)[i] = p
         /\ \A i, j \in 1..Cardinality(Valid(s)) : PlacesDesc(s)[i] = PlacesDesc(s)[j] => i = j
<1> DEFINE V == Valid(s)
           P == 1..Cardinality(V)
           W == {p \in V \X V : s[p[1]].mark > s[p[2]].mark}
           Sorted(row) == \A i, j \in P : i < j => row[i] # row[j] /\ s[row[i]].mark >= s[row[j]].mark
<1>1. \A p \in V : s[p].mark \in Int
  BY FieldBoundsAssumption DEF Series, TrialRows, Valid, PlacesOf
<1>2. IsFiniteSet(V)
  BY ValidIsFinite
<1>3. \A p, q \in V : <<p, q>> \in W <=> s[p].mark > s[q].mark
  OBVIOUS
<1> HIDE DEF V, W
<1>4. WeakOrder(W, V)
  BY <1>1, <1>3 DEF WeakOrder
<1>5. \A row \in [P -> V] : Listed(row, W, V) <=> Sorted(row)
  <2> TAKE row \in [P -> V]
  <2>1. \A i, j \in P : <<row[j], row[i]>> \notin W <=> s[row[i]].mark >= s[row[j]].mark
    BY <1>1, <1>3
  <2> QED
    BY <2>1 DEF Listed
<1>6. PlacesDesc(s) = CHOOSE row \in [P -> V] : \A i, j \in DOMAIN row :
                        i < j => row[i] # row[j] /\ s[row[i]].mark >= s[row[j]].mark
  BY DEF PlacesDesc, V
<1>7. \E row \in [P -> V] : Listed(row, W, V)
  BY <1>2, <1>4, ListingExists DEF Listed
<1>8. PlacesDesc(s) \in [P -> V] /\ Sorted(PlacesDesc(s))
  <2>1. \E row \in [P -> V] : \A i, j \in DOMAIN row :
          i < j => row[i] # row[j] /\ s[row[i]].mark >= s[row[j]].mark
    BY <1>5, <1>7
  <2> QED
    BY <1>6, <2>1
<1>9. Listed(PlacesDesc(s), W, V)
  BY <1>5, <1>8
<1>10. /\ \A p \in V : \E i \in P : PlacesDesc(s)[i] = p
       /\ \A i, j \in P : PlacesDesc(s)[i] = PlacesDesc(s)[j] => i = j
  BY <1>2, <1>9, EverybodyIsListed
<1> QED
  BY <1>8, <1>10 DEF V

\* The i-th best distance is at least m if i trials were at least m.
LEMMA OrderStatistic ==
  ASSUME NEW s \in Series, NEW i \in Nat \ {0}, NEW m \in Nat
  PROVE  /\ Cardinality(AtLeast(s, m)) \in 0..LastPlace
         /\ NextBest(s, i) \in -1..MaxMark
         /\ NextBest(s, i) >= m <=> i <= Cardinality(AtLeast(s, m))
<1> DEFINE V == Valid(s)
           n == Cardinality(V)
           row == PlacesDesc(s)
           I == {j \in 1..n : s[row[j]].mark >= m}
<1>1. n \in Nat /\ n <= LastPlace /\ LastPlace \in Nat /\ IsFiniteSet(V)
  BY ValidIsFinite
<1>2. /\ row \in [1..n -> V]
      /\ \A j, k \in 1..n : j < k => s[row[j]].mark >= s[row[k]].mark
      /\ \A p \in V : \E j \in 1..n : row[j] = p
      /\ \A j, k \in 1..n : row[j] = row[k] => j = k
  BY BestFirst
<1>3. \A p \in V : s[p].mark \in 0..MaxMark
  BY DEF Series, TrialRows, Valid, PlacesOf
<1>4. NextBest(s, i) = IF i \in 1..n THEN s[row[i]].mark ELSE -1
  BY DEF NextBest, MarkAt, MarksDesc
<1> HIDE DEF row, V, n
<1>5. Cardinality(I) \in 0..n /\ \A j \in 1..n : j \in I <=> j <= Cardinality(I)
  <2>1. I \in SUBSET (1..n) /\ \A j \in I, k \in 1..n : k < j => k \in I
    BY <1>2, <1>3, FieldBoundsAssumption
  <2> HIDE DEF I
  <2> QED
    BY <1>1, <2>1, FirstOnes
<1>6. Cardinality(AtLeast(s, m)) = Cardinality(I)
  <2> DEFINE at == [j \in I |-> row[j]]
  <2>1. at \in [I -> AtLeast(s, m)]
    BY <1>2 DEF AtLeast, V
  <2>2. \A j, k \in I : at[j] = at[k] => j = k
    BY <1>2
  <2>3. \A p \in AtLeast(s, m) : \E j \in I : at[j] = p
    BY <1>2 DEF AtLeast, V
  <2>4. IsFiniteSet(I)
    <3>1. I \in SUBSET (1..n) /\ IsFiniteSet(1..n)
      BY <1>1, FS_Interval
    <3> HIDE DEF I
    <3> QED
      BY <3>1, FS_Subset
  <2> HIDE DEF I, at
  <2>5. at \in Bijection(I, AtLeast(s, m))
    BY <2>1, <2>2, <2>3 DEF Bijection, Injection, IsInjective, Surjection
  <2> QED
    BY <2>4, <2>5, FS_Bijection DEF ExistsBijection
<1>7. i \in 1..n => (NextBest(s, i) >= m <=> i \in I)
  BY <1>4
<1>8. i \notin 1..n => NextBest(s, i) = -1 /\ i > n
  BY <1>1, <1>4
<1>9. NextBest(s, i) \in -1..MaxMark
  BY <1>2, <1>3, <1>4, FieldBoundsAssumption
<1> HIDE DEF I
<1> QED
  BY <1>1, <1>5, <1>6, <1>7, <1>8, <1>9

\* A distance is reached as often as it or more is, and no more is.
LEMMA ReachedCounts ==
  ASSUME NEW s \in Series, NEW m \in Nat
  PROVE  Cardinality(AtLeast(s, m)) = Cardinality(AtLeast(s, m + 1)) + Reached(s, m)
         /\ Reached(s, m) \in Nat /\ (m > MaxMark => Cardinality(AtLeast(s, m)) = 0)
<1> DEFINE at == {p \in Valid(s) : s[p].mark = m}
           above == AtLeast(s, m + 1)
<1>1. \A p \in Valid(s) : s[p].mark \in 0..MaxMark
  BY DEF Series, TrialRows, Valid, PlacesOf
<1>2. AtLeast(s, m) = above \union at /\ above \intersect at = {}
  BY <1>1, FieldBoundsAssumption DEF AtLeast
<1>3. IsFiniteSet(Valid(s)) /\ above \in SUBSET Valid(s) /\ at \in SUBSET Valid(s)
  BY ValidIsFinite DEF AtLeast
<1>4. IsFiniteSet(above) /\ IsFiniteSet(at) /\ Cardinality(above) \in Nat /\ Cardinality(at) \in Nat
  BY <1>3, FS_Subset, FS_CardinalityType
<1>5. Reached(s, m) = Cardinality(at)
  BY DEF Reached
<1>6. Cardinality(above \intersect at) = 0
  BY <1>2, FS_EmptySet
<1>7. Cardinality(above \union at) = Cardinality(above) + Cardinality(at) - Cardinality(above \intersect at)
  <2> HIDE DEF above, at
  <2> QED
    BY <1>4, FS_Union
<1>8. m > MaxMark => AtLeast(s, m) = {}
  BY <1>1, FieldBoundsAssumption DEF AtLeast
<1>9. m > MaxMark => Cardinality(AtLeast(s, m)) = 0
  BY <1>8, FS_EmptySet
<1> HIDE DEF at
<1>10. Cardinality(AtLeast(s, m)) = Cardinality(above) + Cardinality(at)
  <2> HIDE DEF above
  <2> QED
    BY <1>2, <1>4, <1>6, <1>7
<1> QED
  BY <1>4, <1>5, <1>9, <1>10

CountAt(s, m) == Cardinality(AtLeast(s, m))

LEMMA CountIsNat ==
  ASSUME NEW s \in Series, NEW m \in Nat
  PROVE  CountAt(s, m) \in Nat /\ CountAt(s, m) <= LastPlace
<1>1. 1 \in Nat \ {0} /\ LastPlace \in Nat
  BY ValidIsFinite
<1>2. Cardinality(AtLeast(s, m)) \in 0..LastPlace
  BY <1>1, OrderStatistic
<1> QED
  BY <1>1, <1>2 DEF CountAt

\* Reached equally often from m upwards: as many trials of each distance or more.
LEMMA SameAbove ==
  ASSUME NEW s \in Series, NEW t \in Series, NEW m \in 0..(MaxMark + 1)
  PROVE  (\A k \in m..MaxMark : Reached(s, k) = Reached(t, k))
           <=> \A k \in m..(MaxMark + 1) : CountAt(s, k) = CountAt(t, k)
<1>1. MaxMark \in Nat
  BY FieldBoundsAssumption
<1>2. \A r \in Series, k \in Nat :
        /\ CountAt(r, k) = CountAt(r, k + 1) + Reached(r, k)
        /\ Reached(r, k) \in Nat
        /\ k > MaxMark => CountAt(r, k) = 0
  BY ReachedCounts DEF CountAt
<1>3. \A r \in Series, k \in Nat : CountAt(r, k) \in Nat
  BY CountIsNat
<1>4. ASSUME \A k \in m..(MaxMark + 1) : CountAt(s, k) = CountAt(t, k), NEW k \in m..MaxMark
      PROVE  Reached(s, k) = Reached(t, k)
  <2>1. k \in Nat /\ k + 1 \in Nat /\ k \in m..(MaxMark + 1) /\ k + 1 \in m..(MaxMark + 1)
    BY <1>1
  <2>2. CountAt(s, k) = CountAt(t, k) /\ CountAt(s, k + 1) = CountAt(t, k + 1)
    BY <1>4, <2>1
  <2>3. CountAt(s, k + 1) \in Nat /\ CountAt(t, k + 1) \in Nat
    BY <1>3, <2>1
  <2>4. /\ CountAt(s, k) = CountAt(s, k + 1) + Reached(s, k) /\ Reached(s, k) \in Nat
        /\ CountAt(t, k) = CountAt(t, k + 1) + Reached(t, k) /\ Reached(t, k) \in Nat
    BY <1>2, <2>1
  <2>5. \A c, a, b \in Nat : c + a = c + b => a = b
    OBVIOUS
  <2> QED
    BY <2>2, <2>3, <2>4, <2>5
<1>5. ASSUME \A k \in m..MaxMark : Reached(s, k) = Reached(t, k),
             NEW l \in m..(MaxMark + 1), CountAt(s, l) # CountAt(t, l)
      PROVE  FALSE
  <2> DEFINE T == {d \in 0..(MaxMark + 1 - m) : CountAt(s, MaxMark + 1 - d) # CountAt(t, MaxMark + 1 - d)}
  <2>1. PICK d \in T : \A e \in T : d <= e
    <3>1. T \in SUBSET Nat
      OBVIOUS
    <3>2. T # {}
      <4>1. MaxMark + 1 - l \in 0..(MaxMark + 1 - m) /\ MaxMark + 1 - (MaxMark + 1 - l) = l
        BY <1>1
      <4>2. CountAt(s, MaxMark + 1 - (MaxMark + 1 - l)) # CountAt(t, MaxMark + 1 - (MaxMark + 1 - l))
        BY <1>5, <4>1
      <4>3. MaxMark + 1 - l \in T
        BY <4>1, <4>2
      <4> QED
        BY <4>3
    <3> HIDE DEF T
    <3> QED
      BY <3>1, <3>2, LeastNatural
  <2>2. PICK k \in Nat : k = MaxMark + 1 - d
    BY <1>1
  <2>3. k \in m..(MaxMark + 1) /\ CountAt(s, k) # CountAt(t, k) /\ d \in Nat
    BY <1>1, <2>2
  <2>4. k # MaxMark + 1
    BY <1>1, <1>2, <2>3
  <2>5. k \in m..MaxMark /\ k + 1 \in m..(MaxMark + 1) /\ d - 1 \in 0..(MaxMark + 1 - m)
    BY <1>1, <2>2, <2>3, <2>4
  <2>6. MaxMark + 1 - (d - 1) = k + 1
    BY <1>1, <2>2, <2>3
  <2>7. d - 1 \notin T
    BY <2>1, <2>3
  <2>8. CountAt(s, k + 1) = CountAt(t, k + 1)
    BY <2>5, <2>6, <2>7
  <2>9. Reached(s, k) = Reached(t, k)
    BY <1>5, <2>5
  <2> HIDE DEF T
  <2>10. CountAt(s, k) = CountAt(s, k + 1) + Reached(s, k) /\ CountAt(t, k) = CountAt(t, k + 1) + Reached(t, k)
    BY <1>2
  <2> QED
    BY <2>3, <2>8, <2>9, <2>10
<1> QED
  BY <1>4, <1>5

\* compareMarks finds the best distance that differs in how often it was reached.
LEMMA BeatsIsAhead ==
  ASSUME NEW s \in Series, NEW t \in Series
  PROVE  Beats(s, t) <=> Ahead(s, t)
<1>1. MaxMark \in Nat /\ LastPlace \in Nat /\ Places = 1..LastPlace
  BY FieldBoundsAssumption, ValidIsFinite
<1>2. \A r \in Series, k \in Nat :
        CountAt(r, k) \in Nat /\ CountAt(r, k) <= LastPlace /\ CountAt(r, k) \in 0..LastPlace
  <2> TAKE r \in Series, k \in Nat
  <2>1. CountAt(r, k) \in Nat /\ CountAt(r, k) <= LastPlace
    BY CountIsNat
  <2> QED
    BY <1>1, <2>1
<1>3. \A r \in Series, i \in Nat \ {0}, k \in Nat :
        NextBest(r, i) \in -1..MaxMark /\ (NextBest(r, i) >= k <=> i <= CountAt(r, k))
  BY OrderStatistic DEF CountAt
<1>4. AheadOnMarks(s, t) <=>
        \E i \in Places : /\ NextBest(s, i) > NextBest(t, i)
                          /\ \A j \in 1..(i - 1) : NextBest(s, j) = NextBest(t, j)
  BY DEF AheadOnMarks, NextBest
<1>5. ASSUME NEW i \in Places, NextBest(s, i) > NextBest(t, i),
             \A j \in 1..(i - 1) : NextBest(s, j) = NextBest(t, j)
      PROVE  \E m \in 0..MaxMark :
               /\ Reached(s, m) > Reached(t, m)
               /\ \A n \in (m + 1)..MaxMark : Reached(s, n) = Reached(t, n)
  <2>1. i \in Nat \ {0}
    BY <1>1
  <2>2. PICK m \in 0..MaxMark : m = NextBest(s, i)
    BY <1>1, <1>3, <1>5, <2>1
  <2>3. CountAt(s, m) >= i /\ CountAt(t, m) < i
    <3>1. i <= CountAt(s, m) /\ ~(i <= CountAt(t, m))
      BY <1>1, <1>3, <1>5, <2>1, <2>2
    <3> QED
      BY <1>1, <1>2, <2>1, <3>1
  <2>4. ASSUME NEW k \in (m + 1)..(MaxMark + 1)
        PROVE  CountAt(s, k) = CountAt(t, k)
    <3>1. k \in Nat /\ CountAt(s, k) \in Nat /\ CountAt(t, k) \in Nat
      <4>1. k \in Nat
        BY <1>1
      <4> QED
        BY <1>2, <4>1
    <3>2. CountAt(s, k) < i /\ CountAt(t, k) < i
      <4>1. ~(NextBest(s, i) >= k) /\ ~(NextBest(t, i) >= k)
        BY <1>1, <1>3, <1>5, <2>1, <2>2
      <4> QED
        BY <1>3, <2>1, <3>1, <4>1
    <3>3. CountAt(s, k) # 0 => CountAt(t, k) >= CountAt(s, k)
      <4> SUFFICES ASSUME CountAt(s, k) # 0 PROVE CountAt(t, k) >= CountAt(s, k)
        OBVIOUS
      <4>1. PICK c \in Nat \ {0} : c = CountAt(s, k)
        BY <3>1
      <4>2. NextBest(s, c) >= k
        BY <1>3, <3>1, <4>1
      <4>3. NextBest(t, c) = NextBest(s, c)
        BY <1>5, <2>1, <3>2, <4>1
      <4> QED
        BY <1>3, <3>1, <4>1, <4>2, <4>3
    <3>4. CountAt(t, k) # 0 => CountAt(s, k) >= CountAt(t, k)
      <4> SUFFICES ASSUME CountAt(t, k) # 0 PROVE CountAt(s, k) >= CountAt(t, k)
        OBVIOUS
      <4>1. PICK c \in Nat \ {0} : c = CountAt(t, k)
        BY <3>1
      <4>2. NextBest(t, c) >= k
        BY <1>3, <3>1, <4>1
      <4>3. NextBest(t, c) = NextBest(s, c)
        BY <1>5, <2>1, <3>2, <4>1
      <4> QED
        BY <1>3, <3>1, <4>1, <4>2, <4>3
    <3> QED
      BY <3>1, <3>3, <3>4
  <2>5. m \in Nat /\ m + 1 \in Nat /\ m + 1 \in 0..(MaxMark + 1)
    BY <1>1
  <2>6. \A n \in (m + 1)..MaxMark : Reached(s, n) = Reached(t, n)
    <3>1. PICK a \in 0..(MaxMark + 1) : a = m + 1
      BY <2>5
    <3> QED
      BY <2>4, <3>1, SameAbove
  <2>7. CountAt(s, m + 1) = CountAt(t, m + 1)
    BY <1>1, <2>4, <2>5
  <2>8. /\ CountAt(s, m) = CountAt(s, m + 1) + Reached(s, m) /\ Reached(s, m) \in Nat
        /\ CountAt(t, m) = CountAt(t, m + 1) + Reached(t, m) /\ Reached(t, m) \in Nat
    BY <2>5, ReachedCounts DEF CountAt
  <2>9. CountAt(s, m + 1) \in Nat /\ CountAt(s, m) \in Nat /\ CountAt(t, m) \in Nat /\ i \in Nat
    BY <1>1, <1>2, <2>1, <2>5
  <2>10. Reached(s, m) > Reached(t, m)
    BY <2>3, <2>7, <2>8, <2>9
  <2> QED
    BY <2>6, <2>10
<1>6. ASSUME NEW m \in 0..MaxMark, Reached(s, m) > Reached(t, m),
             \A n \in (m + 1)..MaxMark : Reached(s, n) = Reached(t, n)
      PROVE  \E i \in Places : /\ NextBest(s, i) > NextBest(t, i)
                               /\ \A j \in 1..(i - 1) : NextBest(s, j) = NextBest(t, j)
  <2>1. m \in Nat /\ m + 1 \in Nat /\ m + 1 \in 0..(MaxMark + 1)
    BY <1>1
  <2>2. \A k \in (m + 1)..(MaxMark + 1) : CountAt(s, k) = CountAt(t, k)
    <3>1. PICK a \in 0..(MaxMark + 1) : a = m + 1
      BY <2>1
    <3> QED
      BY <1>6, <3>1, SameAbove
  <2>3. CountAt(s, m) > CountAt(t, m)
    <3>1. CountAt(s, m + 1) = CountAt(t, m + 1)
      BY <1>1, <2>1, <2>2
    <3>2. /\ CountAt(s, m) = CountAt(s, m + 1) + Reached(s, m) /\ Reached(s, m) \in Nat
          /\ CountAt(t, m) = CountAt(t, m + 1) + Reached(t, m) /\ Reached(t, m) \in Nat
      BY <2>1, ReachedCounts DEF CountAt
    <3>3. CountAt(s, m + 1) \in Nat
      BY <1>1, <1>2, <2>1
    <3> QED
      BY <1>6, <3>1, <3>2, <3>3
  <2>4. CountAt(s, m) \in 0..LastPlace /\ CountAt(t, m) \in 0..LastPlace
    BY <1>2, <2>1
  <2>5. PICK i \in Places : i = CountAt(t, m) + 1
    BY <1>1, <2>3, <2>4
  <2>6. NextBest(s, i) > NextBest(t, i)
    <3>1. i \in Nat \ {0} /\ i <= CountAt(s, m) /\ ~(i <= CountAt(t, m))
      BY <1>1, <2>3, <2>4, <2>5
    <3>2. NextBest(s, i) >= m /\ ~(NextBest(t, i) >= m)
      BY <1>3, <2>1, <3>1
    <3> QED
      BY <1>1, <1>3, <2>1, <3>1, <3>2
  <2>7. ASSUME NEW j \in 1..(i - 1), NextBest(s, j) # NextBest(t, j)
        PROVE  FALSE
    <3>1. j \in Nat \ {0} /\ j <= CountAt(s, m) /\ j <= CountAt(t, m)
      BY <1>1, <2>3, <2>4, <2>5
    <3>2. /\ NextBest(s, j) >= m /\ NextBest(t, j) >= m
          /\ NextBest(s, j) \in -1..MaxMark /\ NextBest(t, j) \in -1..MaxMark
      BY <1>3, <2>1, <3>1
    <3>3. CASE NextBest(s, j) < NextBest(t, j)
      <4>1. PICK y \in (m + 1)..MaxMark : y = NextBest(t, j)
        BY <1>1, <2>1, <3>2, <3>3
      <4>2. y \in Nat /\ y \in (m + 1)..(MaxMark + 1)
        BY <1>1, <2>1
      <4>3. NextBest(t, j) >= y /\ ~(NextBest(s, j) >= y)
        BY <1>1, <3>2, <3>3, <4>1, <4>2
      <4>4. j <= CountAt(t, y) /\ ~(j <= CountAt(s, y))
        BY <1>3, <3>1, <4>2, <4>3
      <4> QED
        BY <2>2, <4>2, <4>4
    <3>4. CASE NextBest(t, j) < NextBest(s, j)
      <4>1. PICK y \in (m + 1)..MaxMark : y = NextBest(s, j)
        BY <1>1, <2>1, <3>2, <3>4
      <4>2. y \in Nat /\ y \in (m + 1)..(MaxMark + 1)
        BY <1>1, <2>1
      <4>3. NextBest(s, j) >= y /\ ~(NextBest(t, j) >= y)
        BY <1>1, <3>2, <3>4, <4>1, <4>2
      <4>4. j <= CountAt(s, y) /\ ~(j <= CountAt(t, y))
        BY <1>3, <3>1, <4>2, <4>3
      <4> QED
        BY <2>2, <4>2, <4>4
    <3> QED
      BY <1>1, <2>7, <3>2, <3>3, <3>4
  <2> QED
    BY <2>6, <2>7
<1>7. (\E m \in 0..MaxMark : /\ Reached(s, m) > Reached(t, m)
                             /\ \A n \in (m + 1)..MaxMark : Reached(s, n) = Reached(t, n))
        <=> AheadOnMarks(s, t)
  BY <1>4, <1>5, <1>6
<1> QED
  BY <1>7 DEF Beats, Ahead

-----------------------------------------------------------------------------
(* Either comparison orders the series, ties apart. *)

Rankable(s) == s \in Series /\ (Vertical => Valid(s) \subseteq HeightPlaces)

\* compareMarks: irreflexive, asymmetric, and what is ahead of one of two is
\* ahead of the other or behind it.
LEMMA MarksOrder ==
  ASSUME NEW s \in Series, NEW t \in Series, NEW u \in Series
  PROVE  /\ ~AheadOnMarks(s, s)
         /\ AheadOnMarks(s, t) => ~AheadOnMarks(t, s)
         /\ AheadOnMarks(s, t) => AheadOnMarks(s, u) \/ AheadOnMarks(u, t)
<1>1. LastPlace \in Nat /\ Places = 1..LastPlace
  BY ValidIsFinite
<1>2. \A r \in Series, i \in Places : NextBest(r, i) \in Int
  <2>1. \A i \in Places : i \in Nat \ {0}
    BY <1>1
  <2>2. \A r \in Series, i \in Nat \ {0} : NextBest(r, i) \in -1..MaxMark
    <3>1. 0 \in Nat
      OBVIOUS
    <3> QED
      BY <3>1, OrderStatistic
  <2> QED
    BY <2>1, <2>2, FieldBoundsAssumption
<1> DEFINE Differ(r, q, i) == /\ NextBest(r, i) > NextBest(q, i)
                              /\ \A j \in 1..(i - 1) : NextBest(r, j) = NextBest(q, j)
<1>3. \A r, q : AheadOnMarks(r, q) <=> \E i \in Places : Differ(r, q, i)
  BY DEF AheadOnMarks, NextBest
<1>4. ~AheadOnMarks(s, s)
  BY <1>2, <1>3
<1>5. ASSUME NEW i \in Places, Differ(s, t, i), NEW k \in Places, Differ(t, s, k)
      PROVE  FALSE
  <2>1. i < k => i \in 1..(k - 1)
    BY <1>1
  <2>2. k < i => k \in 1..(i - 1)
    BY <1>1
  <2>3. i < k \/ k < i \/ i = k
    BY <1>1
  <2> QED
    BY <1>2, <1>5, <2>1, <2>2, <2>3
<1>6. ASSUME NEW i \in Places, Differ(s, t, i)
      PROVE  AheadOnMarks(s, u) \/ AheadOnMarks(u, t)
  <2>1. i \in Nat /\ i - 1 \in Nat /\ \A j \in 1..(i - 1) : j \in Places
    BY <1>1
  <2>2. CASE \A j \in 1..(i - 1) : NextBest(s, j) = NextBest(u, j)
    <3>1. NextBest(s, i) > NextBest(u, i) => Differ(s, u, i)
      BY <2>2
    <3>2. ~(NextBest(s, i) > NextBest(u, i)) => NextBest(u, i) > NextBest(t, i)
      BY <1>2, <1>6
    <3>3. \A j \in 1..(i - 1) : NextBest(u, j) = NextBest(t, j)
      BY <1>6, <2>2
    <3>4. ~(NextBest(s, i) > NextBest(u, i)) => Differ(u, t, i)
      BY <3>2, <3>3
    <3> QED
      BY <1>3, <3>1, <3>4
  <2>3. CASE \E j \in 1..(i - 1) : NextBest(s, j) # NextBest(u, j)
    <3> DEFINE T == {j \in 1..(i - 1) : NextBest(s, j) # NextBest(u, j)}
    <3>1. PICK j \in T : \A k \in T : j <= k
      <4>1. T \in SUBSET Nat /\ T # {}
        BY <2>3
      <4> HIDE DEF T
      <4> QED
        BY <4>1, LeastNatural
    <3>2. j \in 1..(i - 1) /\ NextBest(s, j) # NextBest(u, j) /\ j \in Places /\ j \in Nat
      BY <2>1
    <3>3. ASSUME NEW k \in 1..(j - 1)
          PROVE  NextBest(s, k) = NextBest(u, k) /\ NextBest(s, k) = NextBest(t, k)
      <4>1. k \in 1..(i - 1) /\ k < j
        BY <2>1, <3>2
      <4>2. k \notin T
        BY <3>1, <3>2, <4>1
      <4> QED
        BY <1>6, <4>1, <4>2
    <3>4. NextBest(s, j) = NextBest(t, j)
      BY <1>6, <3>2
    <3>5. NextBest(s, j) > NextBest(u, j) \/ NextBest(u, j) > NextBest(t, j)
      BY <1>2, <3>2, <3>4
    <3>6. Differ(s, u, j) \/ Differ(u, t, j)
      BY <3>3, <3>5
    <3> QED
      BY <1>3, <3>2, <3>6
  <2> QED
    BY <2>2, <2>3
<1> HIDE DEF Differ
<1> QED
  BY <1>3, <1>4, <1>5, <1>6

LEMMA HeightNumbers ==
  ASSUME Vertical, NEW s, Rankable(s)
  PROVE  /\ Valid(s) # {} => BestIdx(s) \in Int
         /\ \A h : AttemptsAt(s, h) \in Int
         /\ TotalFailures(s) \in Int
<1>1. LastPlace \in Nat /\ Places = 1..LastPlace
  BY ValidIsFinite
<1>2. IsFiniteSet(Places)
  BY <1>1, FS_Interval
<1>3. \A T \in SUBSET Places : Cardinality(T) \in Int
  <2>1. \A T \in SUBSET Places : IsFiniteSet(T)
    BY <1>2, FS_Subset
  <2>2. \A T : IsFiniteSet(T) => Cardinality(T) \in Nat
    BY FS_CardinalityType
  <2> QED
    BY <2>1, <2>2
<1>4. PlacesOf(s, "X") \in SUBSET Places /\ \A h : AtHeight(h) \intersect Taken(s) \in SUBSET Places
  BY DEF PlacesOf, Taken
<1>5. Valid(s) # {} => BestIdx(s) \in Int
  <2>1. Valid(s) # {} => BestIdx(s) \in HeightIdxs
    BY BestIdxIsAHeight DEF Rankable
  <2> QED
    BY <2>1, FieldBoundsAssumption DEF HeightIdxs
<1> QED
  BY <1>3, <1>4, <1>5 DEF TotalFailures, AttemptsAt

\* compareVertical: the same.
LEMMA HeightsOrder ==
  ASSUME Vertical, NEW s, Rankable(s), NEW t, Rankable(t), NEW u, Rankable(u)
  PROVE  /\ ~AheadOnHeights(s, s)
         /\ AheadOnHeights(s, t) => ~AheadOnHeights(t, s)
         /\ AheadOnHeights(s, t) => AheadOnHeights(s, u) \/ AheadOnHeights(u, t)
<1> DEFINE B(r) == BestIdx(r)
           A(r) == AttemptsAt(r, BestIdx(r))
           F(r) == TotalFailures(r)
<1>1. \A r : Rankable(r) => (Valid(r) # {} => B(r) \in Int) /\ A(r) \in Int /\ F(r) \in Int
  BY HeightNumbers
<1>2. \A r, q : AheadOnHeights(r, q) <=>
        \/ Valid(r) # {} /\ Valid(q) = {}
        \/ /\ Valid(r) # {} /\ Valid(q) # {}
           /\ \/ B(r) > B(q)
              \/ B(r) = B(q) /\ A(r) < A(q)
              \/ B(r) = B(q) /\ A(r) = A(q) /\ F(r) < F(q)
  BY DEF AheadOnHeights
<1> HIDE DEF B, A, F
<1>3. ~AheadOnHeights(s, s)
  BY <1>1, <1>2
<1>4. AheadOnHeights(s, t) => ~AheadOnHeights(t, s)
  BY <1>1, <1>2
<1>5. AheadOnHeights(s, t) => AheadOnHeights(s, u) \/ AheadOnHeights(u, t)
  BY <1>1, <1>2
<1> QED
  BY <1>3, <1>4, <1>5

\* Who is ahead of whom among the athletes, by their series.
OrderOf(series) == {p \in Athletes \X Athletes : Ahead(series[p[1]], series[p[2]])}
AllRankable(series) == \A a \in Athletes : Rankable(series[a])

LEMMA OrderOfPairs ==
  \A series : \A a, b \in Athletes : <<a, b>> \in OrderOf(series) <=> Ahead(series[a], series[b])
BY DEF OrderOf

LEMMA SeriesOrder ==
  ASSUME NEW series, AllRankable(series)
  PROVE  WeakOrder(OrderOf(series), Athletes)
<1>1. \A a, b, c \in Athletes :
        /\ ~Ahead(series[a], series[a])
        /\ Ahead(series[a], series[b]) => ~Ahead(series[b], series[a])
        /\ Ahead(series[a], series[b]) => Ahead(series[a], series[c]) \/ Ahead(series[c], series[b])
  <2> TAKE a, b, c \in Athletes
  <2>1. Rankable(series[a]) /\ Rankable(series[b]) /\ Rankable(series[c])
    BY DEF AllRankable
  <2>2. CASE Vertical
    BY <2>1, <2>2, HeightsOrder DEF Ahead
  <2>3. CASE ~Vertical
    BY <2>1, <2>3, MarksOrder DEF Ahead, Rankable
  <2> QED
    BY <2>2, <2>3
<1> QED
  BY <1>1, OrderOfPairs DEF WeakOrder

\* Sorting yields a listing: everybody once, nobody behind one they are ahead of.
LEMMA ListingIsListed ==
  ASSUME NEW series, AllRankable(series)
  PROVE  Listed(Listing(series), OrderOf(series), Athletes)
<1> DEFINE W == OrderOf(series)
           P == 1..Cardinality(Athletes)
           Sorted(row) == \A i, j \in P : i < j => row[i] # row[j] /\ ~Ahead(series[row[j]], series[row[i]])
<1>1. \A row \in [P -> Athletes] : Listed(row, W, Athletes) <=> Sorted(row)
  <2> TAKE row \in [P -> Athletes]
  <2>1. \A i, j \in P : <<row[j], row[i]>> \in W <=> Ahead(series[row[j]], series[row[i]])
    BY OrderOfPairs
  <2> HIDE DEF W
  <2> QED
    BY <2>1 DEF Listed
<1>2. Listing(series) = CHOOSE row \in [P -> Athletes] : \A i, j \in DOMAIN row :
                          i < j => row[i] # row[j] /\ ~Ahead(series[row[j]], series[row[i]])
  BY DEF Listing
<1> HIDE DEF W
<1>3. \E row \in [P -> Athletes] : Listed(row, W, Athletes)
  <2>1. \E row : Listed(row, W, Athletes)
    BY AthletesAssumption, SeriesOrder, ListingExists DEF W
  <2> QED
    BY <2>1 DEF Listed
<1>4. \E row \in [P -> Athletes] : \A i, j \in DOMAIN row :
        i < j => row[i] # row[j] /\ ~Ahead(series[row[j]], series[row[i]])
  BY <1>1, <1>3
<1>5. Listing(series) \in [P -> Athletes] /\ Sorted(Listing(series))
  BY <1>2, <1>4
<1> QED
  BY <1>1, <1>5 DEF W

-----------------------------------------------------------------------------
(* A rank counts who is ahead. *)

\* A series with a valid trial is ahead of one without, and of no other is one
\* without.
LEMMA ValidIsAhead ==
  ASSUME NEW s, Rankable(s), NEW t, Rankable(t)
  PROVE  /\ Valid(s) # {} /\ Valid(t) = {} => Ahead(s, t)
         /\ Ahead(s, t) => Valid(s) # {}
<1>1. CASE Vertical
  BY <1>1 DEF Ahead, AheadOnHeights
<1>2. CASE ~Vertical
  <2>1. LastPlace \in Nat \ {0} /\ 1 \in Places
    BY ValidIsFinite
  <2>2. \A r \in Series : AtLeast(r, 0) = Valid(r)
    BY DEF AtLeast, Series, TrialRows, Valid, PlacesOf
  <2>3. \A r \in Series : IsFiniteSet(Valid(r)) /\ Cardinality(Valid(r)) \in Nat
    BY ValidIsFinite, FS_CardinalityType
  <2>4. \A r \in Series : Cardinality(Valid(r)) = 0 <=> Valid(r) = {}
    BY <2>3, FS_EmptySet
  <2>5. \A r \in Series, i \in Nat \ {0} :
          NextBest(r, i) \in -1..MaxMark /\ (NextBest(r, i) >= 0 <=> i <= Cardinality(Valid(r)))
    <3>1. \A r \in Series, i \in Nat \ {0} :
            NextBest(r, i) \in -1..MaxMark /\ (NextBest(r, i) >= 0 <=> i <= Cardinality(AtLeast(r, 0)))
      BY OrderStatistic
    <3> QED
      BY <2>2, <3>1
  <2>6. s \in Series /\ t \in Series
    BY DEF Rankable
  <2>7. AheadOnMarks(s, t) <=>
          \E i \in Places : /\ NextBest(s, i) > NextBest(t, i)
                            /\ \A j \in 1..(i - 1) : NextBest(s, j) = NextBest(t, j)
    BY DEF AheadOnMarks, NextBest
  <2>8. ASSUME Valid(s) # {}, Valid(t) = {}
        PROVE  AheadOnMarks(s, t)
    <3>1. NextBest(s, 1) >= 0 /\ ~(NextBest(t, 1) >= 0)
      BY <2>3, <2>4, <2>5, <2>6, <2>8
    <3>2. NextBest(s, 1) > NextBest(t, 1)
      BY <2>5, <2>6, <3>1, FieldBoundsAssumption
    <3>3. \A j \in 1..(1 - 1) : NextBest(s, j) = NextBest(t, j)
      OBVIOUS
    <3> QED
      BY <2>1, <2>7, <3>2, <3>3
  <2>9. ASSUME AheadOnMarks(s, t)
        PROVE  Valid(s) # {}
    <3>1. PICK i \in Places : NextBest(s, i) > NextBest(t, i)
      BY <2>7, <2>9
    <3>2. i \in Nat \ {0}
      BY ValidIsFinite
    <3>3. NextBest(s, i) >= 0
      BY <2>5, <2>6, <3>1, <3>2, FieldBoundsAssumption
    <3>4. i <= Cardinality(Valid(s))
      BY <2>5, <2>6, <3>2, <3>3
    <3> QED
      BY <2>4, <2>6, <3>2, <3>4
  <2> QED
    BY <1>2, <2>8, <2>9 DEF Ahead
<1> QED
  BY <1>1, <1>2

\* The rank of an athlete: none without a valid trial, or one behind those who
\* are ahead.
RankOf(series, a) ==
  IF Valid(series[a]) = {} THEN 0 ELSE 1 + Cardinality(AheadOf(a, OrderOf(series), Athletes))

\* Along the listing, comparing each with the one before: what RankFieldSeries
\* and RankVertical compute counts who is ahead.
LEMMA RanksCount ==
  ASSUME NEW series, AllRankable(series)
  PROVE  \A a \in Athletes : Ranks(series)[a] = RankOf(series, a)
<1> DEFINE n == Cardinality(Athletes)
           W == OrderOf(series)
           row == Listing(series)
           rank[i \in DOMAIN row] ==
             IF Valid(series[row[i]]) = {} THEN 0
             ELSE IF i > 1 /\ ~Ahead(series[row[i - 1]], series[row[i]]) THEN rank[i - 1]
             ELSE i
           count == [i \in 1..n |-> RankOf(series, row[i])]
<1>1. Ranks(series) = [a \in Athletes |-> rank[CHOOSE i \in DOMAIN row : row[i] = a]]
  BY DEF Ranks
<1>2. n \in Nat
  BY AthletesAssumption, FS_CardinalityType
<1>3. Listed(row, W, Athletes) /\ WeakOrder(W, Athletes)
  BY ListingIsListed, SeriesOrder
<1>4. row \in [1..n -> Athletes] /\ DOMAIN row = 1..n
  BY <1>3 DEF Listed
<1>5. \A i \in 1..n : Rankable(series[row[i]])
  BY <1>4 DEF AllRankable
<1>6. \A i \in 1..n : i > 1 =>
        i - 1 \in 1..n /\ (<<row[i - 1], row[i]>> \in W <=> Ahead(series[row[i - 1]], series[row[i]]))
  BY <1>2, <1>4, OrderOfPairs
<1> DEFINE Step(f, i) ==
             IF Valid(series[row[i]]) = {} THEN 0
             ELSE IF i > 1 /\ ~Ahead(series[row[i - 1]], series[row[i]]) THEN f[i - 1]
             ELSE i
<1>7. \A i \in 1..n : count[i] = Step(count, i)
  <2> TAKE i \in 1..n
  <2>1. i = 1 \/ i > 1
    BY <1>2
  <2>2. CASE Valid(series[row[i]]) = {}
    BY <2>2 DEF RankOf
  <2>3. CASE Valid(series[row[i]]) # {} /\ i > 1 /\ ~Ahead(series[row[i - 1]], series[row[i]])
    <3>1. i - 1 \in 1..n /\ i # 1 /\ <<row[i - 1], row[i]>> \notin W
      BY <1>6, <2>3
    <3>2. Valid(series[row[i - 1]]) # {}
      <4> DEFINE s == series[row[i]]
                 before == series[row[i - 1]]
      <4>1. Rankable(before) /\ Rankable(s)
        BY <1>5, <3>1
      <4>2. Valid(s) # {} /\ ~Ahead(s, before)
        <5>1. i - 1 < i
          BY <1>2
        <5>2. <<row[i], row[i - 1]>> \notin W
          BY <1>3, <3>1, <5>1 DEF Listed
        <5>3. row[i] \in Athletes /\ row[i - 1] \in Athletes
          BY <1>4, <3>1
        <5> HIDE DEF row, W
        <5> QED
          BY <2>3, <5>2, <5>3, OrderOfPairs DEF W
      <4>3. Valid(before) # {}
        <5> HIDE DEF s, before
        <5> QED
          BY <4>1, <4>2, ValidIsAhead
      <4> QED
        BY <4>3
    <3>3. AheadOf(row[i], W, Athletes) = AheadOf(row[i - 1], W, Athletes)
      <4> HIDE DEF W, row
      <4> QED
        BY <1>3, <3>1, AthletesAssumption, NeighboursTell
    <3>4. count[i] = count[i - 1]
      BY <2>3, <3>1, <3>2, <3>3 DEF RankOf
    <3> HIDE DEF count, row
    <3> QED
      BY <2>3, <3>4
  <2>4. CASE Valid(series[row[i]]) # {} /\ ~(i > 1 /\ ~Ahead(series[row[i - 1]], series[row[i]]))
    <3>1. i = 1 \/ <<row[i - 1], row[i]>> \in W
      BY <1>6, <2>1, <2>4
    <3>2. Cardinality(AheadOf(row[i], W, Athletes)) = i - 1
      <4> HIDE DEF W, row
      <4> QED
        BY <1>3, <3>1, AthletesAssumption, NeighboursTell
    <3>3. 1 + (i - 1) = i
      BY <1>2
    <3>4. count[i] = i
      BY <2>4, <3>2, <3>3 DEF RankOf
    <3> HIDE DEF count, row
    <3> QED
      BY <2>4, <3>4
  <2> QED
    BY <2>2, <2>3, <2>4
<1>8. rank = [i \in DOMAIN row |-> Step(rank, i)]
  <2>1. count = [i \in DOMAIN row |-> Step(count, i)]
    BY <1>4, <1>7
  <2> HIDE DEF count, row
  <2> QED
    BY <2>1
<1>9. ASSUME NEW k \in 1..n, rank[k] # count[k]
      PROVE  FALSE
  <2> DEFINE T == {i \in 1..n : rank[i] # count[i]}
  <2>1. PICK i \in T : \A j \in T : i <= j
    <3>1. T \in SUBSET Nat /\ k \in T
      BY <1>9
    <3> HIDE DEF T
    <3> QED
      BY <3>1, LeastNatural
  <2>2. i \in 1..n /\ rank[i] # count[i] /\ (i > 1 => i - 1 \in 1..n /\ i - 1 < i)
    BY <1>2
  <2>3. i > 1 => rank[i - 1] = count[i - 1]
    <3>1. i \in Int /\ ~(i <= i - 1)
      BY <1>2, <2>2
    <3>2. i - 1 \notin T
      <4> HIDE DEF T
      <4> QED
        BY <2>1, <3>1
    <3> QED
      BY <2>2, <3>2
  <2> HIDE DEF rank, count, row, T
  <2>4. rank[i] = Step(rank, i) /\ count[i] = Step(count, i)
    BY <1>4, <1>7, <1>8, <2>2
  <2>5. Step(rank, i) = Step(count, i)
    BY <2>3
  <2> QED
    BY <2>2, <2>4, <2>5
<1>10. ASSUME NEW a \in Athletes
       PROVE  Ranks(series)[a] = RankOf(series, a)
  <2> DEFINE at == CHOOSE i \in DOMAIN row : row[i] = a
  <2>1. at \in 1..n /\ row[at] = a
    <3>1. \E i \in 1..n : row[i] = a
      <4> HIDE DEF W, row
      <4> QED
        BY <1>3, AthletesAssumption, EverybodyIsListed
    <3> HIDE DEF row
    <3> QED
      BY <1>4, <3>1
  <2>2. Ranks(series)[a] = rank[at]
    BY <1>1
  <2>3. rank[at] = count[at]
    <3> HIDE DEF rank, count, at
    <3> QED
      BY <1>9, <2>1
  <2>4. count[at] = RankOf(series, row[at])
    <3> HIDE DEF at, row
    <3> QED
      BY <2>1
  <2> HIDE DEF rank, count, at, row
  <2> QED
    BY <2>1, <2>2, <2>3, <2>4
<1> QED
  BY <1>10

\* The series the standings rank, whatever the office corrected, can be ranked.
LEMMA BasisRankable ==
  ASSUME TypeInv
  PROVE  AllRankable(RankingBasis) /\ AllRankable(trials)
<1>1. trials \in [Athletes -> Series]
  BY DEF TypeInv, FieldTypeOK, Series
<1>2. \A a \in Athletes : results[a].mark \in 0..MaxMark
  BY DEF TypeInv, FieldTypeOK, ResultRows
<1>3. \A m \in 0..MaxMark : OneMark(m) \in Series
  <2> TAKE m \in 0..MaxMark
  <2>1. TrialRow([kind |-> "valid", mark |-> m], 0) \in TrialRows /\ NoTrial \in TrialRows
    BY FieldBoundsAssumption DEF TrialRow, TrialRows, TrialKinds, NoTrial, Nothing
  <2> QED
    BY <2>1 DEF OneMark, Series
<1>4. AllRankable(trials)
  <2>1. Vertical => \A a \in Athletes : Valid(trials[a]) \subseteq HeightPlaces
    BY ValidIsTaken DEF TypeInv, PlacesInv
  <2> QED
    BY <1>1, <2>1 DEF AllRankable, Rankable
<1>5. CASE Vertical
  BY <1>4, <1>5 DEF RankingBasis
<1>6. CASE ~Vertical
  <2>1. \A a \in Athletes : RankingBasis[a] = Reconciled(a)
    BY <1>6 DEF RankingBasis
  <2>2. \A a \in Athletes : Reconciled(a) \in {NoSeries, OneMark(results[a].mark), trials[a]}
    BY DEF Reconciled
  <2>3. \A a \in Athletes : RankingBasis[a] \in Series
    BY <1>1, <1>2, <1>3, <2>1, <2>2, NoSeriesTyped
  <2> QED
    BY <1>4, <1>6, <2>3 DEF AllRankable, Rankable
<1> QED
  BY <1>4, <1>5, <1>6

LEMMA BetterIsAhead ==
  ASSUME NEW s, Rankable(s), NEW t, Rankable(t)
  PROVE  Beats(s, t) <=> Ahead(s, t)
BY BeatsIsAhead DEF Rankable

LEMMA RanksAreCounts ==
  ASSUME TypeInv
  PROVE  RanksCountTheBetter
<1> DEFINE basis == RankingBasis
<1>1. AllRankable(basis)
  BY BasisRankable
<1> HIDE DEF basis
<1>2. ASSUME NEW a \in Athletes
      PROVE  AheadOf(a, OrderOf(basis), Athletes) = {b \in Athletes : Beats(basis[b], basis[a])}
  <2>1. \A b \in Athletes : <<b, a>> \in OrderOf(basis) <=> Beats(basis[b], basis[a])
    BY <1>1, BetterIsAhead, OrderOfPairs DEF AllRankable
  <2> QED
    BY <2>1 DEF AheadOf
<1>3. \A a \in Athletes : Ranks(basis)[a] =
        IF Valid(basis[a]) = {} THEN 0
        ELSE 1 + Cardinality({b \in Athletes : Beats(basis[b], basis[a])})
  BY <1>1, <1>2, RanksCount DEF RankOf
<1> QED
  BY <1>3 DEF RanksCountTheBetter, basis

\* The loop that compares neighbours in the sorted series gives everybody one
\* more than the number of athletes who beat them (RankFieldSeries,
\* RankVertical).
THEOREM RanksAreRight == FieldSpec => []RanksCountTheBetter
<1>1. FieldInit => TypeInv
  BY TypeInit
<1>2. TypeInv /\ [FieldNext]_vars => TypeInv'
  BY TypeStep
<1>3. TypeInv => RanksCountTheBetter
  BY RanksAreCounts
<1> QED BY <1>1, <1>2, <1>3, PTL DEF FieldSpec

-----------------------------------------------------------------------------
(* The cut. *)

LEMMA CutCounts ==
  ASSUME TypeInv
  PROVE  CutIsFair
<1> DEFINE W == OrderOf(trials)
           ahead(a) == Cardinality(AheadOf(a, W, Athletes))
           S == {a \in Athletes : Valid(trials[a]) # {}}
           left == {a \in Athletes : Valid(trials[a]) # {} /\ ~Retired(trials[a])}
           retired == {a \in Athletes : Retired(trials[a])}
<1> SUFFICES ASSUME Continuers # {}
             PROVE  /\ Continuers \subseteq left
                    /\ \A a \in Continuers, b \in left \ Continuers : Beats(trials[a], trials[b])
                    /\ left # Continuers => Cardinality(Continuers \union retired) >= CutTo
  BY DEF CutIsFair
<1>1. AllRankable(trials) /\ IsFiniteSet(Athletes) /\ CutTo \in Nat
  BY BasisRankable, AthletesAssumption, FieldBoundsAssumption
<1>2. Continuers = {a \in Athletes : Ranks(trials)[a] \in 1..CutTo /\ ~Retired(trials[a])}
  BY DEF Continuers
<1>3. \A a \in Athletes : Ranks(trials)[a] = IF Valid(trials[a]) = {} THEN 0 ELSE 1 + ahead(a)
  BY <1>1, RanksCount DEF RankOf
<1>4. WeakOrder(W, Athletes)
  BY <1>1, SeriesOrder
<1>5. \A a, b \in Athletes : <<a, b>> \in W <=> Ahead(trials[a], trials[b])
  BY OrderOfPairs
<1> HIDE DEF W
<1>6. \A a \in Athletes : ahead(a) \in Nat
  BY <1>1, AheadIsFinite
<1>7. \A a, b \in Athletes : <<a, b>> \in W <=> ahead(a) < ahead(b)
  BY <1>1, <1>4, FewerAhead
<1>8. \A a \in Athletes : a \in Continuers <=>
        Valid(trials[a]) # {} /\ ~Retired(trials[a]) /\ ahead(a) < CutTo
  <2> TAKE a \in Athletes
  <2>1. ahead(a) \in Nat
    BY <1>6
  <2> HIDE DEF ahead
  <2> QED
    BY <1>1, <1>2, <1>3, <2>1
<1>9. Continuers \subseteq left
  BY <1>2, <1>8
<1>10. ASSUME NEW a \in Continuers, NEW b \in left \ Continuers
       PROVE  Beats(trials[a], trials[b])
  <2>1. a \in Athletes /\ b \in Athletes
    BY <1>2
  <2>2. ahead(a) < CutTo /\ ~(ahead(b) < CutTo) /\ ahead(a) \in Nat /\ ahead(b) \in Nat
    BY <1>6, <1>8, <2>1
  <2>3. ahead(a) < ahead(b)
    <3> HIDE DEF ahead
    <3> QED
      BY <1>1, <2>2
  <2>4. Ahead(trials[a], trials[b])
    BY <1>5, <1>7, <2>1, <2>3
  <2> QED
    BY <1>1, <2>1, <2>4, BetterIsAhead DEF AllRankable
<1>11. ASSUME left # Continuers
       PROVE  Cardinality(Continuers \union retired) >= CutTo
  <2>1. PICK b \in left : b \notin Continuers
    BY <1>9, <1>11
  <2>2. b \in S /\ b \in Athletes /\ ahead(b) >= CutTo
    <3>1. b \in Athletes /\ ~(ahead(b) < CutTo) /\ ahead(b) \in Nat
      BY <1>6, <1>8, <2>1
    <3> HIDE DEF ahead
    <3> QED
      BY <1>1, <2>1, <3>1
  <2>3. /\ IsFiniteSet(S) /\ Cardinality(S) \in Nat
        /\ IsFiniteSet(Continuers \union retired) /\ Cardinality(Continuers \union retired) \in Nat
    <3>1. S \in SUBSET Athletes /\ Continuers \union retired \in SUBSET Athletes
      BY <1>2
    <3> HIDE DEF S, retired
    <3> QED
      BY <1>1, <3>1, FS_Subset, FS_CardinalityType
  <2>4. \A a \in Athletes : AheadOf(a, W, Athletes) = AheadOf(a, W, S) /\ AheadOf(a, W, S) \in SUBSET S
    <3>1. \A a, c \in Athletes : <<c, a>> \in W => Valid(trials[c]) # {}
      BY <1>1, <1>5, ValidIsAhead DEF AllRankable
    <3> QED
      BY <3>1 DEF AheadOf
  <2>5. CASE CutTo = 0
    <3> HIDE DEF retired
    <3> QED
      BY <2>3, <2>5
  <2>6. CASE CutTo # 0
    <3>1. CutTo \in 1..Cardinality(S)
      <4>1. Cardinality(AheadOf(b, W, S)) <= Cardinality(S)
        <5> HIDE DEF S
        <5> QED
          BY <2>3, AheadIsFinite
      <4>2. ahead(b) = Cardinality(AheadOf(b, W, S)) /\ ahead(b) \in Nat
        BY <1>6, <2>2, <2>4
      <4> HIDE DEF ahead, S
      <4> QED
        BY <1>1, <2>2, <2>3, <2>6, <4>1, <4>2
    <3>2. WeakOrder(W, S)
      BY <1>4 DEF WeakOrder
    <3>3. PICK x \in S : /\ Cardinality(AheadOf(x, W, S)) < CutTo
                         /\ Cardinality({y \in S : <<x, y>> \notin W}) >= CutTo
      <4> HIDE DEF S
      <4> QED
        BY <2>3, <3>1, <3>2, TheLastWhoFits
    <3> DEFINE kept == {y \in S : <<x, y>> \notin W}
    <3>4. kept \subseteq Continuers \union retired
      <4> SUFFICES ASSUME NEW y \in kept, y \notin retired
                   PROVE  y \in Continuers
        OBVIOUS
      <4>1. x \in Athletes /\ y \in Athletes /\ Valid(trials[y]) # {} /\ ~Retired(trials[y])
        OBVIOUS
      <4>2. ahead(x) < CutTo
        BY <2>4, <3>3, <4>1
      <4>3. ~(ahead(x) < ahead(y))
        BY <1>7, <4>1
      <4>4. ahead(x) \in Nat /\ ahead(y) \in Nat
        BY <1>6, <4>1
      <4>5. ahead(y) < CutTo
        <5> HIDE DEF ahead
        <5> QED
          BY <1>1, <4>2, <4>3, <4>4
      <4> QED
        BY <1>8, <4>1, <4>5
    <3>5. Cardinality(kept) <= Cardinality(Continuers \union retired) /\ Cardinality(kept) \in Nat
      <4>1. kept \in SUBSET (Continuers \union retired)
        BY <3>4
      <4> HIDE DEF kept, retired
      <4> QED
        BY <2>3, <4>1, FS_Subset, FS_CardinalityType
    <3>6. Cardinality(kept) >= CutTo
      BY <3>3
    <3> HIDE DEF kept, retired
    <3> QED
      BY <1>1, <2>3, <3>5, <3>6
  <2> QED
    BY <2>5, <2>6
<1> QED
  BY <1>9, <1>10, <1>11

\* The cut keeps as many as it may, parts nobody who ties, and keeps nobody who
\* was beaten by one it cuts (FieldContinuation).
THEOREM TheCutIsFair == FieldSpec => []CutIsFair
<1>1. FieldInit => TypeInv
  BY TypeInit
<1>2. TypeInv /\ [FieldNext]_vars => TypeInv'
  BY TypeStep
<1>3. TypeInv => CutIsFair
  BY CutCounts
<1> QED BY <1>1, <1>2, <1>3, PTL DEF FieldSpec

-----------------------------------------------------------------------------
(* The standings and the results. *)

\* A measured trial has a distance.
MarkOK(row) == row.kind = "valid" => row.mark # 0
MarksInv ==
  ~Vertical => /\ \A a \in Athletes, p \in Places : MarkOK(trials[a][p])
               /\ \A c \in Calls : MarkOK(calls[c].trial)

\* The unit's progression is one the office may set up.
ListInv == heights.list \in Progressions \union {<<>>}

LEMMA MarksInit == FieldInit => MarksInv /\ ListInv
<1>1. MarkOK(NoTrial) /\ MarkOK(NoCall.trial)
  BY DEF MarkOK, NoTrial, TrialRow, Nothing, NoCall
<1>2. \A p \in Places : NoSeries[p] = NoTrial
  BY DEF NoSeries
<1>3. FieldInit => /\ \A a \in Athletes : trials[a] = NoSeries
                   /\ \A c \in Calls : calls[c] = NoCall
                   /\ heights.list = <<>>
  BY DEF FieldInit
<1> QED BY <1>1, <1>2, <1>3 DEF MarksInv, ListInv

LEMMA ListStep ==
  ASSUME TypeInv, ListInv, [FieldNext]_vars
  PROVE  ListInv'
<1>1. CASE UNCHANGED heights
  BY <1>1 DEF ListInv
<1>2. ASSUME NEW c \in Calls, SetHeights(c) PROVE ListInv'
  <2>1. calls[c].list \in Progressions
    BY <1>2 DEF SetHeights, At, TypeInv, CallsInv, CallInv
  <2>2. heights' = heights \/ heights'.list = calls[c].list
    BY <1>2 DEF SetHeights
  <2> QED BY <2>1, <2>2 DEF ListInv
<1>3. ASSUME NEW c \in Calls, CallStep(c), ~SetHeights(c) PROVE UNCHANGED heights
  BY <1>3 DEF CallStep, Abort, SaveTrial, ReadHeights, OpenHeightsForm, FirstHeights, AddHeight,
              Save, Reads
<1>4. ASSUME \/ AnnounceUnitResults
             \/ \E a \in Athletes, m \in 1..MaxMark : CorrectResult(a, m, "")
             \/ \E a \in Athletes, s \in {"NM", "DNS"} : CorrectResult(a, 0, s)
      PROVE  UNCHANGED heights
  BY <1>4 DEF AnnounceUnitResults, CorrectResult
<1> QED BY <1>1, <1>2, <1>3, <1>4 DEF FieldNext, vars

LEMMA MarksStep ==
  ASSUME TypeInv, MarksInv, [FieldNext]_vars
  PROVE  MarksInv'
<1>1. family' = family
  BY DEF FieldNext, CallStep, vars, Abort, SaveTrial, ReadHeights, Save, OpenHeightsForm, FirstHeights,
         AddHeight, SetHeights, AnnounceUnitResults, CorrectResult, Reads
<1> SUFFICES ASSUME ~Vertical
             PROVE  /\ \A a \in Athletes, p \in Places : MarkOK(trials'[a][p])
                    /\ \A c \in Calls : MarkOK(calls'[c].trial)
  BY <1>1 DEF MarksInv, Vertical
<1>2. /\ \A a \in Athletes, p \in Places : MarkOK(trials[a][p])
      /\ \A c \in Calls : MarkOK(calls[c].trial)
  BY DEF MarksInv
<1>3. calls \in [Calls -> CallStates] /\ trials \in [Athletes -> Series]
  BY DEF TypeInv, FieldTypeOK, Series
<1>4. MarkOK(NoCall.trial)
  BY DEF MarkOK, NoCall, Nothing
<1>5. ASSUME NEW c \in Calls, NEW call, Continue(c, call), MarkOK(call.trial)
      PROVE  \A d \in Calls : MarkOK(calls'[d].trial)
  BY <1>2, <1>3, <1>5 DEF Continue
<1>6. ASSUME NEW c \in Calls, CallStep(c)
      PROVE  \E call : Continue(c, call) /\ MarkOK(call.trial)
  <2>1. CASE Abort(c) \/ Save(c) \/ SetHeights(c)
    BY <1>4, <2>1 DEF Abort, Save, SetHeights, End
  <2>2. CASE ReadHeights(c)
    <3> DEFINE call == [calls[c] EXCEPT !.list = heights.list, !.at = "save"]
    <3>1. call.trial = calls[c].trial
      BY <1>3 DEF CallStates
    <3>2. Continue(c, call) \/ Continue(c, NoCall)
      BY <2>2 DEF ReadHeights, End
    <3> HIDE DEF call
    <3> QED BY <1>2, <1>4, <3>1, <3>2
  <2>3. ASSUME NEW a \in Athletes, NEW p \in Places, NEW v \in 0..MaxVersion, NEW value \in Captured,
               SaveTrial(c, a, p, value, v)
        PROVE  \E call : Continue(c, call) /\ MarkOK(call.trial)
    <3> DEFINE call == [NoCall EXCEPT !.at = IF Vertical THEN "heights" ELSE "save", !.athlete = a,
                                      !.place = p, !.trial = value, !.expected = v]
    <3>1. call.trial = value
      BY DEF NoCall
    <3>2. MarkOK(value)
      BY FieldBoundsAssumption DEF MarkOK, Captured
    <3>3. Continue(c, call)
      BY <2>3 DEF SaveTrial
    <3> HIDE DEF call
    <3> QED BY <3>1, <3>2, <3>3
  <2>4. CASE OpenHeightsForm(c)
    <3> DEFINE call == [NoCall EXCEPT !.at = "form", !.list = heights.list]
    <3>1. call.trial = NoCall.trial /\ Continue(c, call)
      BY <2>4 DEF OpenHeightsForm, NoCall
    <3> HIDE DEF call
    <3> QED BY <1>4, <3>1
  <2>5. ASSUME NEW list \in Progressions, FirstHeights(c, list)
        PROVE  \E call : Continue(c, call) /\ MarkOK(call.trial)
    <3> DEFINE call == [calls[c] EXCEPT !.list = list, !.at = "set"]
    <3>1. call.trial = calls[c].trial /\ Continue(c, call)
      BY <1>3, <2>5 DEF FirstHeights, CallStates
    <3> HIDE DEF call
    <3> QED BY <1>2, <3>1
  <2>6. ASSUME NEW h \in 1..MaxMark, AddHeight(c, h)
        PROVE  \E call : Continue(c, call) /\ MarkOK(call.trial)
    <3> DEFINE longer == Append(calls[c].list, h)
               call == [calls[c] EXCEPT !.list = longer, !.expected = Len(calls[c].list), !.at = "set"]
    <3>1. Continue(c, call) \/ Continue(c, NoCall)
      BY <2>6 DEF AddHeight, End
    <3>2. call.trial = calls[c].trial
      BY <1>3 DEF CallStates
    <3> HIDE DEF call
    <3> QED BY <1>2, <1>4, <3>1, <3>2
  <2> QED BY <1>6, <2>1, <2>2, <2>3, <2>4, <2>5, <2>6 DEF CallStep
<1>7. ASSUME NEW c \in Calls, CallStep(c), ~Save(c) PROVE UNCHANGED trials
  BY <1>7 DEF CallStep, Abort, SaveTrial, ReadHeights, OpenHeightsForm, FirstHeights, AddHeight,
              SetHeights, Reads
<1>8. ASSUME NEW c \in Calls, Save(c)
      PROVE  \A a \in Athletes, p \in Places : MarkOK(trials'[a][p])
  <2> DEFINE call == calls[c]
             row == TrialRow(call.trial, trials[call.athlete][call.place].version + 1)
             series == [trials[call.athlete] EXCEPT ![call.place] = row]
  <2>1. MarkOK(row)
    BY <1>2 DEF MarkOK, TrialRow
  <2>2. trials' = trials \/ trials' = [trials EXCEPT ![call.athlete] = series]
    BY <1>8 DEF Save
  <2>3. call.athlete \in Athletes /\ call.place \in Places
    BY <1>8 DEF Save, At, TypeInv, CallsInv, CallInv
  <2> HIDE DEF row, call
  <2>4. \A p \in Places : MarkOK(series[p])
    BY <1>2, <1>3, <2>1, <2>3 DEF Series
  <2> HIDE DEF series
  <2> QED BY <1>2, <1>3, <2>2, <2>3, <2>4
<1>9. ASSUME \/ AnnounceUnitResults
             \/ \E a \in Athletes, m \in 1..MaxMark : CorrectResult(a, m, "")
             \/ \E a \in Athletes, s \in {"NM", "DNS"} : CorrectResult(a, 0, s)
             \/ UNCHANGED vars
      PROVE  UNCHANGED <<trials, calls>>
  BY <1>9 DEF AnnounceUnitResults, CorrectResult, vars
<1> QED BY <1>2, <1>5, <1>6, <1>7, <1>8, <1>9 DEF FieldNext

\* Who is ahead on distances has no worse best.
LEMMA AheadHasBest ==
  ASSUME NEW s \in Series, NEW t \in Series, Valid(s) # {}, Valid(t) # {}, AheadOnMarks(s, t)
  PROVE  Best(s) >= Best(t)
<1>1. /\ Best(s) \in 0..MaxMark /\ Best(t) \in 0..MaxMark
      /\ \E p \in Valid(t) : Best(t) = t[p].mark
      /\ \A p \in Valid(s) : Best(s) >= s[p].mark
  BY BestIsAMark
<1>2. MaxMark \in Nat /\ 1 \in Nat \ {0} /\ LastPlace \in Nat \ {0} /\ Places = 1..LastPlace
  BY FieldBoundsAssumption, ValidIsFinite
<1> SUFFICES ASSUME Best(s) < Best(t) PROVE FALSE
  BY <1>1, <1>2
<1>3. PICK m \in Nat : m = Best(t)
  BY <1>1, <1>2
<1>4. AtLeast(s, m) = {}
  <2>1. \A p \in Valid(s) : s[p].mark \in 0..MaxMark
    BY DEF Series, TrialRows, Valid, PlacesOf
  <2>2. \A p \in Valid(s) : ~(s[p].mark >= m)
    BY <1>1, <1>2, <1>3, <2>1
  <2> QED BY <2>2 DEF AtLeast
<1>5. AtLeast(t, m) # {}
  BY <1>1, <1>3 DEF AtLeast
<1>6. Cardinality(AtLeast(s, m)) = 0 /\ Cardinality(AtLeast(t, m)) # 0 /\ Cardinality(AtLeast(t, m)) \in Nat
  <2>1. IsFiniteSet(Valid(t)) /\ AtLeast(t, m) \in SUBSET Valid(t)
    BY ValidIsFinite DEF AtLeast
  <2>2. IsFiniteSet(AtLeast(t, m))
    BY <2>1, FS_Subset
  <2> QED BY <1>4, <1>5, <2>2, FS_EmptySet, FS_CardinalityType
<1>7. \A r \in Series : NextBest(r, 1) \in -1..MaxMark /\ (NextBest(r, 1) >= m <=> 1 <= Cardinality(AtLeast(r, m)))
  BY <1>2, OrderStatistic
<1>8. NextBest(t, 1) > NextBest(s, 1)
  BY <1>2, <1>6, <1>7
<1>9. PICK i \in Places : /\ NextBest(s, i) > NextBest(t, i)
                          /\ \A j \in 1..(i - 1) : NextBest(s, j) = NextBest(t, j)
  BY DEF AheadOnMarks, NextBest
<1>10. i = 1 \/ 1 \in 1..(i - 1)
  BY <1>2
<1> QED BY <1>2, <1>7, <1>8, <1>9, <1>10

LEMMA OneMarkMarks ==
  ASSUME NEW m
  PROVE  \A p \in Valid(OneMark(m)) : OneMark(m)[p].mark = m
<1>1. \A p \in Places : OneMark(m)[p] =
        IF p = 1 THEN [kind |-> "valid", mark |-> m, version |-> 0]
        ELSE [kind |-> "none", mark |-> 0, version |-> 0]
  BY DEF OneMark, TrialRow, NoTrial, Nothing
<1>2. \A p \in Places : p # 1 => OneMark(m)[p].kind = "none"
  BY <1>1
<1>3. \A p \in Places : p = 1 => OneMark(m)[p].mark = m
  BY <1>1
<1> QED BY <1>2, <1>3 DEF Valid, PlacesOf

\* What the standings show of an athlete whose result the standings can show:
\* the result's mark, which is none without a valid trial and some with one.
Shown(a) ==
  /\ ShownMark(a) = results[a].mark
  /\ Valid(RankingBasis[a]) # {} <=> results[a].mark # 0

LEMMA DistancesShown ==
  ASSUME TypeInv, RowsInv, SettledInv, MarksInv, ~Vertical, NEW a \in Athletes
  PROVE  Shown(a)
<1> DEFINE s == RankingBasis[a]
<1>1. ShownMark(a) = results[a].mark
  BY SettledMarksShown DEF MarksShown
<1>2. ShownMark(a) = IF Valid(s) = {} THEN 0 ELSE Best(s)
  BY DEF ShownMark
<1>3. s \in Series
  BY BasisRankable DEF AllRankable, Rankable
<1>4. \A p \in Valid(s) : s[p].mark # 0
  <2>1. s = Reconciled(a)
    BY DEF RankingBasis
  <2>2. \/ s = NoSeries \/ s = trials[a]
        \/ results[a].mark # 0 /\ s = OneMark(results[a].mark)
    BY <2>1 DEF Reconciled
  <2>3. CASE s = NoSeries
    BY <2>3, NoSeriesTyped, ValidIsTaken
  <2>4. CASE s = trials[a]
    <3>1. \A p \in Places : MarkOK(trials[a][p])
      BY DEF MarksInv
    <3> HIDE DEF s
    <3> QED BY <2>4, <3>1 DEF MarkOK, Valid, PlacesOf
  <2>5. CASE results[a].mark # 0 /\ s = OneMark(results[a].mark)
    <3> HIDE DEF s
    <3> QED BY <2>5, OneMarkMarks
  <2> HIDE DEF s
  <2> QED BY <2>2, <2>3, <2>4, <2>5
<1> HIDE DEF s
<1>5. Valid(s) # {} => Best(s) # 0
  BY <1>3, <1>4, BestIsAMark
<1>6. Valid(s) # {} <=> results[a].mark # 0
  BY <1>1, <1>2, <1>5
<1> QED BY <1>1, <1>6 DEF Shown, s

LEMMA HeightsShown ==
  ASSUME TypeInv, RowsInv, SettledInv, Vertical, NEW a \in Athletes, results[a].by # "office"
  PROVE  /\ Shown(a) /\ RankingBasis[a] = trials[a]
         /\ Valid(trials[a]) # {} =>
              /\ BestIdx(trials[a]) \in Nat /\ BestIdx(trials[a]) + 1 \in DOMAIN heights.list
              /\ results[a].mark = heights.list[BestIdx(trials[a]) + 1]
<1> DEFINE s == trials[a]
           k == BestIdx(s)
<1>1. RankingBasis[a] = s
  BY DEF RankingBasis
<1>2. ShownMark(a) = IF Valid(s) = {} THEN 0
                     ELSE IF k < Len(heights.list) THEN heights.list[k + 1] ELSE 0
  BY <1>1 DEF ShownMark
<1>3. heights.list \in Seq(1..MaxMark) /\ MaxMark \in Nat
  BY FieldBoundsAssumption DEF TypeInv, FieldTypeOK
<1>4. CASE results[a].by = "nobody"
  <2>1. Valid(s) = {} /\ results[a].mark = 0
    BY <1>4, ValidIsTaken, NoResultFields DEF SettledInv, RowsInv, RowOK
  <2> QED BY <1>1, <1>2, <2>1 DEF Shown
<1>5. CASE results[a].by = "series"
  <2>1. /\ results[a].mark = IF Valid(s) = {} THEN 0 ELSE heights.list[k + 1]
        /\ Valid(s) # {} => k < Len(heights.list)
    <3>1. results[a] = Settled(s, heights.list) /\ (Valid(s) # {} => k < Len(heights.list))
      BY <1>5 DEF SettledInv
    <3>2. Settled(s, heights.list).mark = IF Valid(s) = {} THEN 0 ELSE heights.list[k + 1]
      BY DEF Settled
    <3> HIDE DEF s, k
    <3> QED BY <3>1, <3>2
  <2>2. Valid(s) # {} => k \in Nat
    <3>1. Valid(s) \subseteq HeightPlaces
      BY ValidIsTaken DEF TypeInv, PlacesInv
    <3>2. Valid(s) # {} => k \in HeightIdxs
      BY <3>1, BestIdxIsAHeight
    <3> QED BY <3>2, FieldBoundsAssumption DEF HeightIdxs
  <2> HIDE DEF k, s
  <2>3. Valid(s) # {} => k + 1 \in DOMAIN heights.list /\ heights.list[k + 1] \in 1..MaxMark
    <3> SUFFICES ASSUME Valid(s) # {}
                 PROVE  k + 1 \in DOMAIN heights.list /\ heights.list[k + 1] \in 1..MaxMark
      OBVIOUS
    <3>1. k + 1 \in 1..Len(heights.list)
      BY <1>3, <2>1, <2>2
    <3>2. PICK j \in 1..Len(heights.list) : j = k + 1
      BY <3>1
    <3>3. j \in DOMAIN heights.list /\ heights.list[j] \in 1..MaxMark
      BY <1>3
    <3> QED BY <3>2, <3>3
  <2>4. Valid(s) # {} => heights.list[k + 1] # 0
    BY <1>3, <2>3
  <2>5. ShownMark(a) = results[a].mark /\ (Valid(s) # {} <=> results[a].mark # 0)
    BY <1>2, <2>1, <2>4
  <2> QED BY <1>1, <2>1, <2>2, <2>3, <2>5 DEF Shown, s, k
<1>6. results[a].by \in {"nobody", "series"}
  BY DEF TypeInv, FieldTypeOK, ResultRows
<1> QED BY <1>4, <1>5, <1>6

\* The office sets up bar heights that never go down. The code takes any: with a
\* lower bar (a jump-off's) appended, whoever clears it gets the lower mark.
BarNeverGoesDown ==
  \A list \in Progressions : \A i, j \in DOMAIN list : i < j => list[i] <= list[j]

LEMMA StandingsSettled ==
  ASSUME BarNeverGoesDown, TypeInv, RowsInv, SettledInv, MarksInv, ListInv
  PROVE  StandingsShowResults
<1> DEFINE basis == RankingBasis
           rank == Ranks(RankingBasis)
           W == OrderOf(basis)
           ahead(a) == Cardinality(AheadOf(a, W, Athletes))
           reconciled == {a \in Athletes : Vertical => results[a].by # "office"}
<1>1. AllRankable(basis) /\ WeakOrder(W, Athletes)
  BY BasisRankable, SeriesOrder
<1>2. \A a \in Athletes : ahead(a) \in Nat
  BY AthletesAssumption, AheadIsFinite
<1>3. \A a \in Athletes : rank[a] = IF Valid(basis[a]) = {} THEN 0 ELSE 1 + ahead(a)
  BY <1>1, RanksCount DEF RankOf
<1>4. \A a, b \in Athletes : Ahead(basis[a], basis[b]) <=> ahead(a) < ahead(b)
  <2>1. \A a, b \in Athletes : <<a, b>> \in W <=> ahead(a) < ahead(b)
    <3> HIDE DEF W
    <3> QED BY <1>1, AthletesAssumption, FewerAhead
  <2> QED BY <2>1, OrderOfPairs
<1>5. \A a \in reconciled : Shown(a)
  BY DistancesShown, HeightsShown
<1>6. ASSUME NEW a \in reconciled, NEW b \in reconciled, Ahead(basis[a], basis[b]),
             Valid(basis[a]) # {}, Valid(basis[b]) # {}
      PROVE  results[a].mark >= results[b].mark
  <2>1. CASE ~Vertical
    <3>1. results[a].mark = Best(basis[a]) /\ results[b].mark = Best(basis[b])
      BY <1>5, <1>6, <2>1 DEF Shown, ShownMark
    <3>2. basis[a] \in Series /\ basis[b] \in Series
      BY <1>1 DEF AllRankable, Rankable
    <3>3. AheadOnMarks(basis[a], basis[b])
      BY <1>6, <2>1 DEF Ahead
    <3> HIDE DEF basis
    <3> QED BY <1>6, <3>1, <3>2, <3>3, AheadHasBest
  <2>2. CASE Vertical
    <3> DEFINE h == BestIdx(trials[a])
               k == BestIdx(trials[b])
    <3>1. /\ h \in Nat /\ h + 1 \in DOMAIN heights.list /\ results[a].mark = heights.list[h + 1]
          /\ k \in Nat /\ k + 1 \in DOMAIN heights.list /\ results[b].mark = heights.list[k + 1]
          /\ basis[a] = trials[a] /\ basis[b] = trials[b]
      BY <1>6, <2>2, HeightsShown
    <3>2. AheadOnHeights(trials[a], trials[b]) /\ Valid(trials[b]) # {}
      BY <1>6, <2>2, <3>1 DEF Ahead
    <3>3. h > k \/ h = k
      BY <3>2 DEF AheadOnHeights
    <3> HIDE DEF h, k
    <3>4. PICK i, j \in Nat : i = h + 1 /\ j = k + 1
      BY <3>1
    <3>5. heights.list \in Seq(1..MaxMark)
      BY DEF TypeInv, FieldTypeOK
    <3>6. heights.list[i] \in Int
      BY <3>1, <3>4, <3>5, FieldBoundsAssumption
    <3>7. CASE h = k
      BY <3>1, <3>4, <3>6, <3>7
    <3>8. CASE h > k
      <4>1. heights.list \in Progressions
        BY <3>1 DEF ListInv
      <4>2. j < i /\ i \in DOMAIN heights.list /\ j \in DOMAIN heights.list
        BY <3>1, <3>4, <3>8
      <4>3. heights.list[j] <= heights.list[i]
        BY <4>1, <4>2 DEF BarNeverGoesDown
      <4>4. heights.list[j] \in Int
        BY <4>2, <3>5, FieldBoundsAssumption
      <4> QED BY <3>1, <3>4, <3>6, <4>3, <4>4
    <3> QED BY <3>3, <3>7, <3>8
  <2> QED BY <2>1, <2>2
<1>7. ASSUME NEW a \in reconciled
      PROVE  /\ ShownMark(a) = results[a].mark
             /\ rank[a] > 0 <=> results[a].mark # 0
  <2>1. Shown(a) /\ a \in Athletes /\ ahead(a) \in Nat
    BY <1>2, <1>5
  <2>2. rank[a] > 0 <=> Valid(basis[a]) # {}
    <3> HIDE DEF rank, ahead, basis
    <3> QED BY <1>3, <2>1
  <2> QED BY <2>1, <2>2 DEF Shown
<1>8. ASSUME NEW a \in reconciled, NEW b \in reconciled, 0 < rank[a], rank[a] < rank[b]
      PROVE  results[a].mark >= results[b].mark
  <2>1. a \in Athletes /\ b \in Athletes /\ ahead(a) \in Nat /\ ahead(b) \in Nat
    BY <1>2
  <2>2. Valid(basis[a]) # {} /\ Valid(basis[b]) # {} /\ ahead(a) < ahead(b)
    <3> HIDE DEF rank, ahead, basis
    <3> QED BY <1>3, <1>8, <2>1
  <2>3. Ahead(basis[a], basis[b])
    BY <1>4, <2>1, <2>2
  <2> HIDE DEF rank, ahead, basis
  <2> QED BY <1>6, <2>2, <2>3
<1> HIDE DEF rank
<1> QED BY <1>7, <1>8 DEF StandingsShowResults, rank

\* Whatever was captured, corrected and extended, and in whichever order, the
\* standings show each athlete's result (of a vertical event, unless the office
\* corrected it), rank those with a mark, and nobody behind a worse mark
\* (fieldStandings, VerticalCapture). For heights that needs a bar that never
\* goes down.
THEOREM StandingsAreRight ==
  ASSUME OneFirstForm, BarNeverGoesDown
  PROVE  FieldSpec => []StandingsShowResults
<1> DEFINE Inv == TypeInv /\ FormsInv /\ ReadersInv /\ SettledInv /\ RowsInv /\ MarksInv /\ ListInv
<1>1. FieldInit => Inv
  BY TypeInit, FormsInit, SettledInit, RowsInit, MarksInit
<1>2. Inv /\ [FieldNext]_vars => Inv'
  BY TypeStep, FormsStep, ReadersStep, SettledStep, RowsStep, MarksStep, ListStep
<1>3. Inv => StandingsShowResults
  BY StandingsSettled
<1> QED BY <1>1, <1>2, <1>3, PTL DEF FieldSpec
=============================================================================
