------------------------------ MODULE HeatSheet ------------------------------
(***************************************************************************)
(* Check-in and the heat sheet of one round (app/checkin.go,               *)
(* app/seeding.go, domain/heatseeding.go, store/seeding.go). Check-in, or  *)
(* the previous round's progression, says who is in the pool; the office   *)
(* generates the sheet, again and again as the pool changes, and moves     *)
(* athletes by hand in between.                                            *)
(*                                                                         *)
(* A generation reads the pool, then the sheet, and writes in a            *)
(* transaction of its own: three steps here. An override reads and writes  *)
(* in one transaction, guarded by the version on the page it was made on.  *)
(* Marks are a fixed ranking without ties and the grouped lane tables a    *)
(* draw by lot.                                                            *)
(***************************************************************************)
EXTENDS Integers, FiniteSets

CONSTANTS
  Entries,         \* the event's entries
  Rank,            \* position of each entry's seed mark, 1 the best
  ClubMaps,        \* clubs the entries can have; a run picks one map
  NoClub,
  AtStart,         \* entries whose check-in is confirmed, or who advanced, at the start
  Offices,         \* requests that can be under way on the seeding page
  Requests,        \* heat size and lanes asked for; 0 when left empty
  MaxUnits,        \* units the round can get
  MaxGenerations,  \* bound on generations
  MaxOverrides,    \* bound on overrides
  MaxChanges       \* bound on changes of the pool

ASSUME RankAssumption ==
  /\ IsFiniteSet(Entries) /\ Entries # {}
  /\ Rank \in [Entries -> Nat]
  /\ \A e, d \in Entries : Rank[e] = Rank[d] => e = d
ASSUME AtStartAssumption == AtStart \subseteq Entries
ASSUME RequestsAssumption == Requests \subseteq [size : Nat, lanes : Nat] /\ Requests # {}
ASSUME HeatBoundsAssumption ==
  /\ MaxUnits \in Nat \ {0}
  /\ MaxGenerations \in Nat /\ MaxOverrides \in Nat /\ MaxChanges \in Nat

VARIABLES
  later,        \* the round is not the event's first
  clubOf,
  status,       \* first round: each entry's check-in
  closing,      \* entries a close of check-in has listed and not come to yet
  coded,        \* later rounds: entries the previous round has a code for
  rows,         \* unit_entries of the round: rows[u][e]
  unitCount,    \* units of the round
  gens,         \* each office's generation under way
  forms,        \* each office's override form
  generations,  \* generations begun
  overrides,    \* overrides made
  changes       \* changes of the pool

poolVars == <<status, closing, coded>>
sheetVars == <<rows, unitCount>>
vars == <<later, clubOf, poolVars, sheetVars, gens, forms, generations, overrides, changes>>

-----------------------------------------------------------------------------
Units == 1..MaxUnits
DefaultMaxHeatSize == 8

Row == [in : BOOLEAN, lane : Nat, manual : BOOLEAN, version : Nat]
NoRow == [in |-> FALSE, lane |-> 0, manual |-> FALSE, version |-> 0]
Sheet == [Units -> [Entries -> Row]]
EmptySheet == [u \in Units |-> [e \in Entries |-> NoRow]]

Generation ==
  [at : {"idle", "pooled", "read"}, request : Requests, pool : SUBSET Entries, rows : Sheet]

\* The version shown with the entry's row on the page the form is on.
Form == [open : BOOLEAN, entry : Entries, version : Nat]
NoForm == [open |-> FALSE, entry |-> CHOOSE e \in Entries : TRUE, version |-> 0]

HeatTypeOK ==
  /\ later \in BOOLEAN /\ clubOf \in ClubMaps
  /\ status \in [Entries -> {"entered", "confirmed", "dns"}]
  /\ closing \subseteq Entries /\ coded \subseteq Entries
  /\ rows \in Sheet
  /\ unitCount \in Units
  /\ \A u \in Units, e \in Entries : rows[u][e].in => u <= unitCount /\ rows[u][e].version > 0
  /\ gens \in [Offices -> Generation]
  /\ forms \in [Offices -> Form]
  /\ generations \in 0..MaxGenerations /\ overrides \in 0..MaxOverrides
  /\ changes \in 0..MaxChanges

-----------------------------------------------------------------------------
(* Ranking and distribution (domain/heatseeding.go). *)

\* RankCandidates: an entry's position among the candidates S, from 0.
Position(e, S) == Cardinality({d \in S : Rank[d] < Rank[e]})
EntryAt(i, S) == CHOOSE e \in S : Position(e, S) = i

ChooseHeatCount(n, size) == (n + size - 1) \div size

\* Positions to heats, back and forth.
Serpentine(n, heats) ==
  [i \in 0..(n - 1) |->
     1 + IF (i \div heats) % 2 = 0 THEN i % heats ELSE heats - 1 - (i % heats)]

Clubmates(i, j, S) ==
  /\ clubOf[EntryAt(i, S)] # NoClub
  /\ clubOf[EntryAt(i, S)] = clubOf[EntryAt(j, S)]

\* Mutant of WouldCollide: an exchange is made whoever is in the other heat.
WouldCollide_Never(i, heat, heatOf, S) == FALSE

WouldCollide(i, heat, heatOf, S) ==
  \E j \in DOMAIN heatOf : j # i /\ heatOf[j] = heat /\ Clubmates(i, j, S)

\* One round of separateClubs: i and its successor are clubmates in one heat,
\* and the successor changes places with the next in rank.
Exchange(heatOf, i, S) ==
  IF /\ i + 2 \in DOMAIN heatOf
     /\ heatOf[i] = heatOf[i + 1] /\ Clubmates(i, i + 1, S)
     /\ heatOf[i + 2] # heatOf[i + 1]
     /\ ~WouldCollide(i + 1, heatOf[i + 2], heatOf, S)
     /\ ~WouldCollide(i + 2, heatOf[i + 1], heatOf, S)
  THEN [heatOf EXCEPT ![i + 1] = heatOf[i + 2], ![i + 2] = heatOf[i + 1]]
  ELSE heatOf

\* separateClubs: the heats of the positions after each of its rounds.
Separated(S, heats) ==
  LET after[k \in 0..Cardinality(S)] ==
        IF k = 0 THEN Serpentine(Cardinality(S), heats) ELSE Exchange(after[k - 1], k - 1, S)
  IN  after

\* SeedHeats: the heat of each candidate.
SeedHeats(S, heats) ==
  LET separated == Separated(S, heats)[Cardinality(S)]
  IN  [e \in S |-> separated[Position(e, S)]]

-----------------------------------------------------------------------------
(* Who is in the pool. *)

Pool == IF later THEN coded ELSE {e \in Entries : status[e] = "confirmed"}

PoolChange == changes < MaxChanges /\ changes' = changes + 1
SetStatus(e, to) == status' = [status EXCEPT ![e] = to]

Confirm(e) ==
  /\ ~later /\ status[e] = "entered"
  /\ SetStatus(e, "confirmed")
  /\ PoolChange
  /\ UNCHANGED <<later, clubOf, closing, coded, sheetVars, gens, forms, generations, overrides>>

Reinstate(e) ==
  /\ ~later /\ status[e] = "dns"
  /\ SetStatus(e, "confirmed")
  /\ PoolChange
  /\ UNCHANGED <<later, clubOf, closing, coded, sheetVars, gens, forms, generations, overrides>>

\* CloseCheckIn lists the entries ...
CloseList ==
  /\ ~later /\ closing = {}
  /\ closing' = {e \in Entries : status[e] = "entered"}
  /\ UNCHANGED <<later, clubOf, status, coded, sheetVars, gens, forms, generations, overrides, changes>>

\* The entry has the version it was listed with.
Unmoved(e) == status[e] = "entered"

\* ... and marks them one by one. A conflict ends it.
CloseMark(e) ==
  /\ e \in closing
  /\ IF Unmoved(e)
     THEN SetStatus(e, "dns") /\ closing' = closing \ {e}
     ELSE closing' = {} /\ UNCHANGED status
  /\ UNCHANGED <<later, clubOf, coded, sheetVars, gens, forms, generations, overrides, changes>>

\* AdvanceRound or ManualAdvance on the previous round ...
Advance(e) ==
  /\ later /\ e \notin coded
  /\ coded' = coded \union {e}
  /\ PoolChange
  /\ UNCHANGED <<later, clubOf, status, closing, sheetVars, gens, forms, generations, overrides>>

\* ... whose codes go when it is generated again.
CodesWiped ==
  /\ later
  /\ \E some \in SUBSET coded : some # coded /\ coded' = some
  /\ PoolChange
  /\ UNCHANGED <<later, clubOf, status, closing, sheetVars, gens, forms, generations, overrides>>

-----------------------------------------------------------------------------
(* GenerateHeats. *)

NoGeneration ==
  [at |-> "idle", request |-> CHOOSE r \in Requests : TRUE, pool |-> {}, rows |-> EmptySheet]

HeatSize(r) ==
  IF r.size > 0 THEN r.size ELSE IF r.lanes > 0 THEN r.lanes ELSE DefaultMaxHeatSize

ReadPool(o, r) ==
  /\ gens[o].at = "idle" /\ generations < MaxGenerations
  /\ Pool # {}
  /\ ChooseHeatCount(Cardinality(Pool), HeatSize(r)) <= MaxUnits
  /\ gens' = [gens EXCEPT ![o] = [NoGeneration EXCEPT !.at = "pooled", !.request = r, !.pool = Pool]]
  /\ generations' = generations + 1
  /\ UNCHANGED <<later, clubOf, poolVars, sheetVars, forms, overrides, changes>>

ReadRows(o) ==
  /\ gens[o].at = "pooled"
  /\ gens' = [gens EXCEPT ![o].at = "read", ![o].rows = rows]
  /\ UNCHANGED <<later, clubOf, poolVars, sheetVars, forms, generations, overrides, changes>>

HeatCount(g) == ChooseHeatCount(Cardinality(g.pool), HeatSize(g.request))
Overridden(g, u) == {e \in Entries : g.rows[u][e].manual}

\* lockedUnit and lockedLane have one override per entry, in its last unit.
Locked(g, u) == {e \in Overridden(g, u) : \A w \in Units : w > u => e \notin Overridden(g, w)}
UsedLanes(g, u) == {g.rows[u][e].lane : e \in Locked(g, u)} \ {0}

\* Mutant of Free: overrides are seeded like everybody else.
Free_All(g) == g.pool

\* freePool
Free(g) == {e \in g.pool : \A u \in Units : ~g.rows[u][e].manual}
Heat(g, heatOf, u) == {e \in Free(g) : heatOf[e] = u}

\* Lane draws: each heat's entries get different lanes nobody locked there has.
Draws(g, heatOf) ==
  IF g.request.lanes = 0 THEN {[e \in Free(g) |-> 0]}
  ELSE {d \in [Free(g) -> 1..g.request.lanes] :
          /\ \A e \in Free(g) : d[e] \notin UsedLanes(g, heatOf[e])
          /\ \A e, f \in Free(g) : e # f /\ heatOf[e] = heatOf[f] => d[e] # d[f]}

\* SaveUnitAssignment: inserted, or replaced and the version moved on.
Saved(row, lane, manual) ==
  [in |-> TRUE, lane |-> lane, manual |-> manual, version |-> row.version + 1]

\* Mutant of Cleared: the lanes drawn before stay until they are overwritten.
Cleared_Not(g, u, e) ==
  IF g.rows[u][e].in /\ e \notin g.pool THEN NoRow ELSE rows[u][e]

\* Mutant of Cleared: who left the pool stays when placed by hand.
Cleared_KeepsOverrides(g, u, e) ==
  IF g.rows[u][e].in /\ e \notin g.pool /\ ~g.rows[u][e].manual THEN NoRow
  ELSE IF ~g.rows[u][e].manual /\ e \in g.pool /\ g.rows[u][e].lane # 0
  THEN Saved(rows[u][e], 0, FALSE)
  ELSE rows[u][e]

\* The row once those who left the pool are deleted and the lanes drawn before
\* are cleared. Both go by the sheet as it was read.
Cleared(g, u, e) ==
  IF g.rows[u][e].in /\ e \notin g.pool THEN NoRow
  ELSE IF ~g.rows[u][e].manual /\ e \in g.pool /\ g.rows[u][e].lane # 0
  THEN Saved(rows[u][e], 0, FALSE)
  ELSE rows[u][e]

\* The unique index on unit and lane, checked as each row is saved: another row
\* has the lane and is not among those saved before.
Collides(g, heatOf, draw) ==
  \E e \in Free(g), d \in Entries :
    LET u == heatOf[e]
    IN  /\ d # e /\ draw[e] # 0
        /\ Cleared(g, u, d).lane = draw[e]
        /\ ~(d \in Heat(g, heatOf, u) /\ Rank[d] < Rank[e])

Generated(g, heatOf, draw) ==
  [u \in Units |-> [e \in Entries |->
     IF e \in Free(g) /\ heatOf[e] = u
     THEN Saved(Cleared(g, u, e), draw[e], FALSE)
     ELSE Cleared(g, u, e)]]

\* Mutant of UnitsAfter: the round gets no new units.
UnitsAfter_Same(g) == unitCount

\* EnsureRoundUnitCount adds units and takes none away.
UnitsAfter(g) == IF unitCount < HeatCount(g) THEN HeatCount(g) ELSE unitCount

\* The transaction: units as needed, then everybody's rows.
GenCommit(o) ==
  LET g == gens[o]
      heatOf == SeedHeats(Free(g), HeatCount(g))
  IN  /\ g.at = "read"
      /\ gens' = [gens EXCEPT ![o] = NoGeneration]
      /\ unitCount' = UnitsAfter(g)
      /\ UNCHANGED <<later, clubOf, poolVars, forms, generations, overrides, changes>>
      /\ \E draw \in Draws(g, heatOf) :
           ~Collides(g, heatOf, draw) /\ rows' = Generated(g, heatOf, draw)

\* A heat with more entries than lanes left, a lane that is taken, a lost request.
GenFails(o) ==
  /\ gens[o].at # "idle"
  /\ gens' = [gens EXCEPT ![o] = NoGeneration]
  /\ UNCHANGED <<later, clubOf, poolVars, sheetVars, forms, generations, overrides, changes>>

-----------------------------------------------------------------------------
(* OverrideAssignment. *)

OpenForm(o, e) ==
  /\ ~forms[o].open /\ overrides < MaxOverrides
  /\ \E u \in Units :
       /\ rows[u][e].in
       /\ forms' = [forms EXCEPT ![o] = [open |-> TRUE, entry |-> e, version |-> rows[u][e].version]]
  /\ UNCHANGED <<later, clubOf, poolVars, sheetVars, gens, generations, overrides, changes>>

Seated(e) == \E u \in Units : rows[u][e].in

\* The entry's row that the list of the round has first.
FirstUnit(e) == CHOOSE u \in Units : rows[u][e].in /\ \A w \in 1..(u - 1) : ~rows[w][e].in
FirstRow(e) == IF Seated(e) THEN rows[FirstUnit(e)][e] ELSE NoRow

Occupants(e, u, lane) == {d \in Entries \ {e} : lane # 0 /\ rows[u][d].lane = lane}

\* The version on the page is the row's. A first placement compares none.
SameVersion(o) == Seated(forms[o].entry) => FirstRow(forms[o].entry).version = forms[o].version

\* Whoever has the lane in the unit gets the lane the entry had, in their unit.
SwapAllowed(e, u, lane) ==
  \A d \in Occupants(e, u, lane) :
    LET prev == FirstRow(e).lane
    IN  prev = 0 \/ \A f \in Entries \ {d, e} : rows[u][f].lane # prev

MoveAllowed(e, u) == Seated(e) /\ FirstUnit(e) # u => ~rows[u][e].in

Moved(o, u, lane) ==
  LET e == forms[o].entry
      swap == Occupants(e, u, lane)
      own == [in |-> TRUE, lane |-> lane, manual |-> TRUE,
              version |-> FirstRow(e).version + IF swap # {} /\ Seated(e) THEN 2 ELSE 1]
  IN  [w \in Units |-> [d \in Entries |->
         IF d = e /\ w = u THEN own
         ELSE IF d = e /\ Seated(e) /\ w = FirstUnit(e) THEN NoRow
         ELSE IF w = u /\ d \in swap THEN Saved(rows[w][d], FirstRow(e).lane, TRUE)
         ELSE rows[w][d]]]

Override(o, u, lane) ==
  LET e == forms[o].entry
  IN  /\ forms[o].open /\ overrides < MaxOverrides
      /\ u <= unitCount
      /\ SameVersion(o) /\ SwapAllowed(e, u, lane) /\ MoveAllowed(e, u)
      /\ rows' = Moved(o, u, lane)
      /\ forms' = [forms EXCEPT ![o] = NoForm]
      /\ overrides' = overrides + 1
      /\ UNCHANGED <<later, clubOf, poolVars, unitCount, gens, generations, changes>>

\* The page is closed, or what it asks for refused.
DropForm(o) ==
  /\ forms[o].open
  /\ forms' = [forms EXCEPT ![o] = NoForm]
  /\ UNCHANGED <<later, clubOf, poolVars, sheetVars, gens, generations, overrides, changes>>

-----------------------------------------------------------------------------
HeatInit ==
  /\ later \in BOOLEAN /\ clubOf \in ClubMaps
  /\ status = [e \in Entries |-> IF ~later /\ e \in AtStart THEN "confirmed" ELSE "entered"]
  /\ closing = {}
  /\ coded = IF later THEN AtStart ELSE {}
  /\ rows = EmptySheet /\ unitCount = 1
  /\ gens = [o \in Offices |-> NoGeneration]
  /\ forms = [o \in Offices |-> NoForm]
  /\ generations = 0 /\ overrides = 0 /\ changes = 0

PoolStep ==
  \/ \E e \in Entries : Confirm(e) \/ Reinstate(e) \/ CloseMark(e) \/ Advance(e)
  \/ CloseList \/ CodesWiped

GenStep(o) ==
  (\E r \in Requests : ReadPool(o, r)) \/ ReadRows(o) \/ GenCommit(o) \/ GenFails(o)

Lanes == {0} \union UNION {1..r.lanes : r \in Requests}
FormStep(o) ==
  \/ \E e \in Entries : OpenForm(o, e)
  \/ \E u \in Units, lane \in Lanes : Override(o, u, lane)
  \/ DropForm(o)

HeatNext == PoolStep \/ \E o \in Offices : GenStep(o) \/ FormStep(o)

HeatSpec == HeatInit /\ [][HeatNext]_vars

-----------------------------------------------------------------------------
(* Properties. *)

\* The office's generation has written the sheet in this step.
Committed(o) == gens[o].at = "read" /\ gens'[o].at = "idle" /\ rows' # rows

\* A generation leaves what it read as an override where it was put, unit and
\* lane, however often it was moved on since, and as long as the athlete is in
\* the pool (GenerateHeats' lockedUnit).
OverridesStand ==
  [][\A o \in Offices : Committed(o) =>
       \A u \in Units, e \in gens[o].pool :
         gens[o].rows[u][e].manual => rows'[u][e] = rows[u][e]]_vars

\* The sheet is the one the generation read.
Quiet(o) == gens[o].rows = rows

\* A generation that nothing overtook seats exactly its pool: it leaves nobody
\* out and keeps nobody who scratched, override or not.
SeatsThePool ==
  [][\A o \in Offices : Committed(o) /\ Quiet(o) =>
       {e \in Entries : \E u \in Units : rows'[u][e].in} = gens[o].pool]_vars

\* An entry can be an override twice once it has two rows.
TwiceOverridden(g) ==
  \E e \in Entries, u, w \in Units : u # w /\ g.rows[u][e].manual /\ g.rows[w][e].manual

\* A reshuffle of lanes that nothing overtook never trips over a lane it is
\* about to give away (the comment in GenerateHeats on clearing lanes first).
ReshuffleNeverCollides ==
  \A o \in Offices :
    LET g == gens[o]
        heatOf == SeedHeats(Free(g), HeatCount(g))
    IN  g.at = "read" /\ Quiet(o) /\ ~TwiceOverridden(g)
        => \A draw \in Draws(g, heatOf) : ~Collides(g, heatOf, draw)

\* Without overrides the heats a generation gives out are as wide as asked for
\* and even, the best seeds are apart, and clubmates meet only where the plain
\* serpentine has them meet (SeedHeats, separateClubs).
HeatsAreFair ==
  \A o \in Offices :
    LET g == gens[o]
        S == Free(g)
        n == Cardinality(S)
        heats == HeatCount(g)
        heatOf == SeedHeats(S, heats)
        plain == Serpentine(n, heats)
    IN  g.at = "read" /\ Free(g) = g.pool =>
        /\ \A u \in 1..heats :
             /\ Cardinality(Heat(g, heatOf, u)) <= HeatSize(g.request)
             /\ \A w \in 1..heats :
                  Cardinality(Heat(g, heatOf, u)) <= Cardinality(Heat(g, heatOf, w)) + 1
        /\ \A e, d \in S :
             /\ e # d /\ Position(e, S) < heats /\ Position(d, S) < heats => heatOf[e] # heatOf[d]
             /\ e # d /\ heatOf[e] = heatOf[d] /\ clubOf[e] # NoClub /\ clubOf[e] = clubOf[d]
                => plain[Position(e, S)] = plain[Position(d, S)]

\* False: a unit the new sheet does not need holds overrides only. Rows in a
\* heat an athlete has left stay.
ExtraUnitsAreEmpty ==
  [][\A o \in Offices : Committed(o) /\ Quiet(o) =>
       \A u \in Units, e \in Entries :
         rows'[u][e].in /\ u > HeatCount(gens[o]) => rows'[u][e].manual]_vars

\* False: an athlete has one seat.
SeatedOnce ==
  \A e \in Entries, u, w \in Units : rows[u][e].in /\ rows[w][e].in => u = w

\* False: no generation undoes an override.
OverridesAreKept ==
  [][\A o \in Offices : Committed(o) =>
       \A u \in Units, e \in gens[o].pool : rows[u][e].manual => rows'[u][e].manual]_vars
=============================================================================
