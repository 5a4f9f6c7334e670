---------------------------- MODULE LivePage_proofs ----------------------------
(* Proofs about LivePage. *)
EXTENDS LivePage, TLAPS

(* The inductive invariant, in one part per component of the state. *)

WritesInv ==
  /\ db \in Contents /\ announced \in 0..db /\ published \in 0..announced
  /\ timetables \in 0..MaxTimetables
  /\ writers \in [Writers -> {"idle", "committed", "emptied"}]

\* A kept entry, and the result of a build, that nothing overtook shows all that
\* the cache has been told of.
EntriesInv ==
  /\ entries \in [Locales -> Entries]
  /\ \A l \in Locales : entries[l].kept /\ ~entries[l].overtaken => entries[l].content >= announced

FlightsInv ==
  /\ flights \in [Locales -> Flights]
  /\ \A l \in Locales : HasRead(l) /\ ~flights[l].overtaken => flights[l].content >= announced

\* The event a request is made for has been announced.
CallsInv ==
  /\ calls \in [Calls -> CallStates]
  /\ \A c \in Calls :
       /\ calls[c].since <= announced
       /\ calls[c].at = "answered" /\ ~calls[c].overtaken => calls[c].content >= calls[c].since

\* The newest "results" event has only timetable events behind it.
NewestAt(sub, k) ==
  /\ sub.pending[k] = [name |-> "results", version |-> published]
  /\ Len(sub.pending) - k <= timetables

\* "results" events are pending in the order of their versions, all of them at
\* least what the viewer has got.
InOrder(sub) ==
  \A i \in 1..Len(sub.pending) : sub.pending[i].name = "results" =>
    /\ sub.heard <= sub.pending[i].version
    /\ \A j \in i..Len(sub.pending) :
         sub.pending[j].name = "results" => sub.pending[i].version <= sub.pending[j].version

SubsInv ==
  /\ subs \in [Viewers -> Subs]
  /\ \A v \in Viewers :
       /\ Len(subs[v].pending) <= Buffer
       /\ subs[v].heard <= published /\ InOrder(subs[v])
       /\ \A i \in 1..Len(subs[v].pending) : subs[v].pending[i].version <= published
       /\ subs[v].open /\ timetables < Buffer =>
            \/ subs[v].heard = published
            \/ \E k \in 1..Len(subs[v].pending) : NewestAt(subs[v], k)

ShowsInv == shows \in [Viewers -> Contents \union {Closed}]

LiveInv == WritesInv /\ EntriesInv /\ FlightsInv /\ CallsInv /\ SubsInv /\ ShowsInv

-----------------------------------------------------------------------------
(* A part whose variables a step leaves alone. *)

LEMMA SameWrites == ASSUME WritesInv, UNCHANGED writes PROVE WritesInv'
BY DEF WritesInv, writes

LEMMA SameEntries == ASSUME EntriesInv, UNCHANGED <<entries, announced>> PROVE EntriesInv'
BY DEF EntriesInv

LEMMA SameFlights == ASSUME FlightsInv, UNCHANGED <<flights, announced>> PROVE FlightsInv'
BY DEF FlightsInv, HasRead

LEMMA SameCalls == ASSUME CallsInv, UNCHANGED <<calls, announced>> PROVE CallsInv'
BY DEF CallsInv

LEMMA SameSubs ==
  ASSUME SubsInv, UNCHANGED <<subs, published, timetables>> PROVE SubsInv'
BY DEF SubsInv, NewestAt, InOrder

LEMMA SameShows == ASSUME ShowsInv, UNCHANGED shows PROVE ShowsInv'
BY DEF ShowsInv

-----------------------------------------------------------------------------
LEMMA NothingIsTyped ==
  /\ NoEntry \in Entries /\ ~NoEntry.kept
  /\ NoFlight \in Flights /\ NoFlight.at = "none"
  /\ IdleCall \in CallStates /\ IdleCall.at = "idle" /\ IdleCall.since = 0
  /\ NoSub \in Subs /\ ~NoSub.open /\ Len(NoSub.pending) = 0 /\ NoSub.heard = 0
<1>1. 0 \in Contents /\ (CHOOSE v \in Viewers : TRUE) \in Viewers
  BY ViewersAssumption, LiveBoundsAssumption DEF Contents
<1> QED
  BY <1>1 DEF NoEntry, Entries, NoFlight, Flights, FlightStates, IdleCall, CallStates,
              CallSteps, NoSub, Subs

\* Publish into one channel: the event is the last one, what was there keeps its
\* order, and only the oldest event of a full channel goes.
LEMMA PushedIsLast ==
  ASSUME NEW p \in Seq(Events), Len(p) <= Buffer, NEW ev \in Events
  PROVE  \E gone \in {0, 1} :
           /\ gone = 1 <=> Len(p) = Buffer
           /\ Pushed(p, ev) \in Seq(Events)
           /\ Len(Pushed(p, ev)) = Len(p) + 1 - gone
           /\ Pushed(p, ev)[Len(p) + 1 - gone] = ev
           /\ \A i \in 1..(Len(p) - gone) : Pushed(p, ev)[i] = p[i + gone]
<1>1. CASE Len(p) < Buffer
  <2>1. Pushed(p, ev) = Append(p, ev)
    BY <1>1 DEF Pushed
  <2>2. /\ Append(p, ev) \in Seq(Events) /\ Len(Append(p, ev)) = Len(p) + 1
        /\ Append(p, ev)[Len(p) + 1] = ev
        /\ \A i \in 1..Len(p) : Append(p, ev)[i] = p[i]
    OBVIOUS
  <2>3. Len(p) + 1 - 0 = Len(p) + 1 /\ Len(p) - 0 = Len(p) /\ \A i \in 1..Len(p) : i + 0 = i
    OBVIOUS
  <2>4. /\ Pushed(p, ev) \in Seq(Events)
        /\ Len(Pushed(p, ev)) = Len(p) + 1 - 0
        /\ Pushed(p, ev)[Len(p) + 1 - 0] = ev
        /\ \A i \in 1..(Len(p) - 0) : Pushed(p, ev)[i] = p[i + 0]
    BY <2>1, <2>2, <2>3
  <2> QED
    BY <1>1, <2>4
<1>2. CASE Len(p) = Buffer
  <2> DEFINE t == Tail(p)
  <2>1. Pushed(p, ev) = Append(t, ev) /\ p # <<>>
    BY <1>2, BufferAssumption DEF Pushed
  <2>2. t \in Seq(Events) /\ Len(t) = Len(p) - 1 /\ \A i \in 1..(Len(p) - 1) : t[i] = p[i + 1]
    BY <2>1
  <2> HIDE DEF t
  <2>3. /\ Append(t, ev) \in Seq(Events) /\ Len(Append(t, ev)) = Len(t) + 1
        /\ Append(t, ev)[Len(t) + 1] = ev
        /\ \A i \in 1..Len(t) : Append(t, ev)[i] = t[i]
    BY <2>2
  <2>4. Len(p) + 1 - 1 = Len(t) + 1
    BY <2>2
  <2>5. /\ Pushed(p, ev) \in Seq(Events)
        /\ Len(Pushed(p, ev)) = Len(p) + 1 - 1
        /\ Pushed(p, ev)[Len(p) + 1 - 1] = ev
        /\ \A i \in 1..(Len(p) - 1) : Pushed(p, ev)[i] = p[i + 1]
    BY <2>1, <2>2, <2>3, <2>4
  <2> QED
    BY <1>2, <2>5
<1> QED
  BY <1>1, <1>2, BufferAssumption

\* What a request is answered with.
LEMMA ServedIsTyped ==
  ASSUME NEW call \in CallStates, NEW page, page.content \in Contents, page.overtaken \in BOOLEAN
  PROVE  /\ Served(call, page) \in CallStates
         /\ Served(call, page).since = call.since
         /\ Served(call, page).content = page.content
         /\ Served(call, page).overtaken = page.overtaken
BY DEF Served, CallStates, CallSteps

LEMMA InitKeeps == LiveInit => LiveInv
<1> SUFFICES ASSUME LiveInit PROVE LiveInv
  OBVIOUS
<1> USE DEF LiveInit
<1>1. 0 \in Contents
  BY LiveBoundsAssumption DEF Contents
<1>2. WritesInv /\ ShowsInv
  BY <1>1, LiveBoundsAssumption DEF WritesInv, ShowsInv
<1>3. EntriesInv /\ FlightsInv
  BY NothingIsTyped DEF EntriesInv, FlightsInv, HasRead
<1>4. CallsInv /\ SubsInv
  BY NothingIsTyped, BufferAssumption DEF CallsInv, SubsInv, InOrder
<1> QED
  BY <1>2, <1>3, <1>4 DEF LiveInv

-----------------------------------------------------------------------------
(* The writers. *)

LEMMA CommitKeeps ==
  ASSUME LiveInv, (\E w \in Writers : Commit(w)) \/ CommitUnhooked
  PROVE  LiveInv'
<1> USE DEF LiveInv
<1>1. /\ UNCHANGED <<announced, published, timetables, entries, flights, calls, subs, shows>>
      /\ db < MaxWrites /\ db' = db + 1
      /\ writers' = writers \/ \E w \in Writers : writers' = [writers EXCEPT ![w] = "committed"]
  BY DEF Commit, CommitUnhooked
<1>2. WritesInv'
  BY <1>1, LiveBoundsAssumption DEF WritesInv, Contents
<1> QED
  BY <1>1, <1>2, SameEntries, SameFlights, SameCalls, SameSubs, SameShows

LEMMA InvalidateKeeps ==
  ASSUME LiveInv, NEW w \in Writers, Invalidate(w)
  PROVE  LiveInv'
<1> USE DEF LiveInv, Invalidate
<1>1. announced \in 0..db /\ db \in Nat
  BY LiveBoundsAssumption DEF WritesInv, Contents
<1>2. WritesInv'
  BY <1>1 DEF WritesInv
<1>3. EntriesInv'
  BY NothingIsTyped DEF EntriesInv, Emptied
<1>4. FlightsInv'
  <2>1. flights' \in [Locales -> Flights]
    BY DEF FlightsInv, Flights
  <2>2. \A l \in Locales : HasRead(l)' => flights'[l].overtaken
    BY DEF FlightsInv, Flights, HasRead
  <2> QED
    BY <2>1, <2>2 DEF FlightsInv
<1>5. CallsInv'
  BY <1>1, LiveBoundsAssumption DEF CallsInv, CallStates, Contents
<1> QED
  BY <1>2, <1>3, <1>4, <1>5, SameSubs, SameShows

\* An event in every open channel: a "results" event is the newest, a "timetable"
\* event pushes the newest one place.
LEMMA PublishKeeps ==
  ASSUME SubsInv, NEW ev \in Events, Publish(ev),
         published \in Nat, timetables \in Nat,
         \/ /\ ev = [name |-> "results", version |-> published']
            /\ published' \in Nat /\ published <= published' /\ timetables' = timetables
         \/ /\ ev = [name |-> "timetable", version |-> 0]
            /\ published' = published /\ timetables' = timetables + 1
  PROVE  SubsInv'
<1>1. ASSUME NEW v \in Viewers
      PROVE  /\ subs'[v] \in Subs
             /\ Len(subs'[v].pending) <= Buffer
             /\ subs'[v].heard <= published' /\ InOrder(subs'[v])
             /\ \A i \in 1..Len(subs'[v].pending) : subs'[v].pending[i].version <= published'
             /\ subs'[v].open /\ timetables' < Buffer =>
                  \/ subs'[v].heard = published'
                  \/ \E k \in 1..Len(subs'[v].pending) : NewestAt(subs[v], k)'
  <2> DEFINE p == subs[v].pending
             q == Pushed(p, ev)
             heard == subs[v].heard
  <2>1. /\ p \in Seq(Events) /\ Len(p) <= Buffer /\ subs[v] \in Subs /\ heard \in Contents
        /\ \A i \in 1..Len(p) : p[i].version <= published
    BY DEF SubsInv, Subs
  <2>2. PICK gone \in {0, 1} :
          /\ gone = 1 <=> Len(p) = Buffer
          /\ q \in Seq(Events)
          /\ Len(q) = Len(p) + 1 - gone
          /\ q[Len(p) + 1 - gone] = ev
          /\ \A i \in 1..(Len(p) - gone) : q[i] = p[i + gone]
    BY <2>1, PushedIsLast
  <2>3. subs'[v] = IF subs[v].open THEN [subs[v] EXCEPT !.pending = q] ELSE subs[v]
    BY DEF Publish
  <2>4. /\ \A i \in 1..Len(p) : p[i].name = "results" =>
             /\ heard <= p[i].version
             /\ \A j \in i..Len(p) : p[j].name = "results" => p[i].version <= p[j].version
        /\ subs[v].open /\ timetables < Buffer =>
             \/ heard = published
             \/ \E k \in 1..Len(p) :
                  /\ p[k] = [name |-> "results", version |-> published]
                  /\ Len(p) - k <= timetables
    BY DEF SubsInv, InOrder, NewestAt
  <2>5. /\ \A i \in 1..Len(p) : p[i].version \in Nat
        /\ ev.version \in Nat /\ heard \in Nat /\ published' \in Nat
    <3>1. \A i \in 1..Len(p) : p[i] \in Events
      BY <2>1
    <3> QED
      BY <2>1, <3>1, LiveBoundsAssumption DEF Events, Contents
  <2>6. ev.version <= published' /\ published <= published'
        /\ (ev.name = "results" => ev.version = published')
    OBVIOUS
  <2>7. /\ subs[v].open => subs'[v] \in Subs /\ subs'[v].pending = q /\ subs'[v].heard = heard
        /\ ~subs[v].open => subs'[v] = subs[v]
        /\ subs'[v].open = subs[v].open
    BY <2>1, <2>2, <2>3 DEF Subs
  <2> HIDE DEF p, q, heard
  <2>8. \A i \in 1..Len(q) :
          \/ i = Len(q) /\ q[i] = ev
          \/ i + gone \in 1..Len(p) /\ i \in 1..(Len(p) - gone) /\ q[i] = p[i + gone]
    <3> SUFFICES ASSUME NEW i \in 1..Len(q), ~(i = Len(q) /\ q[i] = ev)
                 PROVE  i + gone \in 1..Len(p) /\ i \in 1..(Len(p) - gone)
                        /\ q[i] = p[i + gone]
      OBVIOUS
    <3>1. Len(p) \in Nat /\ gone \in {0, 1}
      BY <2>1
    <3>2. Len(q) = Len(p) + 1 - gone /\ q[Len(q)] = ev
      BY <2>2
    <3>3. i /= Len(q)
      BY <3>2
    <3>4. i + gone \in 1..Len(p) /\ i \in 1..(Len(p) - gone)
      BY <3>1, <3>2, <3>3
    <3> QED
      BY <2>2, <3>4
  <2>9. Len(q) \in 1..Buffer
    <3>1. Len(p) \in Nat /\ Len(q) \in Nat
      BY <2>1, <2>2
    <3> QED
      BY <2>1, <2>2, <3>1, BufferAssumption
  <2>10. \A i \in 1..Len(q) : q[i].version <= published'
    <3> SUFFICES ASSUME NEW i \in 1..Len(q) PROVE q[i].version <= published'
      OBVIOUS
    <3>1. CASE i = Len(q) /\ q[i] = ev
      BY <2>6, <3>1
    <3>2. CASE i + gone \in 1..Len(p) /\ q[i] = p[i + gone]
      <4>1. p[i + gone].version <= published /\ p[i + gone].version \in Nat
        BY <2>1, <2>5, <3>2
      <4> QED
        BY <2>5, <2>6, <3>2, <4>1
    <3> QED
      BY <2>8, <3>1, <3>2
  <2>11. \A i \in 1..Len(q) : q[i].name = "results" =>
           /\ heard <= q[i].version
           /\ \A j \in i..Len(q) : q[j].name = "results" => q[i].version <= q[j].version
    <3>1. heard <= published
      BY DEF SubsInv, heard
    <3> SUFFICES ASSUME NEW i \in 1..Len(q), q[i].name = "results"
                 PROVE  /\ heard <= q[i].version
                        /\ \A j \in i..Len(q) :
                             q[j].name = "results" => q[i].version <= q[j].version
      OBVIOUS
    <3>2. CASE i = Len(q) /\ q[i] = ev
      <4>1. \A j \in i..Len(q) : j = i
        BY <2>9, <3>2
      <4> QED
        BY <2>5, <2>6, <3>1, <3>2, <4>1
    <3>3. CASE i + gone \in 1..Len(p) /\ q[i] = p[i + gone]
      <4>1. heard <= p[i + gone].version /\ p[i + gone].version <= published
        BY <2>1, <2>4, <3>3
      <4>2. ASSUME NEW j \in i..Len(q), q[j].name = "results"
            PROVE  p[i + gone].version <= q[j].version
        <5>1. j \in 1..Len(q)
          BY <2>9
        <5>2. CASE q[j] = ev
          BY <2>5, <2>6, <3>3, <4>1, <4>2, <5>2
        <5>3. CASE j + gone \in 1..Len(p) /\ q[j] = p[j + gone]
          <6>1. j + gone \in (i + gone)..Len(p)
            BY <2>9, <5>3
          <6> QED
            BY <2>4, <3>3, <4>2, <5>3, <6>1
        <5> QED
          BY <2>8, <5>1, <5>2, <5>3
      <4> QED
        BY <3>3, <4>1, <4>2
    <3> QED
      BY <2>8, <3>2, <3>3
  <2>12. timetables' < Buffer /\ subs[v].open =>
           \/ heard = published'
           \/ \E k \in 1..Len(q) :
                /\ q[k] = [name |-> "results", version |-> published']
                /\ Len(q) - k <= timetables'
    <3>1. CASE ev = [name |-> "results", version |-> published']
      <4>1. Len(q) \in 1..Len(q) /\ q[Len(q)] = ev /\ Len(q) - Len(q) = 0
        BY <2>2, <2>9
      <4> QED
        BY <3>1, <4>1
    <3>2. CASE published' = published /\ timetables' = timetables + 1
      <4> SUFFICES ASSUME timetables + 1 < Buffer, subs[v].open, heard # published
                   PROVE  \E k \in 1..Len(q) :
                            /\ q[k] = [name |-> "results", version |-> published]
                            /\ Len(q) - k <= timetables + 1
        BY <3>2
      <4>1. PICK k \in 1..Len(p) :
              /\ p[k] = [name |-> "results", version |-> published]
              /\ Len(p) - k <= timetables
        BY <2>4, BufferAssumption
      <4>2. k - gone \in 1..(Len(p) - gone) /\ (k - gone) + gone = k
        <5>1. gone = 1 => k # 1
          BY <2>2, <4>1, BufferAssumption
        <5> QED
          BY <5>1
      <4>3. q[k - gone] = p[k] /\ k - gone \in 1..Len(q) /\ Len(q) - (k - gone) <= timetables + 1
        BY <2>2, <4>1, <4>2
      <4> QED
        BY <4>1, <4>3
    <3> QED
      BY <3>1, <3>2
  <2>13. heard <= published'
    BY <2>5, <2>6 DEF SubsInv, heard
  <2>14. CASE subs[v].open
    <3>1. InOrder(subs'[v])
      BY <2>7, <2>11, <2>14 DEF InOrder
    <3> QED
      BY <2>7, <2>9, <2>10, <2>12, <2>13, <2>14, <3>1 DEF NewestAt
  <2>15. CASE ~subs[v].open
    <3>1. \A i \in 1..Len(p) : p[i].version <= published'
      BY <2>1, <2>5, <2>6
    <3> QED
      BY <2>1, <2>7, <2>13, <2>15, <3>1 DEF SubsInv, p, heard
  <2> QED
    BY <2>14, <2>15
<1>2. subs' \in [Viewers -> Subs]
  <2>1. DOMAIN subs' = Viewers /\ subs' = [v \in Viewers |-> subs'[v]]
    BY DEF Publish
  <2> QED
    BY <1>1, <2>1
<1> QED
  BY <1>1, <1>2 DEF SubsInv, InOrder

LEMMA PublishResultsKeeps ==
  ASSUME LiveInv, NEW w \in Writers, PublishResults(w)
  PROVE  LiveInv'
<1> USE DEF LiveInv, PublishResults
<1>1. published \in 0..announced /\ announced \in Contents /\ timetables \in Nat
      /\ published \in Nat /\ announced \in Nat /\ published <= announced
  BY LiveBoundsAssumption DEF WritesInv, Contents
<1>2. WritesInv'
  BY <1>1, LiveBoundsAssumption DEF WritesInv
<1>3. [name |-> "results", version |-> announced] \in Events
  BY <1>1 DEF Events
<1>4. SubsInv'
  BY <1>1, <1>3, PublishKeeps
<1> QED
  BY <1>2, <1>4, SameEntries, SameFlights, SameCalls, SameShows

LEMMA PublishTimetableKeeps ==
  ASSUME LiveInv, PublishTimetable
  PROVE  LiveInv'
<1> USE DEF LiveInv, PublishTimetable
<1>1. published \in Nat /\ timetables \in Nat /\ 0 \in Contents
  BY LiveBoundsAssumption DEF WritesInv, Contents
<1>2. WritesInv'
  BY LiveBoundsAssumption DEF WritesInv
<1>3. [name |-> "timetable", version |-> 0] \in Events
  BY <1>1 DEF Events
<1>4. SubsInv'
  BY <1>1, <1>3, PublishKeeps
<1> QED
  BY <1>2, <1>4, SameEntries, SameFlights, SameCalls, SameShows

-----------------------------------------------------------------------------
(* The requests and the builds. *)

\* A step that changes one call.
LEMMA CallMoves ==
  ASSUME CallsInv, announced' = announced, NEW c \in Calls, NEW call \in CallStates,
         calls' = [calls EXCEPT ![c] = call], call.since <= announced,
         call.at = "answered" /\ ~call.overtaken => call.content >= call.since
  PROVE  CallsInv'
BY DEF CallsInv

\* A step that changes one flight.
LEMMA FlightMoves ==
  ASSUME FlightsInv, announced' = announced, NEW l \in Locales, NEW flight \in Flights,
         flights' = [flights EXCEPT ![l] = flight],
         flight.at \in {"built", "ended"} /\ ~flight.overtaken => flight.content >= announced
  PROVE  FlightsInv'
BY DEF FlightsInv, HasRead


LEMMA IdleIsSound ==
  ASSUME WritesInv
  PROVE  IdleCall \in CallStates /\ IdleCall.since <= announced /\ IdleCall.at # "answered"
BY NothingIsTyped, LiveBoundsAssumption DEF WritesInv, Contents

LEMMA LookupKeeps ==
  ASSUME LiveInv, NEW c \in Calls, Lookup(c)
  PROVE  LiveInv'
<1> USE DEF LiveInv, Lookup
<1> DEFINE l == Locale(c)
<1>1. calls[c] \in CallStates /\ calls[c].since <= announced
  BY DEF CallsInv
<1>2. l \in Locales
  BY <1>1, LocaleAssumption DEF Locale, CallStates
<1>3. entries[l] \in Entries /\ (entries[l].kept /\ ~entries[l].overtaken => entries[l].content >= announced)
  BY <1>2 DEF EntriesInv
<1>4. announced' = announced /\ announced \in Nat
  BY LiveBoundsAssumption DEF WritesInv, Contents, writes
<1>5. CallsInv'
  <2>1. CASE Live(entries[l])
    <3> DEFINE call == Served(calls[c], entries[l])
    <3>1. entries[l].kept /\ entries[l].content \in Contents /\ entries[l].overtaken \in BOOLEAN
      BY <1>3, <2>1 DEF Live, Entries
    <3>2. /\ call \in CallStates /\ call.since = calls[c].since
          /\ call.content = entries[l].content /\ call.overtaken = entries[l].overtaken
      BY <1>1, <3>1, ServedIsTyped
    <3>3. calls' = [calls EXCEPT ![c] = call]
      BY <2>1
    <3> HIDE DEF call, l
    <3>4. call.content \in Nat /\ call.since \in Nat
      BY <3>2, LiveBoundsAssumption DEF CallStates, Contents
    <3>5. call.since <= announced /\ (~call.overtaken => call.content >= call.since)
      BY <1>1, <1>3, <1>4, <3>1, <3>2, <3>4
    <3> QED
      BY <1>4, <3>2, <3>3, <3>5, CallMoves
  <2>2. CASE ~Live(entries[l])
    <3> DEFINE call == [calls[c] EXCEPT !.at = "missed"]
    <3>1. call \in CallStates /\ call.since = calls[c].since /\ call.at = "missed"
      BY <1>1 DEF CallStates, CallSteps
    <3>2. calls' = [calls EXCEPT ![c] = call]
      BY <2>2
    <3> HIDE DEF call
    <3> QED
      BY <1>1, <1>4, <3>1, <3>2, CallMoves
  <2> QED
    BY <2>1, <2>2
<1> QED
  BY <1>5, SameWrites, SameEntries, SameFlights, SameSubs, SameShows DEF writes

LEMMA JoinKeeps ==
  ASSUME LiveInv, NEW c \in Calls, Join(c)
  PROVE  LiveInv'
<1> USE DEF LiveInv
<1> DEFINE l == Locale(c)
           call == [calls[c] EXCEPT !.at = "waiting"]
           flight == [flights[l] EXCEPT !.at = "begun"]
<1>1. UNCHANGED <<writes, entries, subs, shows>> /\ announced' = announced
  BY DEF Join, writes
<1>2. calls[c] \in CallStates /\ calls[c].since <= announced
  BY DEF CallsInv
<1>3. call \in CallStates /\ call.since = calls[c].since /\ call.at = "waiting"
  BY <1>2 DEF CallStates, CallSteps
<1>4. calls' = [calls EXCEPT ![c] = call]
  BY DEF Join, Move
<1>5. l \in Locales
  BY <1>2, LocaleAssumption DEF Locale, CallStates
<1>6. flight \in Flights /\ flight.at = "begun"
  BY <1>5 DEF FlightsInv, Flights, FlightStates
<1>7. flights' = flights \/ flights' = [flights EXCEPT ![l] = flight]
  BY DEF Join
<1> HIDE DEF call, flight, l
<1>8. CallsInv'
  BY <1>1, <1>2, <1>3, <1>4, CallMoves
<1>9. FlightsInv'
  BY <1>1, <1>5, <1>6, <1>7, FlightMoves, SameFlights
<1> QED
  BY <1>1, <1>8, <1>9, SameWrites, SameEntries, SameSubs, SameShows DEF writes

LEMMA RecheckKeeps ==
  ASSUME LiveInv, NEW l \in Locales, Recheck(l)
  PROVE  LiveInv'
<1> USE DEF LiveInv
<1> DEFINE flight ==
      IF Live(entries[l])
      THEN [at |-> "ended", content |-> entries[l].content, overtaken |-> entries[l].overtaken]
      ELSE [NoFlight EXCEPT !.at = "building"]
<1>1. UNCHANGED <<writes, entries, calls, subs, shows>> /\ announced' = announced
  BY DEF Recheck, writes
<1>2. flights' = [flights EXCEPT ![l] = flight]
  BY DEF Recheck
<1>3. flight \in Flights
  BY NothingIsTyped DEF EntriesInv, Entries, Flights, FlightStates
<1>4. flight.at \in {"built", "ended"} /\ ~flight.overtaken => flight.content >= announced
  BY NothingIsTyped DEF EntriesInv, Live, Flights
<1> HIDE DEF flight
<1>5. FlightsInv'
  BY <1>1, <1>2, <1>3, <1>4, FlightMoves
<1> QED
  BY <1>1, <1>5, SameWrites, SameEntries, SameCalls, SameSubs, SameShows DEF writes

\* The build reads all that is committed, so all that has been announced.
LEMMA BuildKeeps ==
  ASSUME LiveInv, NEW l \in Locales, Build(l)
  PROVE  LiveInv'
<1> USE DEF LiveInv
<1> DEFINE flight == [NoFlight EXCEPT !.at = "built", !.content = db]
<1>1. UNCHANGED <<writes, entries, calls, subs, shows>> /\ announced' = announced
  BY DEF Build, writes
<1>2. flights' = [flights EXCEPT ![l] = flight]
  BY DEF Build
<1>3. db \in Contents /\ db >= announced
  BY LiveBoundsAssumption DEF WritesInv, Contents
<1>4. flight \in Flights /\ flight.content = db
  BY <1>3, NothingIsTyped DEF Flights, FlightStates
<1> HIDE DEF flight
<1>5. FlightsInv'
  BY <1>1, <1>2, <1>3, <1>4, FlightMoves
<1> QED
  BY <1>1, <1>5, SameWrites, SameEntries, SameCalls, SameSubs, SameShows DEF writes

LEMMA StoreKeeps ==
  ASSUME LiveInv, NEW l \in Locales, Store(l)
  PROVE  LiveInv'
<1> USE DEF LiveInv
<1> DEFINE flight == [flights[l] EXCEPT !.at = "ended"]
           entry == [kept |-> TRUE, fresh |-> TRUE, content |-> flights[l].content,
                     overtaken |-> flights[l].overtaken]
<1>1. UNCHANGED <<writes, calls, subs, shows>> /\ announced' = announced
  BY DEF Store, writes
<1>2. flights' = [flights EXCEPT ![l] = flight] /\ entries' = [entries EXCEPT ![l] = entry]
  BY DEF Store
<1>3. flights[l] \in Flights /\ (~flights[l].overtaken => flights[l].content >= announced)
  BY DEF FlightsInv, HasRead, Store
<1>4. /\ flight \in Flights /\ flight.overtaken = flights[l].overtaken
      /\ flight.content = flights[l].content
  BY <1>3 DEF Flights, FlightStates
<1>5. /\ entry \in Entries
      /\ entry.overtaken = flights[l].overtaken /\ entry.content = flights[l].content
  BY <1>3 DEF Flights, Entries
<1> HIDE DEF flight, entry
<1>6. FlightsInv'
  BY <1>1, <1>2, <1>3, <1>4, FlightMoves
<1>7. EntriesInv'
  BY <1>1, <1>2, <1>3, <1>5 DEF EntriesInv
<1> QED
  BY <1>1, <1>6, <1>7, SameWrites, SameCalls, SameSubs, SameShows DEF writes

LEMMA FinishKeeps ==
  ASSUME LiveInv, NEW l \in Locales, Finish(l)
  PROVE  LiveInv'
<1> USE DEF LiveInv
<1>1. UNCHANGED <<writes, entries, subs, shows>> /\ announced' = announced
  BY DEF Finish, writes
<1>2. flights' = [flights EXCEPT ![l] = NoFlight]
  BY DEF Finish
<1>3. FlightsInv'
  BY <1>1, <1>2, NothingIsTyped, FlightMoves
<1>4. flights[l] \in Flights /\ (~flights[l].overtaken => flights[l].content >= announced)
  BY DEF FlightsInv, HasRead, Finish
<1>5. flights[l].content \in Contents /\ flights[l].overtaken \in BOOLEAN
  BY <1>4 DEF Flights
<1>6. announced \in Nat
  BY LiveBoundsAssumption DEF WritesInv, Contents
<1>7. ASSUME NEW c \in Calls
      PROVE  LET call == Served(calls[c], flights[l])
             IN  /\ call \in CallStates /\ call.since <= announced
                 /\ ~call.overtaken => call.content >= call.since
  <2>1. calls[c] \in CallStates /\ calls[c].since <= announced
    BY DEF CallsInv
  <2>2. /\ Served(calls[c], flights[l]) \in CallStates
        /\ Served(calls[c], flights[l]).since = calls[c].since
        /\ Served(calls[c], flights[l]).content = flights[l].content
        /\ Served(calls[c], flights[l]).overtaken = flights[l].overtaken
    BY <1>5, <2>1, ServedIsTyped
  <2>3. calls[c].since \in Nat /\ flights[l].content \in Nat
    BY <1>5, <2>1, LiveBoundsAssumption DEF CallStates, Contents
  <2> QED
    BY <1>4, <1>6, <2>1, <2>2, <2>3
<1>8. calls' = [c \in Calls |-> IF Waits(c, l) THEN Served(calls[c], flights[l]) ELSE calls[c]]
  BY DEF Finish
<1>9. CallsInv'
  BY <1>1, <1>7, <1>8 DEF CallsInv
<1> QED
  BY <1>1, <1>3, <1>9, SameWrites, SameEntries, SameSubs, SameShows DEF writes

LEMMA BuildFailsKeeps ==
  ASSUME LiveInv, NEW l \in Locales, BuildFails(l)
  PROVE  LiveInv'
<1> USE DEF LiveInv
<1>1. UNCHANGED <<writes, entries, subs, shows>> /\ announced' = announced
  BY DEF BuildFails, writes
<1>2. /\ flights' = [flights EXCEPT ![l] = NoFlight]
      /\ calls' = [c \in Calls |-> IF Waits(c, l) THEN IdleCall ELSE calls[c]]
  BY DEF BuildFails
<1>3. FlightsInv'
  BY <1>1, <1>2, NothingIsTyped, FlightMoves
<1>4. CallsInv'
  BY <1>1, <1>2, IdleIsSound DEF CallsInv
<1> QED
  BY <1>1, <1>3, <1>4, SameWrites, SameEntries, SameSubs, SameShows DEF writes

LEMMA ExpireKeeps ==
  ASSUME LiveInv, NEW l \in Locales, Expire(l)
  PROVE  LiveInv'
<1> USE DEF LiveInv
<1>1. UNCHANGED <<writes, flights, calls, subs, shows>> /\ announced' = announced
  BY DEF Expire, writes
<1>2. EntriesInv'
  BY <1>1 DEF Expire, EntriesInv, Entries
<1> QED
  BY <1>1, <1>2, SameWrites, SameFlights, SameCalls, SameSubs, SameShows DEF writes

-----------------------------------------------------------------------------
(* The viewers, and the restart. *)

\* A step that changes one viewer's channel.
LEMMA SubMoves ==
  ASSUME SubsInv, UNCHANGED <<published, timetables>>, NEW v \in Viewers, NEW sub \in Subs,
         subs' = [subs EXCEPT ![v] = sub], Len(sub.pending) <= Buffer,
         sub.heard <= published, InOrder(sub),
         \A i \in 1..Len(sub.pending) : sub.pending[i].version <= published,
         sub.open /\ timetables < Buffer =>
           sub.heard = published \/ \E k \in 1..Len(sub.pending) : NewestAt(sub, k)
  PROVE  SubsInv'
<1>1. \A w \in Viewers : subs'[w] = IF w = v THEN sub ELSE subs[w]
  BY DEF SubsInv
<1>2. \A w \in Viewers : \A k : NewestAt(subs[w], k)' <=> NewestAt(subs'[w], k)
  BY DEF NewestAt
<1>3. subs' \in [Viewers -> Subs]
  BY DEF SubsInv
<1> QED
  BY <1>1, <1>2, <1>3 DEF SubsInv, NewestAt, InOrder

\* A request made for an event that has been published.
LEMMA AskKeeps ==
  ASSUME CallsInv, WritesInv, announced' = announced,
         NEW c \in Calls, NEW v \in Viewers, NEW since \in Contents, since <= announced,
         Ask(c, v, since)
  PROVE  CallsInv'
<1> DEFINE call == [at |-> "asked", viewer |-> v, since |-> since, content |-> 0,
                    overtaken |-> FALSE]
<1>1. call \in CallStates /\ call.since = since /\ call.at = "asked"
  BY LiveBoundsAssumption DEF CallStates, CallSteps, Contents
<1>2. calls' = [calls EXCEPT ![c] = call]
  BY DEF Ask
<1> HIDE DEF call
<1> QED
  BY <1>1, <1>2, CallMoves

\* A step that leaves one viewer nothing pending.
LEMMA EmptySubMoves ==
  ASSUME SubsInv, UNCHANGED <<published, timetables>>, NEW v \in Viewers, NEW sub \in Subs,
         subs' = [subs EXCEPT ![v] = sub], Len(sub.pending) = 0, sub.heard <= published,
         sub.open => sub.heard = published
  PROVE  SubsInv'
<1>1. InOrder(sub) /\ Len(sub.pending) <= Buffer
  BY BufferAssumption DEF InOrder
<1>2. \A i \in 1..Len(sub.pending) : sub.pending[i].version <= published
  OBVIOUS
<1>3. sub.open /\ timetables < Buffer =>
        sub.heard = published \/ \E k \in 1..Len(sub.pending) : NewestAt(sub, k)
  OBVIOUS
<1> QED
  BY <1>1, <1>2, <1>3, SubMoves

LEMMA ViewerKeeps ==
  ASSUME LiveInv,
         \/ \E v \in Viewers : ViewerStep(v)
         \/ \E c \in Calls : Apply(c) \/ FetchLost(c)
  PROVE  LiveInv'
<1> USE DEF LiveInv
<1>1. /\ published \in Nat /\ announced \in Nat /\ 0 <= announced /\ 0 \in Contents
      /\ published <= announced /\ timetables \in Nat
  BY LiveBoundsAssumption DEF WritesInv, Contents
<1>2. ASSUME NEW v \in Viewers, NEW c \in Calls, OpenPage(v, c)
      PROVE  LiveInv'
  <2>1. UNCHANGED <<writes, entries, flights, subs, shows>> /\ announced' = announced /\ Ask(c, v, 0)
    BY <1>2 DEF OpenPage, writes
  <2>2. CallsInv'
    BY <1>1, <2>1, AskKeeps
  <2> QED
    BY <2>1, <2>2, SameWrites, SameEntries, SameFlights, SameSubs, SameShows DEF writes
<1>3. ASSUME NEW v \in Viewers, NEW c \in Calls, Deliver(v, c)
      PROVE  LiveInv'
  <2> DEFINE p == subs[v].pending
             ev == Head(p)
             rest == [subs[v] EXCEPT !.pending = Tail(p)]
             sub == IF ev.name = "results" THEN [rest EXCEPT !.heard = ev.version] ELSE rest
  <2>1. /\ UNCHANGED <<writes, entries, flights, shows>>
        /\ UNCHANGED <<announced, published, timetables>>
        /\ p # <<>> /\ subs[v].open
    BY <1>3 DEF Deliver, writes
  <2>2. p \in Seq(Events) /\ Len(p) <= Buffer /\ subs[v] \in Subs
        /\ \A i \in 1..Len(p) : p[i].version <= published
    BY DEF SubsInv, Subs
  <2>3. ev \in Events /\ ev = p[1] /\ 1 \in 1..Len(p)
    BY <2>1, <2>2
  <2>4. ev.version \in Contents /\ ev.version <= published /\ ev.version <= announced
    BY <1>1, <2>2, <2>3, LiveBoundsAssumption DEF Events, Contents
  <2>5. subs' = [subs EXCEPT ![v] = sub]
    BY <1>3 DEF Deliver, SubsInv, Subs
  <2>6. /\ Tail(p) \in Seq(Events) /\ Len(Tail(p)) = Len(p) - 1
        /\ \A i \in 1..(Len(p) - 1) : Tail(p)[i] = p[i + 1]
    BY <2>1, <2>2
  <2>7. /\ sub \in Subs /\ sub.pending = Tail(p) /\ sub.open
        /\ sub.heard = IF ev.name = "results" THEN ev.version ELSE subs[v].heard
    BY <2>1, <2>2, <2>4, <2>6 DEF Subs
  <2>8. CallsInv'
    <3>1. CASE ev.name = "results"
      BY <1>3, <2>1, <2>4, <3>1, AskKeeps DEF Deliver
    <3>2. CASE ev.name # "results"
      BY <1>3, <2>1, <3>2, SameCalls DEF Deliver
    <3> QED
      BY <3>1, <3>2
  <2>9. timetables < Buffer =>
          sub.heard = published \/ \E k \in 1..Len(sub.pending) : NewestAt(sub, k)
    <3> SUFFICES ASSUME timetables < Buffer, sub.heard # published
                 PROVE  \E k \in 1..Len(Tail(p)) : NewestAt(sub, k)
      BY <2>7
    <3>1. subs[v].heard = published \/ \E k \in 1..Len(p) : NewestAt(subs[v], k)
      BY <2>1 DEF SubsInv
    <3>2. subs[v].heard # published
      <4>1. ev.name = "results" => subs[v].heard <= ev.version
        BY <2>3 DEF SubsInv, InOrder
      <4>2. subs[v].heard \in Nat /\ ev.version \in Nat
        BY <2>2, <2>4, LiveBoundsAssumption DEF Subs, Contents
      <4> QED
        BY <1>1, <2>4, <2>7, <4>1, <4>2
    <3>3. CASE \E k \in 1..Len(p) : NewestAt(subs[v], k)
      <4>1. PICK k \in 1..Len(p) : NewestAt(subs[v], k)
        BY <3>3
      <4>2. p[k] = [name |-> "results", version |-> published] /\ Len(p) - k <= timetables
        BY <4>1 DEF NewestAt
      <4>3. k # 1
        BY <2>3, <2>7, <4>2
      <4>4. /\ k - 1 \in 1..Len(Tail(p)) /\ Tail(p)[k - 1] = p[(k - 1) + 1]
            /\ (k - 1) + 1 = k /\ Len(Tail(p)) - (k - 1) = Len(p) - k
        <5> HIDE DEF p
        <5>1. Len(p) \in Nat /\ k - 1 \in 1..(Len(p) - 1)
          BY <2>2, <4>3
        <5> QED
          BY <2>6, <5>1
      <4> QED
        BY <2>7, <4>2, <4>4 DEF NewestAt
    <3> QED
      BY <3>1, <3>2, <3>3
  <2>10. Len(Tail(p)) <= Buffer /\ \A i \in 1..Len(Tail(p)) : Tail(p)[i].version <= published
    BY <2>2, <2>6, BufferAssumption
  <2>11. InOrder(sub)
    <3>1. \A i \in 1..Len(p) : p[i].name = "results" =>
            /\ subs[v].heard <= p[i].version
            /\ \A j \in i..Len(p) : p[j].name = "results" => p[i].version <= p[j].version
      BY DEF SubsInv, InOrder
    <3>2. ev.name = "results" => \A j \in 1..Len(p) :
            p[j].name = "results" => ev.version <= p[j].version
      BY <2>3, <3>1
    <3> HIDE DEF p, ev, rest, sub
    <3>3. Len(p) \in Nat
      BY <2>2
    <3> SUFFICES ASSUME NEW i \in 1..Len(Tail(p)), Tail(p)[i].name = "results"
                 PROVE  /\ sub.heard <= Tail(p)[i].version
                        /\ \A j \in i..Len(Tail(p)) : Tail(p)[j].name = "results"
                             => Tail(p)[i].version <= Tail(p)[j].version
      BY <2>7 DEF InOrder
    <3>4. i + 1 \in 1..Len(p) /\ Tail(p)[i] = p[i + 1]
      BY <2>6, <3>3
    <3>5. sub.heard <= Tail(p)[i].version
      BY <2>7, <3>1, <3>2, <3>4
    <3>6. ASSUME NEW j \in i..Len(Tail(p))
          PROVE  Tail(p)[j] = p[j + 1] /\ j + 1 \in (i + 1)..Len(p)
      BY <2>6, <3>3
    <3> QED
      BY <3>1, <3>4, <3>5, <3>6
  <2> HIDE DEF p, ev, rest, sub
  <2>12. UNCHANGED <<published, timetables>> /\ sub.heard <= published
    BY <2>1, <2>4, <2>7 DEF SubsInv
  <2>13. SubsInv'
    BY <2>5, <2>7, <2>9, <2>10, <2>11, <2>12, SubMoves
  <2> QED
    BY <2>1, <2>8, <2>13, SameWrites, SameEntries, SameFlights, SameShows DEF writes
<1>4. ASSUME NEW v \in Viewers, Subscribe(v)
      PROVE  LiveInv'
  <2> DEFINE sub == [open |-> TRUE, heard |-> published, pending |-> <<>>]
  <2>1. /\ UNCHANGED <<writes, entries, flights, calls, shows>>
        /\ UNCHANGED <<announced, published, timetables>>
        /\ subs' = [subs EXCEPT ![v] = sub]
    BY <1>4 DEF Subscribe, writes
  <2>2. published \in Contents
    BY LiveBoundsAssumption DEF WritesInv, Contents
  <2>3. sub \in Subs /\ Len(sub.pending) = 0 /\ sub.heard = published
    BY <2>2 DEF Subs
  <2> HIDE DEF sub
  <2>4. UNCHANGED <<published, timetables>> /\ sub.heard <= published
    BY <1>1, <2>1, <2>3
  <2>5. SubsInv'
    BY <2>1, <2>3, <2>4, EmptySubMoves
  <2> QED
    BY <2>1, <2>5, SameWrites, SameEntries, SameFlights, SameCalls, SameShows DEF writes
<1>5. ASSUME NEW v \in Viewers, LoseConnection(v)
      PROVE  LiveInv'
  <2>1. /\ UNCHANGED <<writes, entries, flights, calls, shows>>
        /\ UNCHANGED <<announced, published, timetables>>
        /\ subs' = [subs EXCEPT ![v] = NoSub]
    BY <1>5 DEF LoseConnection, writes
  <2>2. /\ NoSub \in Subs /\ Len(NoSub.pending) = 0 /\ NoSub.heard <= published /\ ~NoSub.open
    BY <1>1, NothingIsTyped
  <2>3. UNCHANGED <<published, timetables>>
    BY <2>1
  <2>4. SubsInv'
    BY <2>1, <2>2, <2>3, EmptySubMoves
  <2> QED
    BY <2>1, <2>4, SameWrites, SameEntries, SameFlights, SameCalls, SameShows DEF writes
<1>6. ASSUME NEW v \in Viewers, ClosePage(v)
      PROVE  LiveInv'
  <2>1. /\ UNCHANGED <<writes, entries, flights>>
        /\ UNCHANGED <<announced, published, timetables>>
        /\ subs' = [subs EXCEPT ![v] = NoSub]
        /\ calls' = [c \in Calls |-> IF calls[c].viewer = v THEN IdleCall ELSE calls[c]]
        /\ shows' = [shows EXCEPT ![v] = Closed]
    BY <1>6 DEF ClosePage, writes
  <2>2. /\ NoSub \in Subs /\ Len(NoSub.pending) = 0 /\ NoSub.heard <= published /\ ~NoSub.open
    BY <1>1, NothingIsTyped
  <2>3. UNCHANGED <<published, timetables>>
    BY <2>1
  <2>4. SubsInv'
    BY <2>1, <2>2, <2>3, EmptySubMoves
  <2>5. CallsInv'
    BY <2>1, IdleIsSound DEF CallsInv
  <2>6. ShowsInv'
    BY <2>1 DEF ShowsInv
  <2> QED
    BY <2>1, <2>4, <2>5, <2>6, SameWrites, SameEntries, SameFlights DEF writes
<1>7. ASSUME NEW c \in Calls, Apply(c) \/ FetchLost(c)
      PROVE  LiveInv'
  <2>1. /\ UNCHANGED <<writes, entries, flights, subs>>
        /\ UNCHANGED <<announced, published, timetables>>
        /\ calls' = [calls EXCEPT ![c] = IdleCall]
        /\ \/ shows' = shows
           \/ shows' = [shows EXCEPT ![calls[c].viewer] = calls[c].content]
    BY <1>7 DEF Apply, FetchLost, writes
  <2>2. CallsInv'
    BY <2>1, IdleIsSound, CallMoves
  <2>3. ShowsInv'
    BY <2>1 DEF ShowsInv, CallsInv, CallStates
  <2> QED
    BY <2>1, <2>2, <2>3, SameWrites, SameEntries, SameFlights, SameSubs DEF writes
<1> QED
  BY <1>2, <1>3, <1>4, <1>5, <1>6, <1>7 DEF ViewerStep

LEMMA RestartKeeps ==
  ASSUME LiveInv, Restart
  PROVE  LiveInv'
<1> USE DEF LiveInv, Restart
<1>1. WritesInv'
  BY DEF WritesInv
<1>2. EntriesInv' /\ FlightsInv'
  BY NothingIsTyped DEF EntriesInv, FlightsInv, HasRead
<1>3. CallsInv'
  BY IdleIsSound DEF CallsInv
<1>4. SubsInv'
  BY NothingIsTyped, BufferAssumption, LiveBoundsAssumption
  DEF SubsInv, InOrder, WritesInv, Contents
<1> QED
  BY <1>1, <1>2, <1>3, <1>4, SameShows

-----------------------------------------------------------------------------
LEMMA StepKeeps == LiveInv /\ [LiveNext]_vars => LiveInv'
<1> SUFFICES ASSUME LiveInv, [LiveNext]_vars PROVE LiveInv'
  OBVIOUS
<1>1. ASSUME NEW w \in Writers, WriterStep(w) PROVE LiveInv'
  BY <1>1, CommitKeeps, InvalidateKeeps, PublishResultsKeeps DEF WriterStep
<1>2. ASSUME NEW l \in Locales, FlightStep(l) \/ BuildFails(l) \/ Expire(l) PROVE LiveInv'
  BY <1>2, RecheckKeeps, BuildKeeps, StoreKeeps, FinishKeeps, BuildFailsKeeps, ExpireKeeps
  DEF FlightStep
<1>3. ASSUME NEW c \in Calls, CallStep(c) \/ FetchLost(c) PROVE LiveInv'
  BY <1>3, LookupKeeps, JoinKeeps, ViewerKeeps DEF CallStep
<1>4. ASSUME UNCHANGED vars PROVE LiveInv'
  BY <1>4, SameWrites, SameEntries, SameFlights, SameCalls, SameSubs, SameShows
  DEF LiveInv, vars, writes
<1> QED
  BY <1>1, <1>2, <1>3, <1>4, CommitKeeps, PublishTimetableKeeps, ViewerKeeps, RestartKeeps
  DEF LiveNext

LEMMA LiveIsSound == LiveSpec => []LiveInv
BY InitKeeps, StepKeeps, PTL DEF LiveSpec

\* Type correctness, for any number of viewers, writers, locales and requests.
THEOREM LiveTypeCorrect == LiveSpec => []LiveTypeOK
<1>1. LiveInv => LiveTypeOK
  BY DEF LiveInv, LiveTypeOK, WritesInv, EntriesInv, FlightsInv, CallsInv, SubsInv, ShowsInv
<1> QED
  BY <1>1, LiveIsSound, PTL

\* The cache and the shared builds serve nothing older than they have been told
\* of but what an invalidation overtook between its reading and its storing.
THEOREM OnlyOvertakenIsStale == LiveSpec => []StaleOnlyOvertaken
<1>1. LiveInv => StaleOnlyOvertaken
  BY DEF LiveInv, StaleOnlyOvertaken, EntriesInv, CallsInv, Live
<1> QED
  BY <1>1, LiveIsSound, PTL

\* However slow a viewer is, the newest "results" event reaches its channel and
\* stays in it, for buffers of any size.
THEOREM NewestStays == LiveSpec => []NewestIsPending
<1>1. ASSUME LiveInv PROVE NewestIsPending
  <2>1. \A v \in Viewers : subs[v].pending \in Seq(Events)
    BY <1>1 DEF LiveInv, SubsInv, Subs
  <2>2. ASSUME NEW s \in Seq(Events) PROVE DOMAIN s = 1..Len(s)
    OBVIOUS
  <2> QED
    BY <1>1, <2>2 DEF LiveInv, SubsInv, NewestIsPending, NewestAt
<1> QED
  BY <1>1, LiveIsSound, PTL
=============================================================================
