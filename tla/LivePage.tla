------------------------------ MODULE LivePage ------------------------------
(***************************************************************************)
(* The public results page of one meet (publiccache.go, sse.go, public.go, *)
(* public-live.js): writes commit and run the hook that drops the cached   *)
(* page and publishes an event; viewers' browsers fetch the page again on  *)
(* each event; concurrent fetches that miss the cache share one build.     *)
(*                                                                         *)
(* The cache and the bus have a mutex each, a build reads the database, so *)
(* each of these is a step; anything happens between two of them. Contents *)
(* are the number of committed writes they show. How long five seconds are *)
(* is left out: a page that has been built expires at some time.           *)
(***************************************************************************)
EXTENDS Integers, Sequences

CONSTANTS
  Viewers,        \* browsers on the page
  Locales,        \* the cache has an entry per locale
  LocaleOf,       \* each viewer's
  Calls,          \* requests for the page that can be under way
  Writers,        \* requests that change results
  Buffer,         \* subscriberBuffer: events a slow subscriber can have pending
  MaxWrites,      \* bound on committed writes
  MaxTimetables   \* bound on timetable events

ASSUME ViewersAssumption == Viewers # {}
ASSUME LocaleAssumption == LocaleOf \in [Viewers -> Locales]
ASSUME BufferAssumption == Buffer \in Nat \ {0}
ASSUME LiveBoundsAssumption == MaxWrites \in Nat /\ MaxTimetables \in Nat

VARIABLES
  db,         \* writes committed
  announced,  \* history: the writes committed when the cache was last emptied
  published,  \* history: announced, when "results" was last published
  timetables, \* "timetable" events published
  writers,    \* where each write's hook stands
  entries,    \* publicResultsCache.entries
  flights,    \* the singleflight call of each locale
  calls,      \* requests for the page
  subs,       \* Bus.subs: each viewer's channel
  shows       \* what each viewer sees; Closed without a page

writes == <<db, announced, published, timetables, writers>>
vars == <<writes, entries, flights, calls, subs, shows>>

-----------------------------------------------------------------------------
Closed == -1
Contents == 0..MaxWrites

\* overtaken (history): read before the cache was last emptied, stored or
\* handed out after it.
Entries == [kept : BOOLEAN, fresh : BOOLEAN, content : Contents, overtaken : BOOLEAN]
NoEntry == [kept |-> FALSE, fresh |-> FALSE, content |-> 0, overtaken |-> FALSE]

FlightStates == {"none", "begun", "building", "built", "ended"}
Flights == [at : FlightStates, content : Contents, overtaken : BOOLEAN]
NoFlight == [at |-> "none", content |-> 0, overtaken |-> FALSE]

\* A call was made for the event of version since, 0 when the page was opened.
CallSteps == {"idle", "asked", "missed", "waiting", "answered"}
CallStates ==
  [at : CallSteps, viewer : Viewers, since : Contents, content : Contents,
   overtaken : BOOLEAN]
IdleCall ==
  [at |-> "idle", viewer |-> CHOOSE v \in Viewers : TRUE, since |-> 0, content |-> 0,
   overtaken |-> FALSE]
Locale(c) == LocaleOf[calls[c].viewer]

Events == [name : {"results", "timetable"}, version : Contents]
\* heard (history): the version of the latest "results" event the viewer got.
Subs == [open : BOOLEAN, heard : Contents, pending : Seq(Events)]
NoSub == [open |-> FALSE, heard |-> 0, pending |-> <<>>]

LiveTypeOK ==
  /\ db \in Contents /\ announced \in 0..db /\ published \in 0..announced
  /\ timetables \in 0..MaxTimetables
  /\ writers \in [Writers -> {"idle", "committed", "emptied"}]
  /\ entries \in [Locales -> Entries]
  /\ flights \in [Locales -> Flights]
  /\ calls \in [Calls -> CallStates]
  /\ subs \in [Viewers -> Subs]
  /\ \A v \in Viewers : Len(subs[v].pending) <= Buffer
  /\ shows \in [Viewers -> Contents \union {Closed}]

LiveInit ==
  /\ db = 0 /\ announced = 0 /\ published = 0 /\ timetables = 0
  /\ writers = [w \in Writers |-> "idle"]
  /\ entries = [l \in Locales |-> NoEntry]
  /\ flights = [l \in Locales |-> NoFlight]
  /\ calls = [c \in Calls |-> IdleCall]
  /\ subs = [v \in Viewers |-> NoSub]
  /\ shows = [v \in Viewers |-> Closed]

-----------------------------------------------------------------------------
(* The writers and their hook (ResultsService.notifyChanged, server.go). *)

Commit(w) ==
  /\ writers[w] = "idle" /\ db < MaxWrites
  /\ db' = db + 1
  /\ writers' = [writers EXCEPT ![w] = "committed"]
  /\ UNCHANGED <<announced, published, timetables, entries, flights, calls, subs, shows>>

\* A write the hook does not know of: meet data, erasure, purge.
CommitUnhooked ==
  /\ db < MaxWrites
  /\ db' = db + 1
  /\ UNCHANGED <<announced, published, timetables, writers, entries, flights, calls, subs,
                 shows>>

\* Mutant of Emptied: an entry that has not expired stays.
Emptied_Expired == [l \in Locales |-> IF entries[l].fresh THEN entries[l] ELSE NoEntry]

\* Every locale of the meet.
Emptied == [l \in Locales |-> NoEntry]

HasRead(l) == flights[l].at \in {"built", "ended"}

\* publicResultsCache.invalidate
Invalidate(w) ==
  /\ writers[w] = "committed"
  /\ writers' = [writers EXCEPT ![w] = "emptied"]
  /\ entries' = Emptied
  /\ announced' = db
  /\ flights' = [l \in Locales |->
                   IF HasRead(l) THEN [flights[l] EXCEPT !.overtaken = TRUE] ELSE flights[l]]
  /\ UNCHANGED <<db, published, timetables, calls, subs, shows>>

\* Mutant of Pushed: the buffer grows.
Pushed_Unbounded(pending, ev) == Append(pending, ev)

\* Mutant of Pushed: a full buffer keeps its oldest events.
Pushed_KeepsOldest(pending, ev) ==
  IF Len(pending) < Buffer THEN Append(pending, ev) ELSE pending

\* A full buffer drops its oldest event.
Pushed(pending, ev) ==
  Append(IF Len(pending) < Buffer THEN pending ELSE Tail(pending), ev)

\* Bus.Publish, under its mutex.
Publish(ev) ==
  subs' = [v \in Viewers |->
             IF subs[v].open THEN [subs[v] EXCEPT !.pending = Pushed(@, ev)] ELSE subs[v]]

PublishResults(w) ==
  /\ writers[w] = "emptied"
  /\ writers' = [writers EXCEPT ![w] = "idle"]
  /\ Publish([name |-> "results", version |-> announced])
  /\ published' = announced
  /\ UNCHANGED <<db, announced, timetables, entries, flights, calls, shows>>

\* handleTimetablePublish publishes on the same topic.
PublishTimetable ==
  /\ timetables < MaxTimetables
  /\ timetables' = timetables + 1
  /\ Publish([name |-> "timetable", version |-> 0])
  /\ UNCHANGED <<db, announced, published, writers, entries, flights, calls, shows>>

-----------------------------------------------------------------------------
(* A request for the page (cachedPublicResults, getOrBuild). *)

Move(c, step) == calls' = [calls EXCEPT ![c].at = step]
Served(call, page) ==
  [call EXCEPT !.at = "answered", !.content = page.content, !.overtaken = page.overtaken]

\* Mutant of Live: an entry is served whatever its age.
Live_AnyAge(e) == e.kept

\* lookup: present and not older than publicResultsCacheTTL.
Live(e) == e.kept /\ e.fresh

Lookup(c) ==
  /\ calls[c].at = "asked"
  /\ calls' = [calls EXCEPT ![c] =
                 IF Live(entries[Locale(c)]) THEN Served(@, entries[Locale(c)])
                 ELSE [@ EXCEPT !.at = "missed"]]
  /\ UNCHANGED <<writes, entries, flights, subs, shows>>

\* singleflight's Do: the first caller begins the build, the others join it.
Join(c) ==
  LET l == Locale(c)
  IN  /\ calls[c].at = "missed"
      /\ Move(c, "waiting")
      /\ flights' = IF flights[l].at = "none"
                    THEN [flights EXCEPT ![l].at = "begun"] ELSE flights
      /\ UNCHANGED <<writes, entries, subs, shows>>

\* The second lookup, inside the build.
Recheck(l) ==
  /\ flights[l].at = "begun"
  /\ flights' = [flights EXCEPT ![l] =
       IF Live(entries[l])
       THEN [at |-> "ended", content |-> entries[l].content, overtaken |-> entries[l].overtaken]
       ELSE [NoFlight EXCEPT !.at = "building"]]
  /\ UNCHANGED <<writes, entries, calls, subs, shows>>

\* buildPublicResultsView reads the standings.
Build(l) ==
  /\ flights[l].at = "building"
  /\ flights' = [flights EXCEPT ![l] = [NoFlight EXCEPT !.at = "built", !.content = db]]
  /\ UNCHANGED <<writes, entries, calls, subs, shows>>

Store(l) ==
  /\ flights[l].at = "built"
  /\ entries' = [entries EXCEPT ![l] =
       [kept |-> TRUE, fresh |-> TRUE, content |-> flights[l].content,
        overtaken |-> flights[l].overtaken]]
  /\ flights' = [flights EXCEPT ![l].at = "ended"]
  /\ UNCHANGED <<writes, calls, subs, shows>>

\* Mutant of Waits: the callers that joined late are left waiting.
Waits_First(c, l) ==
  /\ calls[c].at = "waiting" /\ Locale(c) = l
  /\ \A d \in Calls : calls[d].at = "waiting" /\ Locale(d) = l => calls[d].since <= calls[c].since

Waits(c, l) == calls[c].at = "waiting" /\ Locale(c) = l

\* Do returns to everybody who waits.
Finish(l) ==
  /\ flights[l].at = "ended"
  /\ flights' = [flights EXCEPT ![l] = NoFlight]
  /\ calls' = [c \in Calls |-> IF Waits(c, l) THEN Served(calls[c], flights[l]) ELSE calls[c]]
  /\ UNCHANGED <<writes, entries, subs, shows>>

\* A read fails, as it does when the request that began the build is cancelled:
\* everybody who waits gets the error, and the page of each stays as it is.
BuildFails(l) ==
  /\ flights[l].at \in {"building", "built"}
  /\ flights' = [flights EXCEPT ![l] = NoFlight]
  /\ calls' = [c \in Calls |-> IF Waits(c, l) THEN IdleCall ELSE calls[c]]
  /\ UNCHANGED <<writes, entries, subs, shows>>

\* publicResultsCacheTTL passes.
Expire(l) ==
  /\ Live(entries[l])
  /\ entries' = [entries EXCEPT ![l].fresh = FALSE]
  /\ UNCHANGED <<writes, flights, calls, subs, shows>>

-----------------------------------------------------------------------------
(* The viewer's browser (public-live.js) and its event stream (sseHandler). *)

Ask(c, v, since) ==
  /\ calls[c].at = "idle"
  /\ calls' = [calls EXCEPT ![c] =
       [at |-> "asked", viewer |-> v, since |-> since, content |-> 0, overtaken |-> FALSE]]

OpenPage(v, c) ==
  /\ shows[v] = Closed
  /\ \A d \in Calls : calls[d].viewer = v => calls[d].at = "idle"
  /\ Ask(c, v, 0)
  /\ UNCHANGED <<writes, entries, flights, subs, shows>>

\* The answer replaces what the page shows, whatever that was.
Apply(c) ==
  /\ calls[c].at = "answered"
  /\ shows' = [shows EXCEPT ![calls[c].viewer] = calls[c].content]
  /\ calls' = [calls EXCEPT ![c] = IdleCall]
  /\ UNCHANGED <<writes, entries, flights, subs>>

\* The request or its answer is lost; a build it began goes on.
FetchLost(c) ==
  /\ calls[c].at # "idle"
  /\ calls' = [calls EXCEPT ![c] = IdleCall]
  /\ UNCHANGED <<writes, entries, flights, subs, shows>>

\* The page's script, and the browser after a lost connection, subscribe. What
\* was published before is not sent again.
Subscribe(v) ==
  /\ shows[v] # Closed /\ ~subs[v].open
  /\ subs' = [subs EXCEPT ![v] = [open |-> TRUE, heard |-> published, pending |-> <<>>]]
  /\ UNCHANGED <<writes, entries, flights, calls, shows>>

\* The handler's context ends: cancel removes the channel.
LoseConnection(v) ==
  /\ subs[v].open
  /\ subs' = [subs EXCEPT ![v] = NoSub]
  /\ UNCHANGED <<writes, entries, flights, calls, shows>>

\* The handler writes the oldest event; the page fetches on "results" only.
Deliver(v, c) ==
  LET ev == Head(subs[v].pending)
  IN  /\ subs[v].open /\ subs[v].pending # <<>>
      /\ IF ev.name = "results"
         THEN /\ Ask(c, v, ev.version)
              /\ subs' = [subs EXCEPT ![v].pending = Tail(@), ![v].heard = ev.version]
         ELSE /\ subs' = [subs EXCEPT ![v].pending = Tail(@)]
              /\ UNCHANGED calls
      /\ UNCHANGED <<writes, entries, flights, shows>>

ClosePage(v) ==
  /\ shows[v] # Closed
  /\ shows' = [shows EXCEPT ![v] = Closed]
  /\ subs' = [subs EXCEPT ![v] = NoSub]
  /\ calls' = [c \in Calls |-> IF calls[c].viewer = v THEN IdleCall ELSE calls[c]]
  /\ UNCHANGED <<writes, entries, flights>>

\* The server dies and starts again: cache, bus and requests are memory.
Restart ==
  /\ writers' = [w \in Writers |-> "idle"]
  /\ entries' = [l \in Locales |-> NoEntry]
  /\ flights' = [l \in Locales |-> NoFlight]
  /\ calls' = [c \in Calls |-> IdleCall]
  /\ subs' = [v \in Viewers |-> NoSub]
  /\ UNCHANGED <<db, announced, published, timetables, shows>>

-----------------------------------------------------------------------------
WriterStep(w) == Commit(w) \/ Invalidate(w) \/ PublishResults(w)
FlightStep(l) == Recheck(l) \/ Build(l) \/ Store(l) \/ Finish(l)
CallStep(c) == Lookup(c) \/ Join(c) \/ Apply(c)
ViewerStep(v) ==
  \/ \E c \in Calls : OpenPage(v, c) \/ Deliver(v, c)
  \/ Subscribe(v) \/ LoseConnection(v) \/ ClosePage(v)

LiveNext ==
  \/ \E w \in Writers : WriterStep(w)
  \/ CommitUnhooked
  \/ PublishTimetable
  \/ \E l \in Locales : FlightStep(l) \/ BuildFails(l) \/ Expire(l)
  \/ \E c \in Calls : CallStep(c) \/ FetchLost(c)
  \/ \E v \in Viewers : ViewerStep(v)
  \/ Restart

LiveSpec == LiveInit /\ [][LiveNext]_vars

\* Handlers run, and time passes. Nothing is assumed of viewers and writers.
FairLiveSpec ==
  /\ LiveSpec
  /\ \A l \in Locales : WF_vars(FlightStep(l)) /\ WF_vars(Expire(l))
  /\ \A c \in Calls : WF_vars(CallStep(c))

-----------------------------------------------------------------------------
(* Properties. *)

\* What the cache serves shows every write it has been told of, and the answer
\* to a fetch the write whose event the fetch was made for, unless the page was
\* read before a write's hook emptied the cache and stored or handed out after
\* it (getOrBuild against invalidate).
StaleOnlyOvertaken ==
  /\ \A l \in Locales :
       Live(entries[l]) /\ ~entries[l].overtaken => entries[l].content >= announced
  /\ \A c \in Calls :
       calls[c].at = "answered" /\ ~calls[c].overtaken => calls[c].content >= calls[c].since

\* A connected viewer has got the newest "results" event or has it pending,
\* however far behind it is, as long as fewer timetable events than a buffer
\* holds share the topic (Publish drops the oldest).
NewestIsPending ==
  \A v \in Viewers :
    subs[v].open /\ timetables < Buffer
    => \/ subs[v].heard = published
       \/ \E i \in DOMAIN subs[v].pending :
            subs[v].pending[i] = [name |-> "results", version |-> published]

\* Once writes end, the cache serves nothing but the latest state, also after a
\* write that no hook announced and after an overtaken build
\* (publicResultsCacheTTL).
CacheSettles ==
  <>[](\A l \in Locales : Live(entries[l]) => entries[l].content = db)

\* A request for the page ends, whoever began the build it waits for.
FetchesEnd ==
  \A c \in Calls : calls[c].at # "idle" ~> calls[c].at = "idle"

\* False: the fetch made for an event shows the write it announces. A build
\* under way when the cache was emptied is stored, or joined, afterwards.
LiveFetchIsFresh ==
  \A c \in Calls : calls[c].at = "answered" => calls[c].content >= calls[c].since

\* False: what an open page shows never gets older. Of two fetches under way
\* the answer that comes last stays.
PageNeverGoesBack ==
  [][\A v \in Viewers : shows[v] # Closed /\ shows'[v] # Closed => shows'[v] >= shows[v]]_vars
=============================================================================
