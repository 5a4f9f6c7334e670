---------------------------- MODULE CaptureQueue ----------------------------
(***************************************************************************)
(* The device half of the offline capture path (capture-offline.ts): the   *)
(* durable queue and stamp in IndexedDB, shared by every page the browser  *)
(* has open on the unit, and each page's start-up, capture and flush.      *)
(*                                                                         *)
(* A page runs one JavaScript thread, so the code between two awaits is    *)
(* one step; every await (an IndexedDB transaction, a fetch) lets the      *)
(* other handlers of the page, the other pages and the network move. The   *)
(* server is CaptureSync, cut down to what its answers let a device see:   *)
(* the operations of a batch are decided one by one, in order, and go on   *)
(* being decided after the page that sent them has gone.                   *)
(*                                                                         *)
(* IndexedDB delivers the completion of a page's transactions in the order *)
(* they were issued, so the read that ends a flush of an empty queue is    *)
(* over before a capture made meanwhile can ask for a flush: that return   *)
(* is one step with the read that found the queue empty.                   *)
(***************************************************************************)
EXTENDS Naturals, FiniteSets

CONSTANTS
  Pages,     \* browser pages that can be open on the unit
  Servers,   \* how the server can deal with the device: serving, failing (5xx,
             \* unreachable), refusing (401, 403, another 4xx, checkout held)
  MaxOps,    \* bound on captures
  MaxGen     \* bound on checkout generations

ASSUME ServersAssumption ==
  "serving" \in Servers /\ Servers \subseteq {"serving", "failing", "refusing"}
ASSUME BoundsAssumption == MaxOps \in Nat /\ MaxGen \in Nat \ {0}

Ops == 1..MaxOps        \* operation ids, in the order they are captured
Stamps == 0..MaxGen     \* a stamp, told by its generation; 0: none

VARIABLES
  link,      \* navigator.onLine: the link layer only
  server,    \* how the server deals with this device at present
  live,      \* generation of the live checkout
  stamp,     \* IndexedDB "stamps": the unit's stamp
  queue,     \* IndexedDB "queue": the unit's queued captures
  taken,     \* captures made so far
  sent,      \* batches that reached the server and may still be replayed
  decided,   \* the server's decision per operation
  pages      \* what each page is doing

networkVars == <<link, server>>
storeVars == <<stamp, queue, taken>>
serverVars == <<live, sent, decided>>
vars == <<networkVars, storeVars, serverVars, pages>>

-----------------------------------------------------------------------------
Decisions == {"applied", "reconciliation", "rejected"}
Batches == [ops : SUBSET Ops, stamp : Stamps]

LoadSteps == {"done", "check", "fetch", "put", "go"}
FlushSteps ==
  {"idle", "read", "stamp", "check", "fetch", "put", "wait", "delete", "leaving"}
Routines == {"load", "flush"}
PageStates ==
  [open : BOOLEAN,
   load : LoadSteps,             \* the start-up function
   flush : FlushSteps,           \* flush(); flushing is flush # "idle"
   got : [Routines -> Stamps],   \* the checkout answer not yet stored
   batch : SUBSET Ops,           \* the operations flush() works on
   again : BOOLEAN,              \* flushAgain
   timer : BOOLEAN,              \* retryTimer is running
   online : BOOLEAN,             \* an 'online' event waits to be handled
   pokes : Nat,                  \* stored captures whose flush() is to come
   stopped : BOOLEAN]            \* the last flush() met a 401, 403 or 4xx

ClosedPage ==
  [open |-> FALSE, load |-> "done", flush |-> "idle", got |-> [r \in Routines |-> 0],
   batch |-> {}, again |-> FALSE, timer |-> FALSE, online |-> FALSE, pokes |-> 0,
   stopped |-> FALSE]
OpenedPage == [ClosedPage EXCEPT !.open = TRUE, !.load = "check"]

QueueTypeOK ==
  /\ link \in BOOLEAN /\ server \in Servers
  /\ live \in 1..MaxGen /\ stamp \in Stamps
  /\ taken \in 0..MaxOps /\ queue \subseteq 1..taken
  /\ sent \subseteq Batches
  /\ decided \in [Ops -> Decisions \union {"none"}]
  /\ pages \in [Pages -> PageStates]

QueueInit ==
  /\ link = TRUE /\ server = "serving"
  /\ live = 1 /\ stamp = 0
  /\ taken = 0 /\ queue = {}
  /\ sent = {}
  /\ decided = [o \in Ops |-> "none"]
  /\ pages = [t \in Pages |-> ClosedPage]

\* Mutant of First: the queue is read in no particular order.
First_Any(o, S) == o \in S

\* o is the earliest capture of S.
First(o, S) == o \in S /\ \A p \in S : o <= p

-----------------------------------------------------------------------------
(* The network, the server and the office. *)

LinkDown ==
  /\ link
  /\ link' = FALSE
  /\ UNCHANGED <<server, storeVars, serverVars, pages>>

\* Every open page is sent the 'online' event.
LinkUp ==
  /\ ~link
  /\ link' = TRUE
  /\ pages' = [t \in Pages |-> [pages[t] EXCEPT !.online = @ \/ pages[t].open]]
  /\ UNCHANGED <<server, storeVars, serverVars>>

ServerTurns(s) ==
  /\ server # s
  /\ server' = s
  /\ UNCHANGED <<link, storeVars, serverVars, pages>>

OverrideCheckout ==
  /\ live < MaxGen
  /\ live' = live + 1
  /\ UNCHANGED <<networkVars, storeVars, sent, decided, pages>>

\* Mutant of Verdicts: "duplicate" passes for a decision.
Verdicts_Duplicate(s) ==
  IF s = live THEN {"applied", "rejected", "duplicate"} ELSE {"reconciliation"}

\* ReplayCaptureBatch decides a batch's operations in their order, each once.
Verdicts(s) == IF s = live THEN {"applied", "rejected"} ELSE {"reconciliation"}
Undecided(S) == {o \in S : decided[o] = "none"}
Replay(b) ==
  /\ \E o \in Ops, d \in Verdicts(b.stamp) :
       First(o, Undecided(b.ops)) /\ decided' = [decided EXCEPT ![o] = d]
  /\ UNCHANGED <<networkVars, storeVars, live, sent, pages>>

-----------------------------------------------------------------------------
(* flush() is called by four handlers. While it runs, a call only leaves a *)
(* note; it looks at the link before its first await.                      *)

Called(page) ==
  IF page.flush # "idle"
    THEN [page EXCEPT !.again = TRUE]
    ELSE [page EXCEPT !.flush = IF link THEN "read" ELSE "leaving", !.stopped = FALSE]

PageDoes(t, page) ==
  /\ pages' = [pages EXCEPT ![t] = page]
  /\ UNCHANGED <<networkVars, serverVars>>

\* The form's submit handler: the capture is stored before anything else.
Enqueue(t) ==
  /\ pages[t].open
  /\ taken < MaxOps
  /\ taken' = taken + 1
  /\ queue' = queue \union {taken'}
  /\ PageDoes(t, [pages[t] EXCEPT !.pokes = @ + 1])
  /\ UNCHANGED stamp

EnqueueFlushes(t) ==
  /\ pages[t].pokes > 0
  /\ PageDoes(t, Called([pages[t] EXCEPT !.pokes = @ - 1]))
  /\ UNCHANGED storeVars

OnlineEvent(t) ==
  /\ pages[t].online
  /\ PageDoes(t, Called([pages[t] EXCEPT !.online = FALSE]))
  /\ UNCHANGED storeVars

RetryTimer(t) ==
  /\ pages[t].timer
  /\ PageDoes(t, Called([pages[t] EXCEPT !.timer = FALSE]))
  /\ UNCHANGED storeVars

\* Mutant of LoadFlushes: the start-up function only stamps the page.
LoadFlushes_StampsOnly(t) ==
  /\ pages[t].load = "go"
  /\ PageDoes(t, [pages[t] EXCEPT !.load = "done"])
  /\ UNCHANGED storeVars

LoadFlushes(t) ==
  /\ pages[t].load = "go"
  /\ PageDoes(t, Called([pages[t] EXCEPT !.load = "done"]))
  /\ UNCHANGED storeVars

-----------------------------------------------------------------------------
(* ensureCheckout(), as the start-up function and flush() call it. *)

At(page, r) == IF r = "load" THEN page.load ELSE page.flush
Goto(page, r, step) ==
  IF r = "load" THEN [page EXCEPT !.load = step] ELSE [page EXCEPT !.flush = step]

\* What its caller does with the answer.
Ensured(page, r, ok) ==
  IF r = "load" THEN [page EXCEPT !.load = "go"]
  ELSE IF ok THEN [page EXCEPT !.flush = "stamp"]
  ELSE [page EXCEPT !.flush = "idle", !.timer = TRUE]

EnsureCheckout(t, r) ==
  /\ At(pages[t], r) = "check"
  /\ PageDoes(t, IF ~link THEN Ensured(pages[t], r, FALSE)
                 ELSE IF stamp # 0 /\ queue # {} THEN Ensured(pages[t], r, TRUE)
                 ELSE Goto(pages[t], r, "fetch"))
  /\ UNCHANGED storeVars

CheckoutGranted(t, r) ==
  /\ At(pages[t], r) = "fetch"
  /\ link /\ server = "serving"
  /\ PageDoes(t, Goto([pages[t] EXCEPT !.got[r] = live], r, "put"))
  /\ UNCHANGED storeVars

CheckoutFails(t, r) ==
  /\ At(pages[t], r) = "fetch"
  /\ ~link \/ server # "serving"
  /\ PageDoes(t, Ensured(pages[t], r, FALSE))
  /\ UNCHANGED storeVars

PutStamp(t, r) ==
  /\ At(pages[t], r) = "put"
  /\ stamp' = pages[t].got[r]
  /\ PageDoes(t, Ensured([pages[t] EXCEPT !.got[r] = 0], r, TRUE))
  /\ UNCHANGED <<queue, taken>>

-----------------------------------------------------------------------------
(* flush(), from its first await on. *)

FlushGoes(t, step) == PageDoes(t, [pages[t] EXCEPT !.flush = step])

ReadQueue(t) ==
  /\ pages[t].flush = "read"
  /\ PageDoes(t, [pages[t] EXCEPT !.flush = IF queue = {} THEN "idle" ELSE "stamp",
                                  !.batch = queue])
  /\ UNCHANGED storeVars

NoStampYet(t) ==
  /\ pages[t].flush = "stamp"
  /\ stamp = 0
  /\ FlushGoes(t, "check")
  /\ UNCHANGED storeVars

PostBatch(t) ==
  /\ pages[t].flush = "stamp"
  /\ stamp # 0
  /\ link
  /\ pages' = [pages EXCEPT ![t].flush = "wait"]
  /\ sent' = sent \union {[ops |-> pages[t].batch, stamp |-> stamp]}
  /\ UNCHANGED <<networkVars, storeVars, live, decided>>

\* 200: a result for every operation of the batch.
Answered(t) ==
  /\ pages[t].flush = "wait"
  /\ link /\ server = "serving"
  /\ Undecided(pages[t].batch) = {}
  /\ FlushGoes(t, "delete")
  /\ UNCHANGED storeVars

\* Mutant of Stopped: a batch the server refuses is given up.
Stopped_GivesUp(t) ==
  /\ pages[t].flush = "wait"
  /\ link /\ server = "refusing"
  /\ FlushGoes(t, "delete")
  /\ UNCHANGED storeVars

\* 401, 403 or another 4xx: the queue is left alone and nothing is retried.
Stopped(t) ==
  /\ pages[t].flush = "wait"
  /\ link /\ server = "refusing"
  /\ PageDoes(t, [pages[t] EXCEPT !.flush = "leaving", !.batch = {}, !.stopped = TRUE])
  /\ UNCHANGED storeVars

\* Mutant of Failed: no retry is scheduled.
Failed_NoRetry(t) ==
  /\ \/ pages[t].flush = "stamp" /\ stamp # 0 /\ ~link
     \/ pages[t].flush = "wait" /\ (~link \/ server = "failing")
  /\ PageDoes(t, [pages[t] EXCEPT !.flush = "leaving", !.batch = {}])
  /\ UNCHANGED storeVars

\* A 5xx, or no connection when the batch is sent or answered: scheduleRetry.
Failed(t) ==
  /\ \/ pages[t].flush = "stamp" /\ stamp # 0 /\ ~link
     \/ pages[t].flush = "wait" /\ (~link \/ server = "failing")
  /\ PageDoes(t, [pages[t] EXCEPT !.flush = "leaving", !.batch = {}, !.timer = TRUE])
  /\ UNCHANGED storeVars

\* Each result is handled in its turn, whatever its status.
DeleteOp(t) ==
  /\ pages[t].flush = "delete"
  /\ \E o \in Ops :
       /\ First(o, pages[t].batch)
       /\ queue' = queue \ {o}
       /\ PageDoes(t, [pages[t] EXCEPT !.batch = @ \ {o}])
  /\ UNCHANGED <<stamp, taken>>

\* Mutant of FlushDone: the note is cleared and not acted on.
FlushDone_Forgets(t) ==
  /\ pages[t].flush = "delete"
  /\ pages[t].batch = {}
  /\ PageDoes(t, [pages[t] EXCEPT !.flush = "idle", !.again = FALSE])
  /\ UNCHANGED storeVars

\* The note is read on the normal way out only ...
FlushDone(t) ==
  /\ pages[t].flush = "delete"
  /\ pages[t].batch = {}
  /\ LET idle == [pages[t] EXCEPT !.flush = "idle"]
     IN PageDoes(t, IF idle.again THEN Called([idle EXCEPT !.again = FALSE]) ELSE idle)
  /\ UNCHANGED storeVars

\* ... the early returns, which await the indicator first, pass it by.
Leave(t) ==
  /\ pages[t].flush = "leaving"
  /\ FlushGoes(t, "idle")
  /\ UNCHANGED storeVars

-----------------------------------------------------------------------------
(* A page is opened, or goes away with all it had in memory: closed,        *)
(* reloaded, crashed, the device switched off.                              *)
OpenPage(t) ==
  /\ ~pages[t].open
  /\ PageDoes(t, OpenedPage)
  /\ UNCHANGED storeVars

ClosePage(t) ==
  /\ pages[t].open
  /\ PageDoes(t, ClosedPage)
  /\ UNCHANGED storeVars

EnsureStep(t, r) ==
  EnsureCheckout(t, r) \/ CheckoutGranted(t, r) \/ CheckoutFails(t, r) \/ PutStamp(t, r)
LoadStep(t) == EnsureStep(t, "load") \/ LoadFlushes(t)
FlushStep(t) ==
  \/ EnsureStep(t, "flush")
  \/ ReadQueue(t) \/ NoStampYet(t) \/ PostBatch(t)
  \/ Answered(t) \/ Stopped(t) \/ Failed(t)
  \/ DeleteOp(t) \/ FlushDone(t) \/ Leave(t)

QueueNext ==
  \/ LinkDown \/ LinkUp \/ OverrideCheckout
  \/ \E s \in Servers : ServerTurns(s)
  \/ \E b \in sent : Replay(b)
  \/ \E t \in Pages :
       \/ OpenPage(t) \/ ClosePage(t)
       \/ Enqueue(t) \/ EnqueueFlushes(t) \/ OnlineEvent(t) \/ RetryTimer(t)
       \/ LoadStep(t) \/ FlushStep(t)

QueueSpec == QueueInit /\ [][QueueNext]_vars

\* The browser runs every ready handler, a timer fires, a request the server
\* answers is answered, and the server works off the batch a page waits for.
ReplayFor(t) ==
  pages[t].flush = "wait" /\ \E b \in sent : b.ops = pages[t].batch /\ Replay(b)
FairQueueSpec ==
  /\ QueueSpec
  /\ \A t \in Pages :
       /\ WF_vars(LoadStep(t)) /\ WF_vars(FlushStep(t)) /\ WF_vars(ReplayFor(t))
       /\ WF_vars(EnqueueFlushes(t)) /\ WF_vars(OnlineEvent(t)) /\ WF_vars(RetryTimer(t))

-----------------------------------------------------------------------------
(* What the device promises. *)

\* The queue implements CaptureDelivery: whichever page is closed when, and
\* whatever becomes of a request, a capture leaves the queue decided.
Delivery == INSTANCE CaptureDelivery WITH
  held <- queue, decision <- decided, Decided <- Decisions, Pending <- "none"
QueueImplementsDelivery == Delivery!DeliverySpec

\* Captures are decided in the order they were made (UC-034 #2), across lost
\* answers, requests that outlive their page, and pages that flush at once.
DecidedInOrder ==
  \A o, p \in 1..taken : o < p /\ decided[p] # "none" => decided[o] # "none"

Quiet(t) ==
  /\ pages[t].open /\ pages[t].load = "done" /\ pages[t].flush = "idle"
  /\ ~pages[t].timer /\ ~pages[t].online /\ pages[t].pokes = 0

\* With one page on the unit: when it is online and has nothing left to run,
\* its queue is empty, unless the server refused the last batch or flushAgain
\* was passed by. No other path through flush() forgets a queued capture.
QuietMeansDrained ==
  \A t \in Pages :
    Quiet(t) /\ link /\ queue # {} => pages[t].stopped \/ pages[t].again

Good(t) == link /\ server = "serving" /\ pages[t].open

\* Once the network and the server stay good, an open page drains the queue
\* by itself, with the same two exceptions.
Drains ==
  \A t \in Pages :
    <>[]Good(t) => []<>(queue = {} \/ (Quiet(t) /\ (pages[t].stopped \/ pages[t].again)))

\* Opening the page anew drains the queue whatever happened before: an
\* expired session, a refused batch, a forgotten wake-up (UC-040 #4).
ReopeningDrains ==
  \A t \in Pages :
    []( pages[t] = OpenedPage /\ []Good(t) => <>(queue = {}) )

-----------------------------------------------------------------------------
(* Sentences of the repository that the code does not keep (see the README's  *)
(* findings): each is checked by a run that ends in a counterexample.         *)

\* UC-034 #2: once connectivity returns the queued captures are submitted
\* "automatically ... with no operator action". A wake-up that arrives while
\* flush() is leaving is forgotten.
DrainsUnaided ==
  \A t \in Pages : <>[]Good(t) => []<>(queue = {} \/ pages[t].stopped)

\* "Never re-stamp while captures are queued: a queued op must replay under the
\* stamp it was captured with." The start-up function looks at the queue before
\* it asks for a new stamp, and stores the answer after.
NeverRestampsQueued ==
  [][ stamp # 0 /\ stamp' # stamp => queue = {} ]_vars
=============================================================================
