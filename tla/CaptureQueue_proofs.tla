------------------------ MODULE CaptureQueue_proofs ------------------------
(***************************************************************************)
(* Proofs about CaptureQueue, for every number of pages, captures and      *)
(* checkout generations.                                                   *)
(***************************************************************************)
EXTENDS CaptureQueue, TLAPS

-----------------------------------------------------------------------------
(* Types. *)

\* Records of the module's shape are pages, and calling flush() keeps them so.
LEMMA PageTyped ==
  /\ ClosedPage \in PageStates /\ OpenedPage \in PageStates
  /\ \A page \in PageStates :
       /\ Called(page) \in PageStates
       /\ \A r \in Routines, ok \in BOOLEAN : Ensured(page, r, ok) \in PageStates
<1>0. ClosedPage \in PageStates
  <2>1. [r \in Routines |-> 0] \in [Routines -> Stamps]
    BY BoundsAssumption DEF Stamps
  <2> QED BY <2>1 DEF ClosedPage, PageStates, LoadSteps, FlushSteps
<1>1. ClosedPage \in PageStates /\ OpenedPage \in PageStates
  BY <1>0 DEF OpenedPage, PageStates, LoadSteps
<1>2. ASSUME NEW page \in PageStates PROVE Called(page) \in PageStates
  BY <1>2 DEF Called, PageStates, FlushSteps
<1>3. ASSUME NEW page \in PageStates, NEW r \in Routines, NEW ok \in BOOLEAN
      PROVE  Ensured(page, r, ok) \in PageStates
  BY <1>3 DEF Ensured, PageStates, FlushSteps, LoadSteps
<1> QED BY <1>1, <1>2, <1>3

LEMMA QueueInitTyped == QueueInit => QueueTypeOK
BY PageTyped, BoundsAssumption, ServersAssumption
   DEF QueueInit, QueueTypeOK, Stamps, Ops, Decisions

\* A page's state changes to another page state, the other pages keep theirs.
LEMMA PageReplaced ==
  ASSUME QueueTypeOK, NEW t \in Pages, NEW page \in PageStates,
         pages' = [pages EXCEPT ![t] = page]
  PROVE  /\ pages' \in [Pages -> PageStates]
         /\ pages'[t] = page
         /\ \A u \in Pages \ {t} : pages'[u] = pages[u]
BY DEF QueueTypeOK

\* Storing and taking a checkout answer touches nothing else of a page.
LEMMA GotTyped ==
  ASSUME NEW p \in PageStates, NEW r \in Routines, NEW g \in Stamps,
         NEW q, q = p \/ q = [p EXCEPT !.got[r] = g]
  PROVE  /\ q \in PageStates
         /\ q.open = p.open /\ q.load = p.load /\ q.flush = p.flush
         /\ q.batch = p.batch /\ q.again = p.again /\ q.timer = p.timer
         /\ q.online = p.online /\ q.pokes = p.pokes /\ q.stopped = p.stopped
BY DEF PageStates

\* What a step of ensureCheckout may make of page p.
EnsureMakes(p, q, r) ==
  /\ q \in PageStates
  /\ q.open = p.open /\ q.batch = p.batch /\ q.again = p.again
  /\ q.online = p.online /\ q.pokes = p.pokes /\ q.stopped = p.stopped
  /\ \/ /\ r = "load" /\ p.load # "done" /\ q.load # "done"
        /\ q.flush = p.flush /\ q.timer = p.timer
     \/ /\ r = "flush" /\ p.flush \in {"check", "fetch", "put"} /\ q.load = p.load
        /\ \/ q.flush \in {"stamp", "fetch", "put"} /\ q.timer = p.timer
           \/ q.flush = "idle" /\ q.timer

LEMMA EnsureTyped ==
  ASSUME QueueTypeOK, NEW t \in Pages, NEW r \in Routines, EnsureStep(t, r)
  PROVE  /\ \E q \in PageStates :
              pages' = [pages EXCEPT ![t] = q] /\ EnsureMakes(pages[t], q, r)
         /\ stamp' \in Stamps
         /\ UNCHANGED <<networkVars, serverVars, queue, taken>>
<1> DEFINE p == pages[t]
<1>0. p \in PageStates /\ stamp \in Stamps /\ live \in Stamps /\ p.got[r] \in Stamps /\ 0 \in Stamps
  BY BoundsAssumption DEF QueueTypeOK, Stamps, PageStates
<1>r. r = "load" \/ r = "flush"
  BY DEF Routines
<1>s. At(p, r) \in {"check", "fetch", "put"}
  BY DEF EnsureStep, EnsureCheckout, CheckoutGranted, CheckoutFails, PutStamp
<1>1. ASSUME NEW q \in PageStates, NEW g \in Stamps, NEW ok \in BOOLEAN,
             q = p \/ q = [p EXCEPT !.got[r] = g]
      PROVE  EnsureMakes(p, Ensured(q, r, ok), r)
  <2> HIDE DEF p
  <2>1. /\ q.open = p.open /\ q.load = p.load /\ q.flush = p.flush
        /\ q.batch = p.batch /\ q.again = p.again /\ q.timer = p.timer
        /\ q.online = p.online /\ q.pokes = p.pokes /\ q.stopped = p.stopped
    BY <1>0, <1>1, GotTyped
  <2>2. Ensured(q, r, ok) \in PageStates
    BY PageTyped
  <2>3. CASE r = "load"
    BY <1>s, <2>1, <2>2, <2>3 DEF Ensured, EnsureMakes, PageStates, At
  <2>4. CASE r = "flush"
    BY <1>s, <2>1, <2>2, <2>4 DEF Ensured, EnsureMakes, PageStates, At
  <2> QED BY <1>r, <2>3, <2>4
<1>2. ASSUME NEW q \in PageStates, NEW g \in Stamps, NEW step \in {"fetch", "put"},
             q = p \/ q = [p EXCEPT !.got[r] = g]
      PROVE  EnsureMakes(p, Goto(q, r, step), r)
  <2> HIDE DEF p
  <2>1. /\ q.open = p.open /\ q.load = p.load /\ q.flush = p.flush
        /\ q.batch = p.batch /\ q.again = p.again /\ q.timer = p.timer
        /\ q.online = p.online /\ q.pokes = p.pokes /\ q.stopped = p.stopped
    BY <1>0, <1>2, GotTyped
  <2>2. CASE r = "load"
    BY <1>s, <2>1, <2>2 DEF Goto, EnsureMakes, PageStates, LoadSteps, At
  <2>3. CASE r = "flush"
    BY <1>s, <2>1, <2>3 DEF Goto, EnsureMakes, PageStates, FlushSteps, At
  <2> QED BY <1>r, <2>2, <2>3
<1>3. \A g \in Stamps : [p EXCEPT !.got[r] = g] \in PageStates
  BY <1>0, GotTyped
<1>4. stamp' \in Stamps /\ UNCHANGED <<networkVars, serverVars, queue, taken>>
  BY <1>0 DEF EnsureStep, EnsureCheckout, CheckoutGranted, CheckoutFails, PutStamp,
              PageDoes, storeVars
<1>5. \/ \E ok \in BOOLEAN : pages' = [pages EXCEPT ![t] = Ensured(p, r, ok)]
      \/ pages' = [pages EXCEPT ![t] = Ensured([p EXCEPT !.got[r] = 0], r, TRUE)]
      \/ pages' = [pages EXCEPT ![t] = Goto(p, r, "fetch")]
      \/ pages' = [pages EXCEPT ![t] = Goto([p EXCEPT !.got[r] = live], r, "put")]
  BY DEF EnsureStep, EnsureCheckout, CheckoutGranted, CheckoutFails, PutStamp, PageDoes
<1>6. \A q : EnsureMakes(p, q, r) => q \in PageStates
  BY DEF EnsureMakes
<1> HIDE DEF p
<1>7. \E q \in PageStates : pages' = [pages EXCEPT ![t] = q] /\ EnsureMakes(p, q, r)
  <2>1. CASE \E ok \in BOOLEAN : pages' = [pages EXCEPT ![t] = Ensured(p, r, ok)]
    BY <1>0, <1>1, <1>6, <2>1
  <2>2. CASE pages' = [pages EXCEPT ![t] = Ensured([p EXCEPT !.got[r] = 0], r, TRUE)]
    BY <1>0, <1>1, <1>3, <1>6, <2>2
  <2>3. CASE pages' = [pages EXCEPT ![t] = Goto(p, r, "fetch")]
    BY <1>0, <1>2, <1>6, <2>3
  <2>4. CASE pages' = [pages EXCEPT ![t] = Goto([p EXCEPT !.got[r] = live], r, "put")]
    BY <1>0, <1>2, <1>3, <1>6, <2>4
  <2> QED BY <1>5, <2>1, <2>2, <2>3, <2>4
<1> QED BY <1>4, <1>7 DEF p

\* One page changes to another page state; of the stores, at most the stamp,
\* the queue and the captures change with it.
LEMMA PageKeepsTypes ==
  ASSUME QueueTypeOK, NEW t \in Pages, NEW q \in PageStates,
         pages' = [pages EXCEPT ![t] = q],
         UNCHANGED <<link, server, live, sent, decided>>,
         stamp' \in Stamps, taken' \in 0..MaxOps, queue' \subseteq 1..taken'
  PROVE  QueueTypeOK'
BY PageReplaced DEF QueueTypeOK

LEMMA QueueTypeStep ==
  ASSUME QueueTypeOK, [QueueNext]_vars
  PROVE  QueueTypeOK'
<1> USE BoundsAssumption
<1>1. CASE UNCHANGED vars
  BY <1>1 DEF vars, networkVars, storeVars, serverVars, QueueTypeOK
<1>2. CASE LinkDown \/ OverrideCheckout \/ \E s \in Servers : ServerTurns(s)
  <2>1. CASE LinkDown
    BY <2>1 DEF LinkDown, storeVars, serverVars, QueueTypeOK
  <2>2. CASE OverrideCheckout
    BY <2>2 DEF OverrideCheckout, storeVars, networkVars, QueueTypeOK
  <2>3. CASE \E s \in Servers : ServerTurns(s)
    BY <2>3 DEF ServerTurns, storeVars, serverVars, QueueTypeOK
  <2> QED BY <1>2, <2>1, <2>2, <2>3
<1>3. CASE LinkUp
  <2>1. \A t \in Pages : [pages[t] EXCEPT !.online = @ \/ pages[t].open] \in PageStates
    BY DEF QueueTypeOK, PageStates
  <2>2. pages' \in [Pages -> PageStates]
    BY <1>3, <2>1 DEF LinkUp
  <2> QED BY <1>3, <2>2 DEF LinkUp, storeVars, serverVars, QueueTypeOK
<1>4. ASSUME NEW b \in sent, Replay(b) PROVE QueueTypeOK'
  BY <1>4 DEF Replay, Verdicts, Decisions, networkVars, storeVars, QueueTypeOK
<1>5. ASSUME NEW t \in Pages, OpenPage(t) \/ ClosePage(t) PROVE QueueTypeOK'
  <2>1. PICK q \in PageStates : PageDoes(t, q) /\ UNCHANGED storeVars
    BY <1>5, PageTyped DEF OpenPage, ClosePage
  <2> QED BY <2>1, PageKeepsTypes DEF PageDoes, networkVars, storeVars, serverVars, QueueTypeOK
<1>6. ASSUME NEW t \in Pages, Enqueue(t) PROVE QueueTypeOK'
  <2>1. taken' \in 0..MaxOps /\ queue' \subseteq 1..taken'
    BY <1>6 DEF Enqueue, QueueTypeOK
  <2>2. [pages[t] EXCEPT !.pokes = @ + 1] \in PageStates
    BY DEF QueueTypeOK, PageStates
  <2> QED BY <1>6, <2>1, <2>2, PageKeepsTypes
          DEF Enqueue, PageDoes, networkVars, serverVars, QueueTypeOK
<1>7. ASSUME NEW t \in Pages,
             EnqueueFlushes(t) \/ OnlineEvent(t) \/ RetryTimer(t) \/ LoadFlushes(t)
      PROVE  QueueTypeOK'
  <2>0. pages[t] \in PageStates
    BY DEF QueueTypeOK
  <2>1. PICK p \in PageStates : PageDoes(t, Called(p)) /\ UNCHANGED storeVars
    <3>1. CASE EnqueueFlushes(t)
      <4>1. [pages[t] EXCEPT !.pokes = @ - 1] \in PageStates
        BY <2>0, <3>1 DEF EnqueueFlushes, PageStates
      <4> QED BY <3>1, <4>1 DEF EnqueueFlushes
    <3>2. CASE OnlineEvent(t)
      <4>1. [pages[t] EXCEPT !.online = FALSE] \in PageStates
        BY <2>0 DEF PageStates
      <4> QED BY <3>2, <4>1 DEF OnlineEvent
    <3>3. CASE RetryTimer(t)
      <4>1. [pages[t] EXCEPT !.timer = FALSE] \in PageStates
        BY <2>0 DEF PageStates
      <4> QED BY <3>3, <4>1 DEF RetryTimer
    <3>4. CASE LoadFlushes(t)
      <4>1. [pages[t] EXCEPT !.load = "done"] \in PageStates
        BY <2>0 DEF PageStates, LoadSteps
      <4> QED BY <3>4, <4>1 DEF LoadFlushes
    <3> QED BY <1>7, <3>1, <3>2, <3>3, <3>4
  <2> QED BY <2>1, PageTyped, PageKeepsTypes
          DEF PageDoes, networkVars, storeVars, serverVars, QueueTypeOK
<1>8. ASSUME NEW t \in Pages, NEW r \in Routines, EnsureStep(t, r) PROVE QueueTypeOK'
  BY <1>8, EnsureTyped, PageKeepsTypes DEF networkVars, serverVars, QueueTypeOK
<1>9. ASSUME NEW t \in Pages, ReadQueue(t) \/ NoStampYet(t) \/ Answered(t) \/ Stopped(t)
                              \/ Failed(t) \/ Leave(t) \/ FlushDone(t)
      PROVE  QueueTypeOK'
  <2>0. pages[t] \in PageStates /\ queue \subseteq Ops
    BY DEF QueueTypeOK, Ops
  <2>1. PICK q \in PageStates : PageDoes(t, q) /\ UNCHANGED storeVars
    <3>1. CASE ReadQueue(t)
      <4>1. [pages[t] EXCEPT !.flush = IF queue = {} THEN "idle" ELSE "stamp", !.batch = queue]
              \in PageStates
        BY <2>0 DEF PageStates, FlushSteps
      <4> QED BY <3>1, <4>1 DEF ReadQueue
    <3>2. CASE NoStampYet(t) \/ Answered(t) \/ Leave(t)
      <4>1. \A step \in FlushSteps : [pages[t] EXCEPT !.flush = step] \in PageStates
        BY <2>0 DEF PageStates
      <4> QED BY <3>2, <4>1 DEF NoStampYet, Answered, Leave, FlushGoes, FlushSteps
    <3>3. CASE Stopped(t)
      <4>1. [pages[t] EXCEPT !.flush = "leaving", !.batch = {}, !.stopped = TRUE] \in PageStates
        BY <2>0 DEF PageStates, FlushSteps
      <4> QED BY <3>3, <4>1 DEF Stopped
    <3>4. CASE Failed(t)
      <4>1. [pages[t] EXCEPT !.flush = "leaving", !.batch = {}, !.timer = TRUE] \in PageStates
        BY <2>0 DEF PageStates, FlushSteps
      <4> QED BY <3>4, <4>1 DEF Failed
    <3>5. CASE FlushDone(t)
      <4> DEFINE idle == [pages[t] EXCEPT !.flush = "idle"]
      <4>1. idle \in PageStates /\ [idle EXCEPT !.again = FALSE] \in PageStates
        BY <2>0 DEF PageStates, FlushSteps
      <4>2. Called([idle EXCEPT !.again = FALSE]) \in PageStates
        BY <4>1, PageTyped
      <4> HIDE DEF idle
      <4>3. (IF idle.again THEN Called([idle EXCEPT !.again = FALSE]) ELSE idle) \in PageStates
        BY <4>1, <4>2
      <4> QED BY <3>5, <4>3 DEF FlushDone, idle
    <3> QED BY <1>9, <3>1, <3>2, <3>3, <3>4, <3>5
  <2> QED BY <2>1, PageKeepsTypes DEF PageDoes, networkVars, storeVars, serverVars, QueueTypeOK
<1>10. ASSUME NEW t \in Pages, PostBatch(t) PROVE QueueTypeOK'
  <2>1. [pages[t] EXCEPT !.flush = "wait"] \in PageStates /\ pages[t].batch \subseteq Ops
    BY DEF QueueTypeOK, PageStates, FlushSteps
  <2> QED BY <1>10, <2>1, PageReplaced
          DEF PostBatch, Batches, networkVars, storeVars, QueueTypeOK
<1>11. ASSUME NEW t \in Pages, DeleteOp(t) PROVE QueueTypeOK'
  <2>1. PICK o \in Ops : /\ queue' = queue \ {o}
                         /\ PageDoes(t, [pages[t] EXCEPT !.batch = @ \ {o}])
    BY <1>11 DEF DeleteOp
  <2>2. [pages[t] EXCEPT !.batch = @ \ {o}] \in PageStates
    BY DEF QueueTypeOK, PageStates
  <2> QED BY <1>11, <2>1, <2>2, PageKeepsTypes
          DEF DeleteOp, PageDoes, networkVars, serverVars, QueueTypeOK
<1> QED
  BY <1>1, <1>2, <1>3, <1>4, <1>5, <1>6, <1>7, <1>8, <1>9, <1>10, <1>11
     DEF QueueNext, LoadStep, FlushStep, Routines

\* The type invariant, for every number of pages and captures.
THEOREM QueueTypeCorrect == QueueSpec => []QueueTypeOK
<1>1. QueueTypeOK /\ [QueueNext]_vars => QueueTypeOK'
  BY QueueTypeStep
<1> QED BY <1>1, QueueInitTyped, PTL DEF QueueSpec

-----------------------------------------------------------------------------
(* A capture is in the queue or decided, and whatever a page or the server   *)
(* works on is an initial part of the undecided captures.                    *)

\* S lacks no capture made before one of its members that is not decided.
Whole(S) ==
  /\ S \subseteq 1..taken
  /\ \A p \in S, o \in 1..taken : o < p => o \in S \/ decided[o] # "none"

KeptInv ==
  /\ \A o \in Ops : o > taken => decided[o] = "none"
  /\ \A o \in 1..taken : o \in queue \/ decided[o] # "none"
  /\ \A b \in sent : Whole(b.ops)
  /\ \A t \in Pages : Whole(pages[t].batch)
  /\ \A t \in Pages : pages[t].flush = "delete" => Undecided(pages[t].batch) = {}
  /\ DecidedInOrder

\* Calling flush(), like ensureCheckout, leaves the batch alone.
LEMMA CalledKeeps ==
  ASSUME NEW p \in PageStates
  PROVE  LET q == Called(p)
         IN /\ q.batch = p.batch /\ q.open = p.open /\ q.load = p.load
            /\ q.timer = p.timer /\ q.online = p.online /\ q.pokes = p.pokes
            /\ \/ p.flush # "idle" /\ q.flush = p.flush /\ q.again /\ q.stopped = p.stopped
               \/ p.flush = "idle" /\ link /\ q.flush = "read" /\ q.again = p.again
               \/ p.flush = "idle" /\ ~link /\ q.flush = "leaving" /\ q.again = p.again
BY DEF Called, PageStates

\* The steps of a page that neither store nor delete a capture nor send a batch.
QuietStep(t) ==
  \/ OpenPage(t) \/ ClosePage(t)
  \/ EnqueueFlushes(t) \/ OnlineEvent(t) \/ RetryTimer(t) \/ LoadFlushes(t)
  \/ EnsureStep(t, "load") \/ EnsureStep(t, "flush")
  \/ ReadQueue(t) \/ NoStampYet(t) \/ Answered(t) \/ Stopped(t) \/ Failed(t)
  \/ Leave(t) \/ FlushDone(t)

LEMMA QuietSteps ==
  ASSUME QueueTypeOK, NEW t \in Pages, QuietStep(t)
  PROVE  /\ UNCHANGED <<queue, taken, sent, decided>>
         /\ \E q \in PageStates :
              /\ pages' = [pages EXCEPT ![t] = q]
              /\ q.batch \in {pages[t].batch, {}, queue}
              /\ q.flush = "delete" =>
                   /\ q.batch = pages[t].batch
                   /\ pages[t].flush = "delete" \/ Undecided(pages[t].batch) = {}
<1> DEFINE p == pages[t]
<1>0. p \in PageStates /\ queue \subseteq Ops
  BY BoundsAssumption DEF QueueTypeOK, Ops
<1>1. CASE OpenPage(t) \/ ClosePage(t)
  <2>1. /\ ClosedPage.batch = {} /\ ClosedPage.flush = "idle"
        /\ OpenedPage.batch = {} /\ OpenedPage.flush = "idle"
    BY DEF ClosedPage, OpenedPage
  <2>2. PICK q \in {ClosedPage, OpenedPage} : PageDoes(t, q) /\ UNCHANGED storeVars
    BY <1>1 DEF OpenPage, ClosePage
  <2> QED BY <2>1, <2>2, PageTyped DEF PageDoes, storeVars, serverVars
<1>2. CASE EnqueueFlushes(t) \/ OnlineEvent(t) \/ RetryTimer(t) \/ LoadFlushes(t)
  <2>1. PICK q \in PageStates :
          /\ q.batch = p.batch /\ q.flush = p.flush
          /\ PageDoes(t, Called(q)) /\ UNCHANGED storeVars
    <3>1. CASE EnqueueFlushes(t)
      <4>1. [p EXCEPT !.pokes = @ - 1] \in PageStates
        BY <1>0, <3>1 DEF EnqueueFlushes, PageStates
      <4> QED BY <1>0, <3>1, <4>1 DEF EnqueueFlushes, PageStates
    <3>2. CASE OnlineEvent(t)
      <4>1. [p EXCEPT !.online = FALSE] \in PageStates
        BY <1>0 DEF PageStates
      <4> QED BY <1>0, <3>2, <4>1 DEF OnlineEvent, PageStates
    <3>3. CASE RetryTimer(t)
      <4>1. [p EXCEPT !.timer = FALSE] \in PageStates
        BY <1>0 DEF PageStates
      <4> QED BY <1>0, <3>3, <4>1 DEF RetryTimer, PageStates
    <3>4. CASE LoadFlushes(t)
      <4>1. [p EXCEPT !.load = "done"] \in PageStates
        BY <1>0 DEF PageStates, LoadSteps
      <4> QED BY <1>0, <3>4, <4>1 DEF LoadFlushes, PageStates
    <3> QED BY <1>2, <3>1, <3>2, <3>3, <3>4
  <2>2. /\ Called(q) \in PageStates /\ Called(q).batch = p.batch
        /\ Called(q).flush = "delete" => p.flush = "delete"
    BY <2>1, PageTyped, CalledKeeps
  <2> QED BY <2>1, <2>2 DEF PageDoes, storeVars, serverVars
<1>3. CASE EnsureStep(t, "load") \/ EnsureStep(t, "flush")
  <2>1. PICK r \in Routines : EnsureStep(t, r)
    BY <1>3 DEF Routines
  <2> QED BY <2>1, EnsureTyped DEF EnsureMakes, serverVars
<1>4. CASE ReadQueue(t)
  <2> DEFINE q == [p EXCEPT !.flush = IF queue = {} THEN "idle" ELSE "stamp", !.batch = queue]
  <2>1. q \in PageStates /\ q.batch = queue /\ q.flush # "delete"
    BY <1>0 DEF PageStates, FlushSteps
  <2> QED BY <1>4, <2>1 DEF ReadQueue, PageDoes, storeVars, serverVars
<1>5. CASE NoStampYet(t) \/ Answered(t) \/ Leave(t)
  <2>1. PICK step \in FlushSteps :
          /\ FlushGoes(t, step) /\ UNCHANGED storeVars
          /\ step = "delete" => Undecided(p.batch) = {}
    BY <1>5 DEF NoStampYet, Answered, Leave, FlushSteps
  <2> DEFINE q == [p EXCEPT !.flush = step]
  <2>2. q \in PageStates /\ q.batch = p.batch /\ q.flush = step
    BY <1>0 DEF PageStates
  <2> QED BY <2>1, <2>2 DEF FlushGoes, PageDoes, storeVars, serverVars
<1>6. CASE Stopped(t)
  <2> DEFINE q == [p EXCEPT !.flush = "leaving", !.batch = {}, !.stopped = TRUE]
  <2>1. q \in PageStates /\ q.batch = {} /\ q.flush # "delete"
    BY <1>0 DEF PageStates, FlushSteps
  <2> QED BY <1>6, <2>1 DEF Stopped, PageDoes, storeVars, serverVars
<1>7. CASE Failed(t)
  <2> DEFINE q == [p EXCEPT !.flush = "leaving", !.batch = {}, !.timer = TRUE]
  <2>1. q \in PageStates /\ q.batch = {} /\ q.flush # "delete"
    BY <1>0 DEF PageStates, FlushSteps
  <2> QED BY <1>7, <2>1 DEF Failed, PageDoes, storeVars, serverVars
<1>8. CASE FlushDone(t)
  <2> DEFINE idle == [p EXCEPT !.flush = "idle"]
             rest == [idle EXCEPT !.again = FALSE]
  <2>1. /\ idle \in PageStates /\ idle.batch = p.batch /\ idle.flush = "idle"
        /\ rest \in PageStates /\ rest.batch = p.batch /\ rest.flush = "idle"
    BY <1>0 DEF PageStates, FlushSteps
  <2>2. PageDoes(t, IF idle.again THEN Called(rest) ELSE idle) /\ UNCHANGED storeVars
    BY <1>8 DEF FlushDone
  <2> HIDE DEF idle, rest
  <2>3. Called(rest) \in PageStates /\ Called(rest).batch = p.batch /\ Called(rest).flush # "delete"
    BY <2>1, PageTyped, CalledKeeps
  <2>4. PICK q \in PageStates : PageDoes(t, q) /\ q.batch = p.batch /\ q.flush # "delete"
    BY <2>1, <2>2, <2>3
  <2> QED BY <2>2, <2>4 DEF PageDoes, storeVars, serverVars
<1> QED BY <1>1, <1>2, <1>3, <1>4, <1>5, <1>6, <1>7, <1>8 DEF QuietStep

LEMMA KeptStep ==
  ASSUME QueueTypeOK, KeptInv, [QueueNext]_vars
  PROVE  KeptInv'
<1>0. /\ taken \in 0..MaxOps /\ queue \subseteq 1..taken /\ sent \subseteq Batches
      /\ decided \in [Ops -> Decisions \union {"none"}]
      /\ pages \in [Pages -> PageStates]
      /\ \A t \in Pages : pages[t].batch \subseteq Ops
  BY DEF QueueTypeOK, PageStates
<1> USE BoundsAssumption
<1>1. Whole(queue) /\ Whole({})
  BY <1>0 DEF KeptInv, Whole
<1>2. ASSUME UNCHANGED <<queue, taken, sent, decided, pages>> PROVE KeptInv'
  <2>1. \A S : Whole(S)' <=> Whole(S)
    BY <1>2 DEF Whole
  <2>2. \A S : Undecided(S)' = Undecided(S)
    BY <1>2 DEF Undecided
  <2> QED BY <1>2, <2>1, <2>2 DEF KeptInv, DecidedInOrder
<1>3. CASE LinkUp
  <2>1. \A t \in Pages : pages'[t].batch = pages[t].batch /\ pages'[t].flush = pages[t].flush
    BY <1>0, <1>3 DEF LinkUp, PageStates
  <2> QED BY <1>3, <2>1 DEF LinkUp, storeVars, serverVars, KeptInv, Whole, DecidedInOrder, Undecided
<1>4. ASSUME NEW b \in sent, Replay(b) PROVE KeptInv'
  <2>1. PICK o \in Ops, d \in Decisions :
          First(o, Undecided(b.ops)) /\ decided' = [decided EXCEPT ![o] = d]
    BY <1>4 DEF Replay, Verdicts, Decisions
  <2>2. /\ UNCHANGED <<queue, taken, sent, pages>> /\ d # "none"
        /\ o \in 1..taken /\ decided'[o] = d
        /\ \A p \in Ops \ {o} : decided'[p] = decided[p]
        /\ Whole(b.ops)
    BY <1>0, <1>4, <2>1 DEF Replay, storeVars, First, Undecided, KeptInv, Whole, Decisions
  <2>3. \A p \in Ops : decided[p] # "none" => decided'[p] # "none"
    BY <2>2
  <2>4. \A p \in 1..taken : p < o => decided[p] # "none"
    BY <1>0, <2>1, <2>2 DEF Whole, First, Undecided, Ops
  <2>5. DecidedInOrder'
    BY <1>0, <2>2, <2>3, <2>4 DEF DecidedInOrder, KeptInv, Ops
  <2>6. \A S \in SUBSET Ops : Whole(S) => Whole(S)'
    BY <1>0, <2>2, <2>3 DEF Whole, Ops
  <2>7. \A p \in Ops : p > taken => decided'[p] = "none"
    BY <1>0, <2>2 DEF KeptInv, Ops
  <2>8. \A S \in SUBSET Ops : Undecided(S) = {} => Undecided(S)' = {}
    BY <2>3 DEF Undecided
  <2>9. \A c \in sent : c.ops \in SUBSET Ops
    BY <1>0 DEF Batches
  <2> QED BY <1>0, <2>2, <2>3, <2>5, <2>6, <2>7, <2>8, <2>9 DEF KeptInv, Ops
<1>5. ASSUME NEW t \in Pages, Enqueue(t) PROVE KeptInv'
  <2>1. /\ taken' = taken + 1 /\ queue' = queue \union {taken'} /\ UNCHANGED <<sent, decided>>
        /\ taken' \in Ops
    BY <1>0, <1>5 DEF Enqueue, PageDoes, serverVars, Ops
  <2>2. \A u \in Pages : pages'[u].batch = pages[u].batch /\ pages'[u].flush = pages[u].flush
    BY <1>0, <1>5 DEF Enqueue, PageDoes, PageStates
  <2>3. \A S \in SUBSET Ops : Whole(S) => Whole(S)'
    BY <1>0, <2>1 DEF Whole, Ops
  <2>4. DecidedInOrder'
    BY <1>0, <2>1 DEF DecidedInOrder, KeptInv, Ops
  <2>5. \A c \in sent : c.ops \in SUBSET Ops
    BY <1>0 DEF Batches
  <2>6. /\ \A o \in Ops : o > taken' => decided'[o] = "none"
        /\ \A o \in 1..taken' : o \in queue' \/ decided'[o] # "none"
    BY <1>0, <2>1 DEF KeptInv, Ops
  <2>7. \A S \in SUBSET Ops : Undecided(S) = {} => Undecided(S)' = {}
    BY <2>1 DEF Undecided
  <2> QED BY <1>0, <2>1, <2>2, <2>3, <2>4, <2>5, <2>6, <2>7 DEF KeptInv
<1>6. ASSUME NEW t \in Pages, PostBatch(t) PROVE KeptInv'
  <2>1. /\ UNCHANGED <<queue, taken, decided>>
        /\ sent' = sent \union {[ops |-> pages[t].batch, stamp |-> stamp]}
        /\ \A u \in Pages : /\ pages'[u].batch = pages[u].batch
                            /\ pages'[u].flush = "delete" => pages[u].flush = "delete"
    BY <1>0, <1>6 DEF PostBatch, storeVars, PageStates
  <2>2. \A b \in sent' : Whole(b.ops)
    BY <2>1 DEF KeptInv
  <2> QED BY <2>1, <2>2 DEF KeptInv, Whole, DecidedInOrder, Undecided
<1>7. ASSUME NEW t \in Pages, DeleteOp(t) PROVE KeptInv'
  <2>1. PICK o \in Ops : /\ First(o, pages[t].batch) /\ queue' = queue \ {o}
                         /\ PageDoes(t, [pages[t] EXCEPT !.batch = @ \ {o}])
    BY <1>7 DEF DeleteOp
  <2>2. /\ UNCHANGED <<taken, sent, decided>>
        /\ pages[t].flush = "delete" /\ decided[o] # "none"
    BY <1>7, <2>1 DEF DeleteOp, PageDoes, serverVars, KeptInv, Undecided, First
  <2>3. /\ pages'[t].batch = pages[t].batch \ {o}
        /\ \A u \in Pages \ {t} : pages'[u] = pages[u]
    BY <1>0, <2>1 DEF PageDoes, PageStates
  <2>4. Whole(pages[t].batch \ {o}) /\ Undecided(pages[t].batch \ {o}) = {}
    BY <2>2 DEF KeptInv, Whole, Undecided
  <2>5. \A o1 \in 1..taken : o1 \in queue' \/ decided[o1] # "none"
    BY <2>1, <2>2 DEF KeptInv
  <2>6. \A u \in Pages : Whole(pages'[u].batch)
                       /\ (pages'[u].flush = "delete" => Undecided(pages'[u].batch) = {})
    BY <2>3, <2>4 DEF KeptInv
  <2> QED BY <2>2, <2>5, <2>6 DEF KeptInv, Whole, DecidedInOrder, Undecided
<1>8. ASSUME NEW t \in Pages, QuietStep(t) PROVE KeptInv'
  <2>1. PICK q \in PageStates :
          /\ pages' = [pages EXCEPT ![t] = q]
          /\ q.batch \in {pages[t].batch, {}, queue}
          /\ q.flush = "delete" =>
               /\ q.batch = pages[t].batch
               /\ pages[t].flush = "delete" \/ Undecided(pages[t].batch) = {}
    BY <1>8, QuietSteps
  <2>2. UNCHANGED <<queue, taken, sent, decided>>
    BY <1>8, QuietSteps
  <2>3. pages'[t] = q /\ \A u \in Pages \ {t} : pages'[u] = pages[u]
    BY <1>0, <2>1
  <2>4. \A u \in Pages : Whole(pages'[u].batch)
                       /\ (pages'[u].flush = "delete" => Undecided(pages'[u].batch) = {})
    BY <1>1, <2>1, <2>3 DEF KeptInv
  <2> QED BY <2>2, <2>4 DEF KeptInv, Whole, DecidedInOrder, Undecided
<1> QED
  BY <1>2, <1>3, <1>4, <1>5, <1>6, <1>7, <1>8
     DEF QueueNext, QuietStep, LoadStep, FlushStep, LinkDown, OverrideCheckout, ServerTurns,
         vars, networkVars, storeVars, serverVars

LEMMA KeptInvariance == QueueSpec => [](QueueTypeOK /\ KeptInv)
<1>1. QueueInit => KeptInv
  <2> SUFFICES ASSUME QueueInit PROVE KeptInv
    OBVIOUS
  <2>1. 1..taken = {} /\ sent = {} /\ \A o \in Ops : decided[o] = "none"
    BY DEF QueueInit
  <2>2. \A t \in Pages : pages[t].batch = {} /\ pages[t].flush # "delete"
    BY DEF QueueInit, ClosedPage
  <2> QED BY <2>1, <2>2 DEF KeptInv, Whole, DecidedInOrder
<1>2. QueueTypeOK /\ KeptInv /\ [QueueNext]_vars => KeptInv'
  BY KeptStep
<1>3. QueueTypeOK /\ [QueueNext]_vars => QueueTypeOK'
  BY QueueTypeStep
<1> QED BY <1>1, <1>2, <1>3, QueueInitTyped, PTL DEF QueueSpec

\* Captures are decided in the order they were made, on any number of pages.
THEOREM CapturesDecidedInOrder == QueueSpec => []DecidedInOrder
<1>1. KeptInv => DecidedInOrder
  BY DEF KeptInv
<1> QED BY <1>1, KeptInvariance, PTL

-----------------------------------------------------------------------------
(* The refinement. *)

LEMMA QueueDeliveryStep ==
  ASSUME QueueTypeOK, KeptInv, [QueueNext]_vars
  PROVE  [Delivery!DeliveryNext]_(Delivery!deliveryVars)
<1> USE BoundsAssumption
<1>0. /\ taken \in 0..MaxOps /\ queue \subseteq 1..taken
      /\ \A o \in 1..taken : o \in Ops
  BY DEF QueueTypeOK, Ops
<1>1. ASSUME NEW t \in Pages, Enqueue(t) PROVE Delivery!DeliveryNext
  <2>1. /\ taken + 1 \in Ops /\ queue' = queue \union {taken + 1} /\ decided' = decided
    BY <1>0, <1>1 DEF Enqueue, PageDoes, serverVars, Ops
  <2>2. taken + 1 \notin queue /\ decided[taken + 1] = "none"
    BY <1>0, <2>1 DEF KeptInv
  <2> QED BY <2>1, <2>2 DEF Delivery!DeliveryNext, Delivery!Hold
<1>2. ASSUME NEW b \in sent, Replay(b) PROVE Delivery!DeliveryNext
  <2>1. PICK o \in Ops, d \in Decisions :
          First(o, Undecided(b.ops)) /\ decided' = [decided EXCEPT ![o] = d]
    BY <1>2 DEF Replay, Verdicts, Decisions
  <2>2. o \in queue /\ decided[o] = "none" /\ queue' = queue
    BY <1>2, <2>1 DEF Replay, storeVars, First, Undecided, KeptInv, Whole
  <2> QED BY <2>1, <2>2 DEF Delivery!DeliveryNext, Delivery!Decide
<1>3. ASSUME NEW t \in Pages, DeleteOp(t) PROVE Delivery!DeliveryNext
  <2>1. PICK o \in Ops : First(o, pages[t].batch) /\ queue' = queue \ {o}
    BY <1>3 DEF DeleteOp
  <2>2. decided' = decided /\ decided[o] # "none"
    BY <1>3, <2>1 DEF DeleteOp, PageDoes, serverVars, KeptInv, Undecided, First
  <2> DEFINE S == queue \intersect {o}
  <2>3. S \in SUBSET queue /\ queue' = queue \ S /\ \A s \in S : decided[s] # "none"
    BY <2>1, <2>2
  <2> HIDE DEF S
  <2> QED BY <2>2, <2>3 DEF Delivery!DeliveryNext, Delivery!LetGo
<1>4. ASSUME UNCHANGED <<queue, decided>> PROVE UNCHANGED Delivery!deliveryVars
  BY <1>4 DEF Delivery!deliveryVars
<1>5. ASSUME NEW t \in Pages, QuietStep(t) PROVE UNCHANGED <<queue, decided>>
  BY <1>5, QuietSteps
<1>6. \/ \E t \in Pages : Enqueue(t) \/ DeleteOp(t) \/ QuietStep(t)
      \/ \E b \in sent : Replay(b)
      \/ UNCHANGED <<queue, decided>>
  BY DEF QueueNext, QuietStep, LoadStep, FlushStep, LinkDown, LinkUp, OverrideCheckout,
         ServerTurns, PostBatch, vars, networkVars, storeVars, serverVars
<1> QED BY <1>1, <1>2, <1>3, <1>4, <1>5, <1>6

\* The device implements CaptureDelivery: whichever pages are opened, closed
\* and flushed when, a capture leaves the queue decided, and is decided once.
THEOREM DeviceImplementsDelivery == QueueSpec => QueueImplementsDelivery
<1>1. QueueInit => Delivery!DeliveryInit
  BY DEF QueueInit, Delivery!DeliveryInit
<1>2. QueueTypeOK /\ KeptInv /\ [QueueNext]_vars
        => [Delivery!DeliveryNext]_(Delivery!deliveryVars)
  BY QueueDeliveryStep
<1> QED BY <1>1, <1>2, KeptInvariance, PTL
        DEF QueueSpec, QueueImplementsDelivery, Delivery!DeliverySpec

\* What implements CaptureDelivery loses nothing.
LEMMA DeliveryLosesNothing == Delivery!DeliverySpec => Delivery!NothingLost
<1>1. Delivery!DeliveryInit => Delivery!DeliveryTypeOK
  BY DEF Delivery!DeliveryInit, Delivery!DeliveryTypeOK
<1>2. Delivery!DeliveryTypeOK /\ [Delivery!DeliveryNext]_(Delivery!deliveryVars)
        => Delivery!DeliveryTypeOK'
  BY DEF Delivery!DeliveryTypeOK, Delivery!DeliveryNext, Delivery!Hold, Delivery!Decide,
         Delivery!LetGo, Delivery!deliveryVars
<1>3. Delivery!DeliveryTypeOK /\ [Delivery!DeliveryNext]_(Delivery!deliveryVars)
        => [\A o \in queue : o \in queue' \/ decided'[o] \in Decisions]_(Delivery!deliveryVars)
  <2> SUFFICES ASSUME Delivery!DeliveryTypeOK, Delivery!DeliveryNext,
                      NEW o \in queue, o \notin queue'
               PROVE  decided'[o] \in Decisions
    BY DEF Delivery!deliveryVars
  <2>1. PICK S \in SUBSET queue : Delivery!LetGo(S)
    BY DEF Delivery!DeliveryNext, Delivery!Hold, Delivery!Decide
  <2> QED BY <2>1 DEF Delivery!LetGo, Delivery!DeliveryTypeOK
<1> QED BY <1>1, <1>2, <1>3, PTL DEF Delivery!DeliverySpec, Delivery!NothingLost

\* No capture leaves the device's queue before the server has decided it: pages
\* closed, requests lost and answers that come twice or late included
\* (capture-offline.ts deletes an operation on an answer).
THEOREM QueueLosesNothing == QueueSpec => Delivery!NothingLost
BY DeviceImplementsDelivery, DeliveryLosesNothing DEF QueueImplementsDelivery

-----------------------------------------------------------------------------
(* With one page on the unit, no path through flush() forgets a capture but  *)
(* the refused batch and the note passed by.                                 *)

Woken(p) == p.load # "done" \/ p.timer \/ p.online \/ p.pokes > 0 \/ p.again
Busy == {"stamp", "check", "fetch", "put", "wait", "delete"}

\* Page p, with captures S in the queue and the link up or not.
Awake(p, S, up) ==
  /\ Woken(p) \/ p.flush # "idle" => p.open
  /\ p.open /\ S # {} /\ up /\ p.flush = "idle" => Woken(p) \/ p.stopped
  /\ p.flush \in Busy => S \subseteq p.batch \/ p.pokes > 0 \/ p.again
  /\ p.flush = "leaving" /\ up => Woken(p) \/ p.stopped

\* Whatever else holds of an open page, calling flush() wakes it.
LEMMA CalledAwakes ==
  ASSUME NEW p \in PageStates, p.open
  PROVE  Awake(Called(p), queue, link)
BY CalledKeeps DEF Awake, Woken, Busy

LEMMA AwakeStep ==
  ASSUME QueueTypeOK, NEW t \in Pages, Pages = {t}, Awake(pages[t], queue, link), [QueueNext]_vars
  PROVE  Awake(pages'[t], queue', link')
<1> DEFINE p == pages[t]
<1>0. p \in PageStates /\ pages \in [Pages -> PageStates]
  BY DEF QueueTypeOK
<1>1. CASE UNCHANGED <<link, queue, pages>>
  BY <1>1 DEF Awake, Woken
<1>2. CASE LinkDown
  BY <1>2 DEF LinkDown, storeVars, Awake, Woken, Busy
<1>3. CASE LinkUp
  <2>1. pages'[t] = [p EXCEPT !.online = @ \/ p.open] /\ link' /\ queue' = queue
    BY <1>3 DEF LinkUp, storeVars
  <2> DEFINE q == [p EXCEPT !.online = @ \/ p.open]
  <2>2. /\ q.open = p.open /\ q.load = p.load /\ q.flush = p.flush /\ q.batch = p.batch
        /\ q.again = p.again /\ q.timer = p.timer /\ q.pokes = p.pokes
        /\ q.stopped = p.stopped /\ q.online = (p.online \/ p.open)
    BY <1>0 DEF PageStates
  <2> HIDE DEF q
  <2>3. Awake(q, queue', link')
    BY <2>1, <2>2 DEF Awake, Woken, Busy
  <2> QED BY <2>1, <2>3 DEF q, Awake, Woken
<1>4. CASE OpenPage(t) \/ ClosePage(t)
  <2>1. pages'[t] = OpenedPage \/ pages'[t] = ClosedPage
    BY <1>0, <1>4 DEF OpenPage, ClosePage, PageDoes
  <2>2. /\ OpenedPage.load # "done" /\ OpenedPage.flush = "idle" /\ OpenedPage.open
        /\ ClosedPage.flush = "idle" /\ ClosedPage.open = FALSE /\ ClosedPage.load = "done"
        /\ ClosedPage.timer = FALSE /\ ClosedPage.online = FALSE /\ ClosedPage.again = FALSE
        /\ ClosedPage.pokes = 0
    BY DEF OpenedPage, ClosedPage
  <2> QED BY <2>1, <2>2 DEF Awake, Woken, Busy
<1>5. CASE Enqueue(t)
  <2>1. /\ pages'[t].open /\ pages'[t].pokes > 0 /\ pages'[t].flush = p.flush
    BY <1>0, <1>5 DEF Enqueue, PageDoes, PageStates
  <2> QED BY <2>1 DEF Awake, Woken
<1>6. ASSUME NEW q \in PageStates, q.open, PageDoes(t, Called(q)), queue' = queue
      PROVE  Awake(pages'[t], queue', link')
  <2>1. pages'[t] = Called(q) /\ link' = link
    BY <1>0, <1>6 DEF PageDoes, networkVars
  <2>2. Awake(Called(q), queue, link)
    BY <1>6, CalledAwakes
  <2> QED BY <1>6, <2>1, <2>2 DEF Awake, Woken
<1>7. CASE EnqueueFlushes(t) \/ OnlineEvent(t) \/ RetryTimer(t) \/ LoadFlushes(t)
  <2>1. p.open
    BY <1>0, <1>7 DEF EnqueueFlushes, OnlineEvent, RetryTimer, LoadFlushes, Awake, Woken,
                      PageStates
  <2>2. /\ p.pokes > 0 => [p EXCEPT !.pokes = @ - 1] \in PageStates
        /\ [p EXCEPT !.online = FALSE] \in PageStates
        /\ [p EXCEPT !.timer = FALSE] \in PageStates
        /\ [p EXCEPT !.load = "done"] \in PageStates
    <3>1. p.pokes > 0 => [p EXCEPT !.pokes = @ - 1] \in PageStates
      BY <1>0 DEF PageStates
    <3>2. [p EXCEPT !.online = FALSE] \in PageStates
      BY <1>0 DEF PageStates
    <3>3. [p EXCEPT !.timer = FALSE] \in PageStates
      BY <1>0 DEF PageStates
    <3>4. [p EXCEPT !.load = "done"] \in PageStates
      BY <1>0 DEF PageStates, LoadSteps
    <3> QED BY <3>1, <3>2, <3>3, <3>4
  <2>3. /\ [p EXCEPT !.pokes = @ - 1].open /\ [p EXCEPT !.online = FALSE].open
        /\ [p EXCEPT !.timer = FALSE].open /\ [p EXCEPT !.load = "done"].open
    BY <1>0, <2>1 DEF PageStates
  <2>4. CASE EnqueueFlushes(t)
    BY <1>6, <2>2, <2>3, <2>4 DEF EnqueueFlushes, storeVars
  <2>5. CASE OnlineEvent(t)
    BY <1>6, <2>2, <2>3, <2>5 DEF OnlineEvent, storeVars
  <2>6. CASE RetryTimer(t)
    BY <1>6, <2>2, <2>3, <2>6 DEF RetryTimer, storeVars
  <2>7. CASE LoadFlushes(t)
    BY <1>6, <2>2, <2>3, <2>7 DEF LoadFlushes, storeVars
  <2> QED BY <1>7, <2>4, <2>5, <2>6, <2>7
<1>8. CASE EnsureStep(t, "load") \/ EnsureStep(t, "flush")
  <2>1. PICK r \in Routines : EnsureStep(t, r)
    BY <1>8 DEF Routines
  <2>2. PICK q \in PageStates : pages' = [pages EXCEPT ![t] = q] /\ EnsureMakes(p, q, r)
    BY <2>1, EnsureTyped
  <2>3. pages'[t] = q /\ queue' = queue /\ link' = link
    BY <1>0, <2>1, <2>2, EnsureTyped DEF networkVars
  <2>4. Awake(q, queue, link)
    BY <2>2 DEF EnsureMakes, Awake, Woken, Busy
  <2> QED BY <2>3, <2>4 DEF Awake, Woken
<1>9. CASE ReadQueue(t)
  <2> DEFINE q == [p EXCEPT !.flush = IF queue = {} THEN "idle" ELSE "stamp", !.batch = queue]
  <2>1. pages'[t] = q /\ queue' = queue /\ link' = link
    BY <1>0, <1>9 DEF ReadQueue, PageDoes, networkVars, storeVars
  <2>2. /\ q.batch = queue /\ q.open = p.open
        /\ q.flush = IF queue = {} THEN "idle" ELSE "stamp"
    BY <1>0 DEF PageStates
  <2>3. p.open
    BY <1>9 DEF ReadQueue, Awake
  <2> QED BY <2>1, <2>2, <2>3 DEF Awake, Woken, Busy
<1>10. CASE NoStampYet(t) \/ Answered(t) \/ PostBatch(t)
  <2>1. PICK step \in Busy : /\ pages' = [pages EXCEPT ![t] = [p EXCEPT !.flush = step]]
                             /\ queue' = queue /\ link' = link /\ p.flush \in Busy
    BY <1>10 DEF NoStampYet, Answered, PostBatch, FlushGoes, PageDoes, networkVars, storeVars, Busy
  <2> DEFINE q == [p EXCEPT !.flush = step]
  <2>2. /\ q.open = p.open /\ q.flush = step /\ q.batch = p.batch /\ q.again = p.again
        /\ q.pokes = p.pokes
    BY <1>0 DEF PageStates
  <2>3. pages'[t] = q /\ p.open /\ step # "idle" /\ step # "leaving"
    BY <1>0, <2>1 DEF Awake, Busy
  <2> HIDE DEF q
  <2>4. Awake(q, queue', link')
    BY <2>1, <2>2, <2>3 DEF Awake, Woken
  <2> QED BY <2>3, <2>4 DEF Awake, Woken
<1>11. CASE Stopped(t) \/ Failed(t)
  <2>1. /\ pages'[t].open = p.open /\ pages'[t].flush = "leaving"
        /\ pages'[t].stopped \/ pages'[t].timer
    BY <1>0, <1>11 DEF Stopped, Failed, PageDoes, PageStates
  <2>2. p.open
    BY <1>11 DEF Stopped, Failed, Awake
  <2> QED BY <2>1, <2>2 DEF Awake, Woken, Busy
<1>12. CASE Leave(t)
  <2> DEFINE q == [p EXCEPT !.flush = "idle"]
  <2>1. pages'[t] = q /\ queue' = queue /\ link' = link /\ p.flush = "leaving"
    BY <1>0, <1>12 DEF Leave, FlushGoes, PageDoes, networkVars, storeVars
  <2>2. /\ q.open = p.open /\ q.load = p.load /\ q.flush = "idle" /\ q.again = p.again
        /\ q.timer = p.timer /\ q.pokes = p.pokes /\ q.stopped = p.stopped
        /\ q.online = p.online
    BY <1>0 DEF PageStates
  <2> HIDE DEF q
  <2>3. Awake(q, queue', link')
    BY <2>1, <2>2 DEF Awake, Woken, Busy
  <2> QED BY <2>1, <2>3 DEF Awake, Woken
<1>13. CASE DeleteOp(t)
  <2>1. PICK o \in Ops : queue' = queue \ {o} /\ PageDoes(t, [p EXCEPT !.batch = @ \ {o}])
    BY <1>13 DEF DeleteOp
  <2> DEFINE q == [p EXCEPT !.batch = @ \ {o}]
  <2>2. /\ q.open = p.open /\ q.flush = "delete" /\ q.batch = p.batch \ {o}
        /\ q.again = p.again /\ q.pokes = p.pokes /\ p.open
    BY <1>0, <1>13 DEF DeleteOp, PageStates, Awake
  <2>3. pages'[t] = q /\ (queue \subseteq p.batch \/ p.pokes > 0 \/ p.again)
    BY <1>0, <1>13, <2>1 DEF PageDoes, DeleteOp, Awake, Busy
  <2> HIDE DEF q
  <2>4. Awake(q, queue', link')
    BY <2>1, <2>2, <2>3 DEF Awake, Woken, Busy
  <2> QED BY <2>3, <2>4 DEF Awake, Woken
<1>14. CASE FlushDone(t)
  <2> DEFINE idle == [p EXCEPT !.flush = "idle"]
             rest == [idle EXCEPT !.again = FALSE]
  <2>1. /\ idle.open = p.open /\ idle.flush = "idle" /\ idle.again = p.again
        /\ idle.load = p.load /\ idle.pokes = p.pokes
        /\ rest \in PageStates /\ rest.open = p.open
        /\ idle.again = FALSE \/ idle.again = TRUE
    BY <1>0 DEF PageStates, FlushSteps
  <2>2. /\ PageDoes(t, IF idle.again THEN Called(rest) ELSE idle) /\ queue' = queue
        /\ p.open /\ p.batch = {} /\ (queue \subseteq p.batch \/ p.pokes > 0 \/ p.again)
    BY <1>14 DEF FlushDone, storeVars, Awake, Busy
  <2>3. CASE p.again
    <3>1. PageDoes(t, Called(rest))
      BY <2>1, <2>2, <2>3
    <3> HIDE DEF rest
    <3> QED BY <1>6, <2>1, <2>2, <3>1
  <2>4. CASE ~p.again
    <3>1. pages'[t] = idle
      <4>1. PageDoes(t, idle)
        BY <2>1, <2>2, <2>4
      <4> HIDE DEF idle
      <4> QED BY <1>0, <4>1 DEF PageDoes
    <3>2. link' = link
      BY <2>2 DEF PageDoes, networkVars
    <3> HIDE DEF idle
    <3> QED BY <2>1, <2>2, <2>4, <3>1, <3>2 DEF Awake, Woken, Busy
  <2> QED BY <2>3, <2>4
<1>15. \/ UNCHANGED <<link, queue, pages>>
       \/ LinkDown \/ LinkUp \/ OpenPage(t) \/ ClosePage(t)
       \/ Enqueue(t) \/ EnqueueFlushes(t) \/ OnlineEvent(t) \/ RetryTimer(t)
       \/ LoadStep(t) \/ FlushStep(t)
  BY DEF QueueNext, Replay, OverrideCheckout, ServerTurns, vars, networkVars, storeVars
<1> QED
  BY <1>1, <1>2, <1>3, <1>4, <1>5, <1>7, <1>8, <1>9, <1>10, <1>11, <1>12, <1>13, <1>14, <1>15
     DEF LoadStep, FlushStep

\* One page on the unit never falls quiet over a queued capture while it is
\* online, unless its batch was refused or a wake-up was passed by.
THEOREM OnePageDrains ==
  ASSUME NEW t, Pages = {t}
  PROVE  QueueSpec => []QuietMeansDrained
<1>1. QueueInit => Awake(pages[t], queue, link)
  BY DEF QueueInit, Awake, Woken, Busy, ClosedPage
<1>2. QueueTypeOK /\ Awake(pages[t], queue, link) /\ [QueueNext]_vars
        => Awake(pages[t], queue, link)'
  BY AwakeStep DEF Awake, Woken
<1>3. QueueTypeOK /\ Awake(pages[t], queue, link) => QuietMeansDrained
  BY DEF Awake, Woken, QuietMeansDrained, Quiet
<1> QED BY <1>1, <1>2, <1>3, QueueTypeCorrect, PTL DEF QueueSpec
=============================================================================
