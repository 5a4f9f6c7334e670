----------------------------- MODULE CaptureSync -----------------------------
(***************************************************************************)
(* The server half of the offline capture queue for one horizontal field   *)
(* unit: replay of queued captures (ReplayCaptureBatch), the exactly-once  *)
(* ledger, the reconciliation queue and its resolution, next to the online *)
(* capture that writes the same trials and the checkout of CheckoutLock.   *)
(*                                                                         *)
(* A request is a sequence of steps, one per transaction or statement of   *)
(* the code, and any number of requests may deliver the same capture at    *)
(* the same time: the device resends whatever was not acknowledged, and a  *)
(* connection that dropped on its side may still be served on the other.   *)
(***************************************************************************)
EXTENDS CheckoutLock, Sequences

CONSTANTS
  Ops,          \* client-minted operation ids
  Cells,        \* (athlete, trial) addresses of the unit
  Registered,   \* the cells whose athlete takes part in the meet
  Raws,         \* captured values as they were typed
  Valid,        \* the ones attempt validation accepts
  Canon,        \* the canonical spelling validation gives a value
  Requests,     \* concurrent sync requests
  Writers,      \* concurrent online captures of a cell
  Resolvers,    \* concurrent office resolutions
  Items,        \* ids a reconciliation item can get
  MaxBatch,     \* bound on the captures of one batch
  MaxAttempt    \* bound on the version of a trial

ASSUME CellsAssumption == Registered \subseteq Cells
ASSUME RawsAssumption ==
  /\ Raws # {}
  /\ Valid \subseteq Raws
  /\ Canon \in [Raws -> Raws]
  /\ \A r \in Valid : Canon[r] \in Valid /\ Canon[Canon[r]] = Canon[r]
ASSUME ItemsAssumption == "none" \notin Items
ASSUME BatchAssumption == MaxBatch \in Nat /\ MaxAttempt \in Nat

VARIABLES
  captured,   \* what each operation id stands for, once captured
  attempts,   \* the attempts table: version 0 stands for "no row"
  announced,  \* the unit's results have been announced
  ledger,     \* capture_ops: the recorded decision per operation id
  items,      \* reconciliation_items
  reqs,       \* sync requests in flight
  writers,    \* online captures and resolutions in flight
  acked,      \* outcomes the devices were sent (history)
  stored,     \* every value a trial has held (history)
  replayed    \* how often a replay wrote the operation's trial (history)

dataVars == <<captured, attempts, announced, ledger, items>>
historyVars == <<acked, stored, replayed>>
vars == <<lockVars, dataVars, reqs, writers, historyVars>>

-----------------------------------------------------------------------------
NoCapture == [cell |-> "none"]
Captures == [cell : Cells, raw : Raws, expected : Nat]
Trials == [version : Nat, value : Raws]
NoTrial == [version |-> 0, value |-> CHOOSE r \in Raws : TRUE]

Statuses == {"applied", "duplicate", "reconciliation", "rejected"}
Reasons == {"stale_checkout", "start_list_change", "conflict"}
Refusals == {"unknown_athlete", "invalid_mark", "announced"}

Undecided == [status |-> "none", reason |-> "none"]
Decisions ==
  [status : {"applied", "reconciliation", "rejected"},
   reason : Reasons \union Refusals \union {"none"}]

NoItem == [status |-> "absent"]
ItemRows ==
  [op : Ops, reason : Reasons, status : {"pending", "applied", "discarded"}]

Outcomes == [op : Ops, status : Statuses, version : Nat]

RequestSteps == {"idle", "lookup", "checkout", "check", "save", "record", "route"}
\* decision: what the next record or route step will write down for the
\* operation; answer and version: what the device will be told after a record.
RequestStates ==
  [step : RequestSteps, todo : Seq(Ops), stamp : Stamps,
   reason : Reasons \union Refusals \union {"none"},
   answer : Statuses, version : Nat,
   arrived : Stamps, done : SUBSET Outcomes]

NoStamp == [token |-> 0, generation |-> 0, startList |-> 0]
IdleRequest ==
  [step |-> "idle", todo |-> <<>>, stamp |-> NoStamp, reason |-> "none",
   answer |-> "applied", version |-> 0, arrived |-> NoStamp, done |-> {}]

WriterSteps == {"idle", "version", "check", "save", "settle"}
IdleWriter == [step |-> "idle"]
WriterStates ==
  [step : WriterSteps \ {"idle"}, cell : Cells, raw : Raws, expected : Nat,
   item : Items \union {"none"}, apply : BOOLEAN]

SyncTypeOK ==
  /\ LockTypeOK
  /\ captured \in [Ops -> Captures \union {NoCapture}]
  /\ attempts \in [Cells -> Trials]
  /\ announced \in BOOLEAN
  /\ ledger \in [Ops -> Decisions \union {Undecided}]
  /\ items \in [Items -> ItemRows \union {NoItem}]
  /\ reqs \in [Requests -> RequestStates]
  /\ writers \in [Writers \union Resolvers -> WriterStates \union {IdleWriter}]
  /\ acked \subseteq Outcomes
  /\ stored \in [Cells -> SUBSET Raws]
  /\ replayed \in [Ops -> Nat]

SyncInit ==
  /\ LockInit
  /\ captured = [o \in Ops |-> NoCapture]
  /\ attempts = [c \in Cells |-> NoTrial]
  /\ announced = FALSE
  /\ ledger = [o \in Ops |-> Undecided]
  /\ items = [i \in Items |-> NoItem]
  /\ reqs = [h \in Requests |-> IdleRequest]
  /\ writers = [w \in Writers \union Resolvers |-> IdleWriter]
  /\ acked = {}
  /\ stored = [c \in Cells |-> {}]
  /\ replayed = [o \in Ops |-> 0]

-----------------------------------------------------------------------------
(* SaveFieldAttempt, in the two pieces its callers can be interleaved at. *)

\* Its checks, read before the transaction opens, in their order.
Refusal(cell, raw) ==
  IF cell \notin Registered THEN "unknown_athlete"
  ELSE IF raw \notin Valid THEN "invalid_mark"
  ELSE IF announced THEN "announced"
  ELSE "none"

\* Mutant of VersionMatches: the last write wins.
VersionMatches_Unguarded(cell, expected) == TRUE

\* Its transaction: INSERT at version 0, guarded UPDATE above. The value is
\* stored in its canonical form. (No trial is ever deleted and no page shows a
\* version before it exists, so the UPDATE always finds a row.)
VersionMatches(cell, expected) == attempts[cell].version = expected

StoreAttempt(cell, raw) ==
  /\ attempts[cell].version < MaxAttempt
  /\ attempts' = [attempts EXCEPT ![cell] =
                    [version |-> @.version + 1, value |-> Canon[raw]]]
  /\ stored' = [stored EXCEPT ![cell] = @ \union {Canon[raw]}]

\* Mutant of SameAttempt: any conflict passes for a redelivery.
SameAttempt_Always(cell, raw) == TRUE

\* sameAttempt compares the stored value with the capture as it was typed.
SameAttempt(cell, raw) == attempts[cell].value = raw

\* INSERT OR IGNORE: the first decision on an operation id stands.
RecordCaptureOp(o, status, reason) ==
  ledger' = [ledger EXCEPT ![o] =
    IF @ = Undecided THEN [status |-> status, reason |-> reason] ELSE @]

-----------------------------------------------------------------------------
(* A device captures a trial: the value typed and the trial's version as    *)
(* some rendering of the page showed it. The capture is durable on the      *)
(* device (CaptureQueue) and reaches the server only in a batch.            *)
Capture(o, cell, raw) ==
  /\ captured[o] = NoCapture
  /\ \E seen \in 0..attempts[cell].version :
       captured' = [captured EXCEPT ![o] = [cell |-> cell, raw |-> raw, expected |-> seen]]
  /\ UNCHANGED <<lockVars, attempts, announced, ledger, items, reqs, writers, historyVars>>

-----------------------------------------------------------------------------
(* ReplayCaptureBatch *)

Batches ==
  {b \in UNION {[1..n -> {o \in Ops : captured[o] # NoCapture}] : n \in 1..MaxBatch} :
     \A i, j \in DOMAIN b : i # j => b[i] # b[j]}

\* A batch arrives under a stamp that was granted to some device. What the
\* checkout was at that moment is remembered to state properties.
NewRequest(batch, stamp) ==
  [step |-> "lookup", todo |-> batch, stamp |-> stamp, reason |-> "none",
   answer |-> "applied", version |-> 0, arrived |-> StampOf(checkout), done |-> {}]
Deliver(h, batch, stamp) ==
  /\ reqs[h].step = "idle"
  /\ reqs' = [reqs EXCEPT ![h] = NewRequest(batch, stamp)]
  /\ UNCHANGED <<lockVars, dataVars, writers, historyVars>>

Op(h) == Head(reqs[h].todo)
Cell(h) == captured[Op(h)].cell
Raw(h) == captured[Op(h)].raw
Goto(h, step) == reqs' = [reqs EXCEPT ![h].step = step]
RouteAs(h, reason) ==
  reqs' = [reqs EXCEPT ![h].step = "route", ![h].reason = reason]
RecordAs(h, answer, reason, version) ==
  reqs' = [reqs EXCEPT ![h].step = "record", ![h].answer = answer,
                       ![h].reason = reason, ![h].version = version]

\* The operation is answered; the batch goes on with the next one.
Answered(h, status, version) ==
  [step |-> "lookup", todo |-> Tail(reqs[h].todo), stamp |-> reqs[h].stamp,
   reason |-> "none", answer |-> "applied", version |-> 0, arrived |-> reqs[h].arrived,
   done |-> reqs[h].done \union {[op |-> Op(h), status |-> status, version |-> version]}]
Answer(h, status, version) ==
  reqs' = [reqs EXCEPT ![h] = Answered(h, status, version)]

\* An operation decided before is acknowledged again, an applied one as a
\* duplicate with the trial's current version.
Acknowledge(h) ==
  /\ reqs[h].step = "lookup"
  /\ reqs[h].todo # <<>>
  /\ ledger[Op(h)] # Undecided
  /\ IF ledger[Op(h)].status = "applied"
       THEN Answer(h, "duplicate", attempts[Cell(h)].version)
       ELSE Answer(h, ledger[Op(h)].status, 0)
  /\ UNCHANGED <<lockVars, dataVars, writers, historyVars>>

NotFound(h) ==
  /\ reqs[h].step = "lookup"
  /\ reqs[h].todo # <<>>
  /\ ledger[Op(h)] = Undecided
  /\ Goto(h, "checkout")
  /\ UNCHANGED <<lockVars, dataVars, writers, historyVars>>

\* Mutant of Verdict: the start list is not compared.
Verdict_AnyStartList(stamp) ==
  IF ~checkout.active \/ stamp.generation # checkout.generation THEN "stale_checkout"
  ELSE "none"

\* The credential check and DecideSync: "none" lets the operation apply.
Verdict(stamp) ==
  IF checkout.active /\ stamp.token # checkout.token THEN "stale_checkout"
  ELSE IF ~checkout.active \/ stamp.generation # checkout.generation THEN "stale_checkout"
  ELSE IF stamp.startList # checkout.startList THEN "start_list_change"
  ELSE "none"

ReadCheckout(h) ==
  /\ reqs[h].step = "checkout"
  /\ LET verdict == Verdict(reqs[h].stamp)
     IN IF verdict = "none" THEN Goto(h, "check") ELSE RouteAs(h, verdict)
  /\ UNCHANGED <<lockVars, dataVars, writers, historyVars>>

CheckCapture(h) ==
  /\ reqs[h].step = "check"
  /\ LET refusal == Refusal(Cell(h), Raw(h))
     IN IF refusal = "none" THEN Goto(h, "save")
                            ELSE RecordAs(h, "rejected", refusal, 0)
  /\ UNCHANGED <<lockVars, dataVars, writers, historyVars>>

Save(h) ==
  /\ reqs[h].step = "save"
  /\ VersionMatches(Cell(h), captured[Op(h)].expected)
  /\ StoreAttempt(Cell(h), Raw(h))
  /\ RecordAs(h, "applied", "none", attempts'[Cell(h)].version)
  /\ replayed' = [replayed EXCEPT ![Op(h)] = @ + 1]
  /\ UNCHANGED <<lockVars, captured, announced, ledger, items, writers, acked>>

\* A version conflict: the trial already holds this very capture (it was
\* delivered before), or the two diverged.
SaveConflict(h) ==
  /\ reqs[h].step = "save"
  /\ ~VersionMatches(Cell(h), captured[Op(h)].expected)
  /\ IF SameAttempt(Cell(h), Raw(h))
       THEN RecordAs(h, "duplicate", "none", attempts[Cell(h)].version)
       ELSE RouteAs(h, "conflict")
  /\ UNCHANGED <<lockVars, dataVars, writers, historyVars>>

\* Mutant of Record: the ledger is given the answer, "duplicate" included.
Record_Verbatim(h) ==
  /\ reqs[h].step = "record"
  /\ RecordCaptureOp(Op(h), reqs[h].answer, reqs[h].reason)
  /\ Answer(h, reqs[h].answer, reqs[h].version)
  /\ UNCHANGED <<lockVars, captured, attempts, announced, items, writers, historyVars>>

\* The decision is recorded in a statement of its own, after the save.
Record(h) ==
  /\ reqs[h].step = "record"
  /\ RecordCaptureOp(Op(h), IF reqs[h].answer = "rejected" THEN "rejected" ELSE "applied",
                     reqs[h].reason)
  /\ Answer(h, reqs[h].answer, reqs[h].version)
  /\ UNCHANGED <<lockVars, captured, attempts, announced, items, writers, historyVars>>

\* Mutants of Route: the ledger entry without the item, and the item without
\* the ledger entry.
Route_NoItem(h) ==
  /\ reqs[h].step = "route"
  /\ RecordCaptureOp(Op(h), "reconciliation", reqs[h].reason)
  /\ Answer(h, "reconciliation", 0)
  /\ UNCHANGED <<lockVars, captured, attempts, announced, items, writers, historyVars>>
Route_Unrecorded(h) ==
  /\ reqs[h].step = "route"
  /\ \E i \in Items :
       /\ items[i] = NoItem
       /\ items' = [items EXCEPT ![i] =
            [op |-> Op(h), reason |-> reqs[h].reason, status |-> "pending"]]
  /\ Answer(h, "reconciliation", 0)
  /\ UNCHANGED <<lockVars, captured, attempts, announced, ledger, writers, historyVars>>

\* One transaction: a pending item under a fresh id, and the ledger entry.
Route(h) ==
  /\ reqs[h].step = "route"
  /\ \E i \in Items :
       /\ items[i] = NoItem
       /\ items' = [items EXCEPT ![i] =
            [op |-> Op(h), reason |-> reqs[h].reason, status |-> "pending"]]
  /\ RecordCaptureOp(Op(h), "reconciliation", reqs[h].reason)
  /\ Answer(h, "reconciliation", 0)
  /\ UNCHANGED <<lockVars, captured, attempts, announced, writers, historyVars>>

\* The whole batch is done: the device gets its outcomes.
Respond(h) ==
  /\ reqs[h].step = "lookup"
  /\ reqs[h].todo = <<>>
  /\ acked' = acked \union reqs[h].done
  /\ reqs' = [reqs EXCEPT ![h] = IdleRequest]
  /\ UNCHANGED <<lockVars, dataVars, writers, stored, replayed>>

\* The request dies between two steps (a restart, a dropped connection, a
\* database error, which aborts the batch): what it committed stays, its
\* outcomes are lost.
Abort(h) ==
  /\ reqs[h].step # "idle"
  /\ reqs' = [reqs EXCEPT ![h] = IdleRequest]
  /\ UNCHANGED <<lockVars, dataVars, writers, historyVars>>

RequestStep(h) ==
  \/ Acknowledge(h) \/ NotFound(h) \/ ReadCheckout(h) \/ CheckCapture(h)
  \/ Save(h) \/ SaveConflict(h) \/ Record(h) \/ Route(h) \/ Respond(h)

-----------------------------------------------------------------------------
(* The other writers of a trial: an official or the office saving a cell     *)
(* online (item "none"), and ResolveReconciliation.                          *)

WriterGoto(w, step) == writers' = [writers EXCEPT ![w].step = step]
WriterDone(w) == writers' = [writers EXCEPT ![w] = IdleWriter]
ItemCapture(i) == captured[items[i].op]

OnlineCapture(w, cell, raw) ==
  /\ writers[w] = IdleWriter
  /\ \E seen \in 0..attempts[cell].version :
       writers' = [writers EXCEPT ![w] =
         [step |-> "check", cell |-> cell, raw |-> raw, expected |-> seen,
          item |-> "none", apply |-> TRUE]]
  /\ UNCHANGED <<lockVars, dataVars, reqs, historyVars>>

ResolveRead(w, i, apply) ==
  /\ writers[w] = IdleWriter
  /\ items[i].status = "pending"
  /\ writers' = [writers EXCEPT ![w] =
       [step |-> IF apply THEN "version" ELSE "settle",
        cell |-> ItemCapture(i).cell, raw |-> ItemCapture(i).raw, expected |-> 0,
        item |-> i, apply |-> apply]]
  /\ UNCHANGED <<lockVars, dataVars, reqs, historyVars>>

\* currentAttemptVersion, so that an applied item overwrites the trial.
ResolveVersion(w) ==
  /\ writers[w].step = "version"
  /\ writers' = [writers EXCEPT ![w].step = "check",
                                ![w].expected = attempts[writers[w].cell].version]
  /\ UNCHANGED <<lockVars, dataVars, reqs, historyVars>>

WriterCheck(w) ==
  /\ writers[w].step = "check"
  /\ IF Refusal(writers[w].cell, writers[w].raw) = "none"
       THEN WriterGoto(w, "save") ELSE WriterDone(w)
  /\ UNCHANGED <<lockVars, dataVars, reqs, historyVars>>

WriterSave(w) ==
  /\ writers[w].step = "save"
  /\ VersionMatches(writers[w].cell, writers[w].expected)
  /\ StoreAttempt(writers[w].cell, writers[w].raw)
  /\ IF writers[w].item = "none" THEN WriterDone(w) ELSE WriterGoto(w, "settle")
  /\ UNCHANGED <<lockVars, captured, announced, ledger, items, reqs, acked, replayed>>

\* Mutant of WriterConflict: the error of the save is dropped and the item
\* resolved all the same.
WriterConflict_Settles(w) ==
  /\ writers[w].step = "save"
  /\ ~VersionMatches(writers[w].cell, writers[w].expected)
  /\ IF writers[w].item = "none" THEN WriterDone(w) ELSE WriterGoto(w, "settle")
  /\ UNCHANGED <<lockVars, dataVars, reqs, historyVars>>

\* The conflict is shown to the operator, who starts over.
WriterConflict(w) ==
  /\ writers[w].step = "save"
  /\ ~VersionMatches(writers[w].cell, writers[w].expected)
  /\ WriterDone(w)
  /\ UNCHANGED <<lockVars, dataVars, reqs, historyVars>>

\* SetReconciliationStatus resolves a pending item, once.
Settle(w) ==
  /\ writers[w].step = "settle"
  /\ LET i == writers[w].item
     IN items' = IF items[i].status = "pending"
                   THEN [items EXCEPT ![i].status =
                           IF writers[w].apply THEN "applied" ELSE "discarded"]
                   ELSE items
  /\ WriterDone(w)
  /\ UNCHANGED <<lockVars, captured, attempts, announced, ledger, reqs, historyVars>>

WriterAbort(w) ==
  /\ writers[w].step # "idle"
  /\ WriterDone(w)
  /\ UNCHANGED <<lockVars, dataVars, reqs, historyVars>>

AnnounceUnit ==
  /\ ~announced
  /\ announced' = TRUE
  /\ UNCHANGED <<lockVars, captured, attempts, ledger, items, reqs, writers, historyVars>>

-----------------------------------------------------------------------------
LockStep ==
  /\ LockNext
  /\ UNCHANGED <<dataVars, reqs, writers, historyVars>>

WriterStep(w) ==
  \/ ResolveVersion(w) \/ WriterCheck(w) \/ WriterSave(w) \/ WriterConflict(w)
  \/ Settle(w) \/ WriterAbort(w)

OfficeStep ==
  \/ AnnounceUnit
  \/ \E w \in Writers, cell \in Registered, raw \in Valid : OnlineCapture(w, cell, raw)
  \/ \E w \in Resolvers, i \in Items, apply \in BOOLEAN : ResolveRead(w, i, apply)
  \/ \E w \in Writers \union Resolvers : WriterStep(w)

SyncNext ==
  \/ \E o \in Ops, cell \in Cells, raw \in Raws : Capture(o, cell, raw)
  \/ \E h \in Requests :
       \/ \E batch \in Batches, g \in granted : Deliver(h, batch, g.stamp)
       \/ RequestStep(h)
       \/ Abort(h)
  \/ OfficeStep
  \/ LockStep

SyncSpec == SyncInit /\ [][SyncNext]_vars

-----------------------------------------------------------------------------
(* What replay promises. *)

Value(o) == Canon[captured[o].raw]
WasStored(o) == Value(o) \in stored[captured[o].cell]
HasItem(o) == \E i \in Items : items[i] # NoItem /\ items[i].op = o
Told == acked \union UNION {reqs[h].done : h \in Requests}

\* Never silent discard (SYS-086). The device deletes a capture once it is
\* answered, whatever the answer, so every answer must be backed by something
\* durable first: a ledger entry always; for "applied" and "duplicate" the
\* trial has held the value; for "reconciliation" the office has an item.
AnswersAreBacked ==
  \A a \in Told :
    /\ ledger[a.op] # Undecided
    /\ a.status \in {"applied", "duplicate"} => WasStored(a.op)
    /\ a.status = "reconciliation" => HasItem(a.op)

\* The ledger means what it says, whichever of two racing deliveries wrote it.
LedgerIsTrue ==
  \A o \in Ops :
    /\ ledger[o].status = "applied" => WasStored(o)
    /\ ledger[o].status = "reconciliation" => HasItem(o)

\* Exactly-once (SYS-085): however often, and however concurrently, a capture
\* is delivered, replay writes its trial at most once.
ReplayWritesOnce == \A o \in Ops : replayed[o] <= 1

\* The device keeps a capture until some answer to it arrives. Seen from the
\* devices, the server implements CaptureDelivery: what they let go of has
\* been decided, durably and once.
Delivery == INSTANCE CaptureDelivery WITH
  held <- {o \in Ops : captured[o] # NoCapture} \ {a.op : a \in acked},
  decision <- [o \in Ops |-> ledger[o].status],
  Decided <- {"applied", "reconciliation", "rejected"},
  Pending <- "none"
ImplementsDelivery == Delivery!DeliverySpec

\* The first decision on an operation id stands.
DecisionsAreFinal ==
  [][ \A o \in Ops : ledger[o] # Undecided => ledger'[o] = ledger[o] ]_vars

\* A batch that arrives after its checkout was overridden, or after the start
\* list it was captured against was revised, changes no trial (SYS-086,
\* UC-034 #4/#5), whatever happens while it is being replayed.
StaleBatchNeverWrites ==
  [][ \A h \in Requests :
        (reqs[h].step = "save" /\ reqs'[h] # reqs[h] /\ attempts' # attempts)
          => /\ reqs[h].stamp.generation = reqs[h].arrived.generation
             /\ reqs[h].stamp.startList = reqs[h].arrived.startList ]_vars

\* A reconciliation item is resolved once, and one resolved as applied had its
\* value written to the trial.
ResolvedOnce ==
  [][ \A i \in Items :
        items[i].status \in {"applied", "discarded"} => items'[i] = items[i] ]_vars
AppliedItemsWereStored ==
  \A i \in Items : items[i].status = "applied" => WasStored(items[i].op)

-----------------------------------------------------------------------------
(* Sentences of the repository that the code does not keep. The README gives  *)
(* the trace of each; the runs sync_only_holder and sync_redelivery show the  *)
(* first and the last.                                                        *)

\* "A batch whose token is not the live checkout's ... never apply": the
\* credential is the live one at the moment a replay changes the trial. The
\* checkout is read in a statement of its own, before the save.
OnlyHolderWrites ==
  [][ \A h \in Requests :
        (reqs[h].step = "save" /\ reqs'[h] # reqs[h] /\ attempts' # attempts)
          => reqs[h].stamp.token = checkout.token ]_vars

\* "reconciliation/rejected, where nothing was applied": a device told so has
\* not had its capture written. The save and the ledger entry are two
\* transactions, and what happens in between decides the redelivery.
RefusedMeansNotApplied ==
  \A a \in Told :
    a.status \in {"reconciliation", "rejected"} => replayed[a.op] = 0

\* One captured trial never becomes two reconciliation items.
OneItemPerOperation ==
  \A i, j \in Items :
    (items[i] # NoItem /\ items[j] # NoItem /\ items[i].op = items[j].op) => i = j

\* A redelivery of what the trial already holds is a duplicate, not a
\* conflict, however the official spelled the mark.
RedeliveryIsNoConflict ==
  [][ \A h \in Requests :
        (reqs[h].step = "save" /\ reqs'[h].reason = "conflict")
          => attempts[Cell(h)].value # Canon[Raw(h)] ]_vars
=============================================================================
