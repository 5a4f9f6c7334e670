------------------------- MODULE CaptureSync_proofs -------------------------
(***************************************************************************)
(* Proofs about CaptureSync for any captures, trials, requests, online     *)
(* writers and resolutions, at any interleaving of their steps; and first  *)
(* about the lock it stands on, CheckoutLock, for any accounts, devices    *)
(* and concurrent requests, with or without a caller of ReleaseCheckout.   *)
(*                                                                         *)
(* The lock's inductive invariant says why tokens and generations agree    *)
(* (both count the hand-overs) and what a request between its read and its *)
(* guarded update may still rely on: while the version it saw is the       *)
(* row's, so is everything else it saw.                                    *)
(***************************************************************************)
EXTENDS CaptureSync, SequenceTheorems, TLAPS

-----------------------------------------------------------------------------
(* The lock. *)

\* Token and generation of the row and of every stamp count hand-overs.
HandoversCounted ==
  /\ checkout.token = lastToken
  /\ checkout.generation = lastToken
  /\ ~HasRow => lastToken = 0
  /\ \A g \in granted :
       /\ g.stamp.token = g.stamp.generation
       /\ g.stamp.token <= lastToken
       /\ g.stamp.token = lastToken => g.stamp.startList <= checkout.startList

\* A request about to reassign the lock read a row that existed, and read that
\* it was free or its own.
ReadersAreRight ==
  \A c \in Calls :
    calls[c].step = "reassign" =>
      /\ calls[c].seen > 0
      /\ calls[c].seen <= checkout.version
      /\ calls[c].seen = checkout.version => ~Refused(calls[c].account)

LockInv == LockTypeOK /\ HandoversCounted /\ ReadersAreRight

-----------------------------------------------------------------------------
LEMMA NoCheckoutType == NoCheckout \in Checkouts /\ NoCheckout.device \in Devices
  BY DevicesAssumption DEF NoCheckout, Checkouts, Accounts

\* The invariant holds before the unit is first checked out.
LEMMA LockInitInv == LockInit => LockInv
<1> SUFFICES ASSUME LockInit PROVE LockInv
  OBVIOUS
<1>1. LockTypeOK
  BY NoCheckoutType
  DEF LockInit, LockTypeOK, CallStates, CallSteps, IdleCall, Accounts
<1>2. HandoversCounted
  BY DEF LockInit, HandoversCounted, NoCheckout, HasRow
<1>3. ReadersAreRight
  BY DEF LockInit, ReadersAreRight, IdleCall
<1> QED BY <1>1, <1>2, <1>3 DEF LockInv

\* The pieces the actions are made of keep the state typed.
LEMMA CallsTyped ==
  ASSUME LockTypeOK, NEW c \in Calls,
         \/ Finish(c)
         \/ \E step \in CallSteps : Continue(c, step)
         \/ \E step \in CallSteps, a \in Officials, d \in Devices : Start(c, step, a, d)
  PROVE  calls' \in [Calls -> CallStates]
<1> USE DEF LockTypeOK, CallStates
<1>1. CASE Finish(c)
  BY <1>1, NoCheckoutType DEF Finish, IdleCall, CallSteps, Accounts
<1>2. CASE \E step \in CallSteps : Continue(c, step)
  BY <1>2 DEF Continue
<1>3. CASE \E step \in CallSteps, a \in Officials, d \in Devices : Start(c, step, a, d)
  BY <1>3 DEF Start, Checkouts, Accounts
<1> QED BY <1>1, <1>2, <1>3

LEMMA GrantTyped ==
  ASSUME LockTypeOK, NEW a \in Accounts, NEW d \in Devices, Grant(a, d)
  PROVE  granted' \subseteq Grants
  BY DEF LockTypeOK, Grant, Grants, Stamps, StampOf, Checkouts

LEMMA HandOverTyped ==
  ASSUME LockTypeOK, NEW a \in Accounts, NEW d \in Devices,
         CreateCheckout(a, d) \/ ReassignCheckout(a, d)
  PROVE  checkout' \in Checkouts /\ lastToken' \in Nat
<1>1. CASE CreateCheckout(a, d)
  BY <1>1 DEF LockTypeOK, CreateCheckout, Checkouts
<1>2. CASE ReassignCheckout(a, d)
  <2>1. PICK t \in Nat, n \in Nat, v \in Nat :
          t = lastToken + 1 /\ n = checkout.generation + 1 /\ v = checkout.version + 1
    BY DEF LockTypeOK, Checkouts
  <2>2. /\ lastToken' = t
        /\ checkout' = [checkout EXCEPT !.account = a, !.device = d, !.token = t,
                                        !.generation = n, !.active = TRUE, !.version = v]
    BY <1>2, <2>1, Zenon DEF ReassignCheckout
  <2> QED BY <2>2 DEF LockTypeOK, Checkouts
<1> QED BY <1>1, <1>2

LEMMA CallTyped ==
  ASSUME LockTypeOK, NEW c \in Calls
  PROVE  calls[c].account \in Accounts /\ calls[c].device \in Devices
  BY DEF LockTypeOK, CallStates

\* Every step keeps the state typed.
LEMMA LockTypeStep == LockTypeOK /\ [LockNext]_lockVars => LockTypeOK'
<1> SUFFICES ASSUME LockTypeOK, [LockNext]_lockVars PROVE LockTypeOK'
  OBVIOUS
<1>1. ASSUME NEW c \in Calls, NEW a \in Officials, NEW d \in Devices,
             CheckoutRead(c, a, d) \/ EnsureRead(c, a, d) \/ ReleaseRead(c, a, d)
      PROVE  LockTypeOK'
  <2>1. a \in Accounts /\ {"create", "ensure", "reassign", "release"} \subseteq CallSteps
    BY DEF Accounts, CallSteps
  <2>2. calls' \in [Calls -> CallStates]
    <3>1. \/ UNCHANGED calls
          \/ \E step \in CallSteps : Start(c, step, a, d)
      BY <1>1, <2>1 DEF CheckoutRead, EnsureRead, ReleaseRead
    <3> QED BY <3>1, CallsTyped DEF LockTypeOK
  <2>3. granted' \subseteq Grants
    BY <1>1, <2>1, GrantTyped DEF CheckoutRead, EnsureRead, ReleaseRead, LockTypeOK
  <2> QED BY <1>1, <2>2, <2>3 DEF CheckoutRead, EnsureRead, ReleaseRead, LockTypeOK
<1>2. ASSUME NEW c \in Calls, Create(c) \/ Reassign(c)
      PROVE  LockTypeOK'
  <2>1. "reread" \in CallSteps
    BY DEF CallSteps
  <2>2. calls' \in [Calls -> CallStates]
    BY <1>2, <2>1, CallsTyped DEF Create, Reassign
  <2>3. checkout' \in Checkouts /\ lastToken' \in Nat
    BY <1>2, CallTyped, HandOverTyped DEF Create, Reassign
  <2> QED BY <1>2, <2>2, <2>3 DEF Create, Reassign, LockTypeOK
<1>3. ASSUME NEW c \in Calls, ReleaseCheckout(c) PROVE LockTypeOK'
  <2>1. PICK v \in Nat : v = checkout.version + 1
    BY DEF LockTypeOK, Checkouts
  <2>2. checkout' = [checkout EXCEPT !.active = FALSE, !.version = v]
    BY <1>3, <2>1, Zenon DEF ReleaseCheckout
  <2>3. checkout' \in Checkouts
    BY <2>2 DEF LockTypeOK, Checkouts
  <2> QED BY <1>3, <2>3, CallsTyped DEF ReleaseCheckout, LockTypeOK
<1>4. ASSUME NEW c \in Calls, CreateFails(c) \/ GuardFails(c) \/ CallLost(c) \/ Reread(c)
      PROVE  LockTypeOK'
  <2>1. calls' \in [Calls -> CallStates]
    BY <1>4, CallsTyped DEF CreateFails, GuardFails, CallLost, Reread
  <2>2. granted' \subseteq Grants
    BY <1>4, CallTyped, GrantTyped
    DEF CreateFails, GuardFails, CallLost, Reread, LockTypeOK
  <2> QED BY <1>4, <2>1, <2>2 DEF CreateFails, GuardFails, CallLost, Reread, LockTypeOK
<1>5. ASSUME NEW d \in Devices, OverrideCheckout(d) PROVE LockTypeOK'
  <2>1. Office \in Accounts
    BY DEF Accounts
  <2> QED BY <1>5, <2>1, HandOverTyped DEF OverrideCheckout, LockTypeOK
<1>6. CASE ReviseStartList
  <2>1. PICK l \in Nat, v \in Nat : l = checkout.startList + 1 /\ v = checkout.version + 1
    BY DEF LockTypeOK, Checkouts
  <2>2. checkout' = [checkout EXCEPT !.startList = l, !.version = v]
    BY <1>6, <2>1, Zenon DEF ReviseStartList
  <2> QED BY <1>6, <2>2 DEF ReviseStartList, LockTypeOK, Checkouts
<1>7. CASE UNCHANGED lockVars
  BY <1>7 DEF lockVars, LockTypeOK
<1> QED BY <1>1, <1>2, <1>3, <1>4, <1>5, <1>6, <1>7 DEF LockNext

-----------------------------------------------------------------------------
\* A step leaves the row and the tokens alone, hands the lock over, or changes
\* the start list or the active flag alone; whatever changes the row writes its
\* next version.
HandedOver ==
  /\ lastToken' = lastToken + 1
  /\ checkout'.token = lastToken + 1
  /\ \/ checkout'.generation = checkout.generation + 1
     \/ ~HasRow /\ checkout'.generation = 1

SameHolder ==
  /\ lastToken' = lastToken
  /\ checkout'.token = checkout.token
  /\ checkout'.generation = checkout.generation
  /\ checkout'.account = checkout.account
  /\ checkout'.startList >= checkout.startList

LEMMA RowSteps ==
  ASSUME LockTypeOK, [LockNext]_lockVars
  PROVE  \/ UNCHANGED <<checkout, lastToken>>
         \/ /\ checkout'.version = checkout.version + 1
            /\ HandedOver \/ SameHolder
<1>1. CASE \E c \in Calls : Create(c)
  BY <1>1 DEF Create, CreateCheckout, HandedOver, HasRow, LockTypeOK, Checkouts
<1>2. CASE \E c \in Calls : Reassign(c)
  BY <1>2 DEF Reassign, ReassignCheckout, HandedOver, HasRow, LockTypeOK, Checkouts
<1>3. CASE \E c \in Calls : ReleaseCheckout(c)
  BY <1>3 DEF ReleaseCheckout, SameHolder, HasRow, LockTypeOK, Checkouts
<1>4. CASE \E d \in Devices : OverrideCheckout(d)
  BY <1>4 DEF OverrideCheckout, ReassignCheckout, HandedOver, HasRow, LockTypeOK, Checkouts
<1>5. CASE ReviseStartList
  BY <1>5 DEF ReviseStartList, SameHolder, HasRow, LockTypeOK, Checkouts
<1> QED
  BY <1>1, <1>2, <1>3, <1>4, <1>5
  DEF LockNext, lockVars, CheckoutRead, EnsureRead, ReleaseRead, CreateFails, GuardFails,
      Reread, CallLost

\* Stamps are handed out as copies of the row; no other step adds one.
LEMMA GrantSteps ==
  ASSUME [LockNext]_lockVars, NEW g \in granted', g \notin granted
  PROVE  g.stamp = StampOf(checkout) /\ UNCHANGED <<checkout, lastToken>>
  BY DEF LockNext, lockVars, CheckoutRead, EnsureRead, ReleaseRead, Create, CreateFails,
         Reassign, ReleaseCheckout, GuardFails, Reread, CallLost, OverrideCheckout,
         ReviseStartList, Grant

LEMMA HandoversCountedStep ==
  LockInv /\ [LockNext]_lockVars => HandoversCounted'
<1> SUFFICES ASSUME LockInv, [LockNext]_lockVars PROVE HandoversCounted'
  OBVIOUS
<1>1. /\ LockTypeOK /\ HandoversCounted /\ LockTypeOK'
  BY LockTypeStep DEF LockInv
<1>2. /\ checkout'.token = lastToken'
      /\ checkout'.generation = lastToken'
      /\ ~HasRow' => lastToken' = 0
  BY <1>1, RowSteps DEF HandoversCounted, HandedOver, SameHolder, HasRow, LockTypeOK, Checkouts
<1>3. ASSUME NEW g \in granted'
      PROVE  /\ g.stamp.token = g.stamp.generation
             /\ g.stamp.token <= lastToken'
             /\ g.stamp.token = lastToken' => g.stamp.startList <= checkout'.startList
  <2>1. CASE g \in granted
    <3>1. /\ g.stamp.token \in Nat /\ g.stamp.startList \in Nat
          /\ checkout.startList \in Nat /\ checkout'.startList \in Nat /\ lastToken \in Nat
      BY <1>1, <2>1 DEF LockTypeOK, Grants, Stamps, Checkouts
    <3> QED BY <1>1, <2>1, <3>1, RowSteps DEF HandoversCounted, HandedOver, SameHolder
  <2>2. CASE g \notin granted
    BY <1>1, <2>2, GrantSteps DEF HandoversCounted, StampOf, LockTypeOK, Checkouts
  <2> QED BY <2>1, <2>2
<1> QED BY <1>2, <1>3 DEF HandoversCounted

LEMMA ReadersAreRightStep ==
  LockInv /\ [LockNext]_lockVars => ReadersAreRight'
<1> SUFFICES ASSUME LockInv, [LockNext]_lockVars,
                    NEW c \in Calls, calls'[c].step = "reassign"
             PROVE  /\ calls'[c].seen > 0
                    /\ calls'[c].seen <= checkout'.version
                    /\ calls'[c].seen = checkout'.version => ~Refused(calls[c].account)'
  BY DEF ReadersAreRight
<1>1. LockTypeOK /\ ReadersAreRight
  BY DEF LockInv
<1>2. CASE calls'[c] = calls[c]
  <2>1. calls[c].seen \in Nat /\ checkout.version \in Nat
    BY <1>1 DEF LockTypeOK, CallStates, Checkouts
  <2> QED BY <1>1, <1>2, <2>1, RowSteps DEF ReadersAreRight, Refused, HasRow
<1>3. CASE calls'[c] # calls[c]
  <2>1. PICK a \in Officials, d \in Devices : CheckoutRead(c, a, d)
    BY <1>1, <1>3
    DEF LockNext, lockVars, CheckoutRead, EnsureRead, ReleaseRead, Create, CreateFails,
        Reassign, ReleaseCheckout, GuardFails, Reread, CallLost, OverrideCheckout,
        ReviseStartList, Start, Finish, Continue, IdleCall, LockTypeOK, CallStates
  <2>2. Start(c, "reassign", a, d) /\ HasRow /\ ~Refused(a) /\ UNCHANGED checkout
    BY <1>1, <1>3, <2>1 DEF CheckoutRead, Start, LockTypeOK, CallStates
  <2> QED BY <1>1, <2>2 DEF Start, HasRow, Refused, LockTypeOK, CallStates, Checkouts
<1> QED BY <1>2, <1>3

-----------------------------------------------------------------------------
LEMMA LockInvariance == LockSpec => []LockInv
<1>1. LockInv /\ [LockNext]_lockVars => LockInv'
  BY LockTypeStep, HandoversCountedStep, ReadersAreRightStep DEF LockInv
<1> QED BY LockInitInv, <1>1, PTL DEF LockSpec

\* The state of the lock stays well-formed.
THEOREM LockTypeCorrect == LockSpec => []LockTypeOK
<1>1. LockInv => LockTypeOK
  BY DEF LockInv
<1> QED BY LockInvariance, <1>1, PTL

\* The token and the generation of a stamp never disagree about who holds the
\* unit: replayOne's two staleness checks are one.
THEOREM StampsAgreement == LockSpec => []StampsAgree
<1>1. LockInv => StampsAgree
  <2> SUFFICES ASSUME LockInv PROVE StampsAgree
    OBVIOUS
  <2>1. ASSUME NEW g \in granted
        PROVE  /\ g.stamp.token \in Nat /\ g.stamp.generation = g.stamp.token
               /\ g.stamp.token <= lastToken /\ lastToken \in Nat
               /\ g.stamp.token = lastToken => g.stamp.startList <= checkout.startList
    BY <2>1 DEF LockInv, HandoversCounted, LockTypeOK, Grants, Stamps
  <2>2. checkout.token = lastToken /\ checkout.generation = lastToken
    BY DEF LockInv, HandoversCounted
  <2> QED BY <2>1, <2>2 DEF StampsAgree
<1> QED BY LockInvariance, <1>1, PTL

\* A request that read the lock before an office override committed cannot take
\* it back from the office: its guarded update sees another version.
THEOREM OverrideStands == LockSpec => OnlyOfficeTakesOver
<1>1. ASSUME LockInv, [LockNext]_lockVars,
             HasRow, checkout.active, checkout'.account # checkout.account
      PROVE  checkout'.account = Office
  <2>1. LockTypeOK /\ ReadersAreRight
    BY <1>1 DEF LockInv
  <2>2. ASSUME NEW c \in Calls, Reassign(c) PROVE FALSE
    <3>1. calls[c].account = checkout.account
      BY <1>1, <2>1, <2>2 DEF Reassign, Unchanged, ReadersAreRight, Refused
    <3>2. checkout'.account = calls[c].account
      BY <2>1, <2>2 DEF Reassign, ReassignCheckout, LockTypeOK, Checkouts
    <3> QED BY <1>1, <3>1, <3>2
  <2>3. ASSUME NEW c \in Calls, ReleaseCheckout(c) PROVE FALSE
    BY <1>1, <2>1, <2>3 DEF ReleaseCheckout, LockTypeOK, Checkouts
  <2>4. CASE \E d \in Devices : OverrideCheckout(d)
    BY <2>1, <2>4 DEF OverrideCheckout, ReassignCheckout, LockTypeOK, Checkouts
  <2>5. CASE ReviseStartList
    BY <1>1, <2>1, <2>5 DEF ReviseStartList, LockTypeOK, Checkouts
  <2> QED
    BY <1>1, <2>2, <2>3, <2>4, <2>5
    DEF LockNext, lockVars, CheckoutRead, EnsureRead, ReleaseRead, CreateFails, GuardFails,
        Reread, CallLost, Create
<1> QED BY LockInvariance, <1>1, PTL DEF LockSpec, OnlyOfficeTakesOver

\* Every hand-over, and nothing else, moves the generation.
THEOREM HandoversAreCounted == LockSpec => GenerationCountsHandovers
<1>1. ASSUME LockInv, [LockNext]_lockVars
      PROVE  checkout'.generation =
               IF checkout'.token # checkout.token THEN checkout.generation + 1
                                                   ELSE checkout.generation
  <2>1. LockTypeOK /\ HandoversCounted /\ HandoversCounted'
    BY <1>1, HandoversCountedStep DEF LockInv
  <2>2. lastToken \in Nat
    BY <2>1 DEF LockTypeOK
  <2> QED BY <1>1, <2>1, <2>2, RowSteps DEF HandoversCounted, HandedOver, SameHolder
<1> QED BY LockInvariance, <1>1, PTL DEF LockSpec, GenerationCountsHandovers

-----------------------------------------------------------------------------
(* The replay. *)

IsCaptured(o) == captured[o] # NoCapture

-----------------------------------------------------------------------------
(* The inductive invariant, by what each part is about. *)

\* A capture was made against a version its trial had, and trials only move on:
\* a version conflict therefore means that the trial holds something.
CapturesAreSeen ==
  \A o \in Ops : IsCaptured(o) =>
    captured[o].expected <= attempts[captured[o].cell].version

\* A trial holds the last of the values it has had, in its canonical spelling.
TrialsAreStored ==
  \A c \in Cells : attempts[c].version > 0 =>
    attempts[c].value \in stored[c] /\ Canon[attempts[c].value] = attempts[c].value

\* A replay that wrote its trial moved it past the version it was captured on,
\* so no later replay of the same capture finds that version again.
ReplaysMoveOn ==
  \A o \in Ops :
    /\ replayed[o] <= 1
    /\ replayed[o] = 1 => /\ IsCaptured(o)
                          /\ attempts[captured[o].cell].version > captured[o].expected

\* What a request is about to do is about a capture and is still true.
RequestsAreSound ==
  \A h \in Requests :
    /\ \A n \in DOMAIN reqs[h].todo : IsCaptured(reqs[h].todo[n])
    /\ reqs[h].step \in {"checkout", "check", "save", "record", "route"} => reqs[h].todo # <<>>
    /\ reqs[h].step = "save" => Raw(h) \in Valid
    /\ reqs[h].step = "route" => reqs[h].reason \in Reasons
    /\ reqs[h].step = "record" =>
         /\ reqs[h].answer # "reconciliation"
         /\ reqs[h].answer # "rejected" => WasStored(Op(h))

\* The online writers and the resolutions, likewise.
WritersAreSound ==
  \A w \in Writers \union Resolvers :
    writers[w].step # "idle" =>
      /\ writers[w].step = "save" => writers[w].raw \in Valid
      /\ writers[w].item # "none" =>
           /\ items[writers[w].item] # NoItem
           /\ writers[w].cell = ItemCapture(writers[w].item).cell
           /\ writers[w].raw = ItemCapture(writers[w].item).raw
      /\ writers[w].step = "settle" =>
           /\ writers[w].item # "none"
           /\ writers[w].apply => Canon[writers[w].raw] \in stored[writers[w].cell]

\* Ledger entries, items and answers are about captures.
RecordsRefer ==
  /\ \A o \in Ops : ledger[o] # Undecided => IsCaptured(o)
  /\ \A i \in Items : items[i] # NoItem => IsCaptured(items[i].op)

\* A stamp is no newer than the checkout its batch arrived at, which is no
\* newer than the checkout now; past the check they are all the same.
StampsInOrder ==
  \A h \in Requests : reqs[h].step # "idle" =>
    /\ reqs[h].stamp.generation <= reqs[h].arrived.generation
    /\ reqs[h].arrived.generation <= checkout.generation
    /\ reqs[h].stamp.generation = reqs[h].arrived.generation
         => reqs[h].stamp.startList <= reqs[h].arrived.startList
    /\ reqs[h].arrived.generation = checkout.generation
         => reqs[h].arrived.startList <= checkout.startList
    /\ reqs[h].step \in {"check", "save"} =>
         /\ reqs[h].stamp.generation = reqs[h].arrived.generation
         /\ reqs[h].stamp.startList = reqs[h].arrived.startList

DataInv ==
  /\ CapturesAreSeen
  /\ TrialsAreStored
  /\ ReplaysMoveOn
  /\ RequestsAreSound
  /\ WritersAreSound
  /\ RecordsRefer
  /\ LedgerIsTrue
  /\ AnswersAreBacked
  /\ AppliedItemsWereStored

SyncInv == SyncTypeOK /\ LockInv /\ DataInv /\ StampsInOrder

-----------------------------------------------------------------------------
(* What the helpers on a request do to it. *)

KeepsOthers(h) ==
  /\ reqs' \in [Requests -> RequestStates]
  /\ \A x \in Requests \ {h} : reqs'[x] = reqs[x]

KeepsBatch(h) ==
  /\ KeepsOthers(h)
  /\ reqs'[h].todo = reqs[h].todo /\ reqs'[h].done = reqs[h].done
  /\ reqs'[h].stamp = reqs[h].stamp /\ reqs'[h].arrived = reqs[h].arrived

LEMMA GotoEffect ==
  ASSUME SyncTypeOK, NEW h \in Requests, NEW step \in RequestSteps, Goto(h, step)
  PROVE  KeepsBatch(h) /\ reqs'[h].step = step /\ reqs'[h].reason = reqs[h].reason
  BY DEF SyncTypeOK, RequestStates, Goto, KeepsBatch, KeepsOthers

LEMMA RouteAsEffect ==
  ASSUME SyncTypeOK, NEW h \in Requests, NEW reason \in Reasons, RouteAs(h, reason)
  PROVE  KeepsBatch(h) /\ reqs'[h].step = "route" /\ reqs'[h].reason = reason
  BY DEF SyncTypeOK, RequestStates, RequestSteps, RouteAs, KeepsBatch, KeepsOthers

LEMMA RecordAsEffect ==
  ASSUME SyncTypeOK, NEW h \in Requests, NEW answer \in Statuses,
         NEW reason \in Refusals \union {"none"}, NEW version \in Nat,
         RecordAs(h, answer, reason, version)
  PROVE  KeepsBatch(h) /\ reqs'[h].step = "record" /\ reqs'[h].answer = answer
<1> DEFINE r == [reqs[h] EXCEPT !.step = "record", !.answer = answer,
                               !.reason = reason, !.version = version]
<1>1. reqs[h] \in RequestStates /\ reqs \in [Requests -> RequestStates]
  BY DEF SyncTypeOK
<1>2. /\ r \in RequestStates
      /\ r.step = "record" /\ r.answer = answer
      /\ r.todo = reqs[h].todo /\ r.done = reqs[h].done
      /\ r.stamp = reqs[h].stamp /\ r.arrived = reqs[h].arrived
  BY <1>1 DEF RequestStates, RequestSteps
<1>3. reqs' = [reqs EXCEPT ![h] = r]
  BY <1>1, Zenon DEF RecordAs
<1> HIDE DEF r
<1> QED BY <1>1, <1>2, <1>3 DEF KeepsBatch, KeepsOthers

LEMMA AnswerEffect ==
  ASSUME SyncTypeOK, NEW h \in Requests, NEW status \in Statuses, NEW version \in Nat,
         reqs[h].todo # <<>>, Answer(h, status, version)
  PROVE  /\ KeepsOthers(h)
         /\ reqs'[h].step = "lookup"
         /\ reqs'[h].todo = Tail(reqs[h].todo)
         /\ reqs'[h].done = reqs[h].done \union
              {[op |-> Op(h), status |-> status, version |-> version]}
         /\ reqs'[h].stamp = reqs[h].stamp /\ reqs'[h].arrived = reqs[h].arrived
<1>1. reqs[h] \in RequestStates /\ reqs[h].todo \in Seq(Ops)
  BY DEF SyncTypeOK, RequestStates
<1>2. Tail(reqs[h].todo) \in Seq(Ops) /\ Op(h) \in Ops
  BY <1>1, HeadTailProperties DEF Op
<1>3. [op |-> Op(h), status |-> status, version |-> version] \in Outcomes
  BY <1>2 DEF Outcomes
<1>4. Answered(h, status, version) \in RequestStates
  BY <1>1, <1>2, <1>3 DEF Answered, RequestStates, RequestSteps, Statuses
<1>5. /\ reqs' \in [Requests -> RequestStates]
      /\ \A x \in Requests \ {h} : reqs'[x] = reqs[x]
      /\ reqs'[h] = Answered(h, status, version)
  BY <1>4 DEF SyncTypeOK, Answer
<1> QED BY <1>5 DEF Answered, KeepsOthers

LEMMA IdleEffect ==
  ASSUME SyncTypeOK, NEW h \in Requests, reqs' = [reqs EXCEPT ![h] = IdleRequest]
  PROVE  KeepsOthers(h) /\ reqs'[h] = IdleRequest
<1>1. IdleRequest \in RequestStates
  BY EmptySeq DEF IdleRequest, RequestStates, RequestSteps, Statuses, Stamps, NoStamp
<1> QED BY <1>1 DEF SyncTypeOK, KeepsOthers

LEMMA BatchTyped ==
  ASSUME NEW batch \in Batches
  PROVE  /\ batch \in Seq(Ops)
         /\ \A n \in DOMAIN batch : IsCaptured(batch[n])
<1>1. PICK n \in 1..MaxBatch : batch \in [1..n -> {o \in Ops : captured[o] # NoCapture}]
  BY DEF Batches
<1>2. n \in Nat
  BY BatchAssumption
<1>3. batch \in [1..n -> Ops]
  BY <1>1
<1>4. batch \in Seq(Ops)
  BY <1>2, <1>3, SeqDef
<1> QED BY <1>1, <1>4 DEF IsCaptured

LEMMA DeliverEffect ==
  ASSUME SyncTypeOK, NEW h \in Requests, NEW batch \in Batches, NEW g \in granted,
         Deliver(h, batch, g.stamp)
  PROVE  /\ KeepsOthers(h)
         /\ reqs'[h].step = "lookup"
         /\ reqs'[h].todo = batch
         /\ reqs'[h].done = {}
         /\ reqs'[h].stamp = g.stamp /\ reqs'[h].arrived = StampOf(checkout)
<1>1. batch \in Seq(Ops) /\ g.stamp \in Stamps /\ StampOf(checkout) \in Stamps
  BY BatchTyped DEF SyncTypeOK, LockTypeOK, Grants, Checkouts, StampOf, Stamps
<1>2. NewRequest(batch, g.stamp) \in RequestStates
  BY <1>1 DEF NewRequest, RequestStates, RequestSteps, Statuses
<1>3. /\ reqs' \in [Requests -> RequestStates]
      /\ \A x \in Requests \ {h} : reqs'[x] = reqs[x]
      /\ reqs'[h] = NewRequest(batch, g.stamp)
  BY <1>2 DEF SyncTypeOK, Deliver
<1> QED BY <1>3 DEF NewRequest, KeepsOthers

\* The operation a request is at has been captured.
LEMMA OpTyped ==
  ASSUME SyncTypeOK, RequestsAreSound, NEW h \in Requests, reqs[h].todo # <<>>
  PROVE  /\ Op(h) \in Ops /\ IsCaptured(Op(h))
         /\ captured[Op(h)] \in Captures
         /\ Cell(h) \in Cells /\ Raw(h) \in Raws /\ captured[Op(h)].expected \in Nat
<1>1. reqs[h].todo \in Seq(Ops)
  BY DEF SyncTypeOK, RequestStates
<1>2. 1 \in DOMAIN reqs[h].todo /\ Op(h) = reqs[h].todo[1] /\ Op(h) \in Ops
  BY <1>1, EmptySeq, LenProperties, HeadTailProperties DEF Op
<1>3. IsCaptured(Op(h))
  BY <1>2 DEF RequestsAreSound
<1>4. captured[Op(h)] \in Captures
  BY <1>2, <1>3 DEF SyncTypeOK, IsCaptured
<1> QED BY <1>2, <1>3, <1>4 DEF Captures, Cell, Raw

LEMMA StoreTyped ==
  ASSUME SyncTypeOK, NEW cell \in Cells, NEW raw \in Raws, StoreAttempt(cell, raw)
  PROVE  /\ attempts' \in [Cells -> Trials] /\ stored' \in [Cells -> SUBSET Raws]
         /\ attempts'[cell].version = attempts[cell].version + 1
         /\ attempts'[cell].value = Canon[raw]
         /\ Canon[raw] \in stored'[cell]
         /\ \A c \in Cells : /\ stored[c] \subseteq stored'[c]
                             /\ c # cell => attempts'[c] = attempts[c]
<1>1. Canon[raw] \in Raws
  BY RawsAssumption
<1>2. /\ attempts[cell] \in Trials /\ attempts \in [Cells -> Trials]
      /\ attempts[cell].version \in Nat
  BY DEF SyncTypeOK, Trials
<1> QED BY <1>1, <1>2 DEF SyncTypeOK, StoreAttempt, Trials

LEMMA RecordTyped ==
  ASSUME SyncTypeOK, NEW o \in Ops, NEW status \in {"applied", "reconciliation", "rejected"},
         NEW reason \in Reasons \union Refusals \union {"none"},
         RecordCaptureOp(o, status, reason)
  PROVE  /\ ledger' \in [Ops -> Decisions \union {Undecided}]
         /\ \A p \in Ops \ {o} : ledger'[p] = ledger[p]
         /\ ledger[o] # Undecided => ledger'[o] = ledger[o]
         /\ ledger[o] = Undecided => ledger'[o] = [status |-> status, reason |-> reason]
         /\ ledger'[o] # Undecided
<1> DEFINE d == [status |-> status, reason |-> reason]
<1>1. d \in Decisions /\ d # Undecided
  BY DEF Decisions, Undecided
<1>2. ledger' = [ledger EXCEPT ![o] = IF ledger[o] = Undecided THEN d ELSE ledger[o]]
  BY DEF RecordCaptureOp
<1> HIDE DEF d
<1>3. /\ ledger' \in [Ops -> Decisions \union {Undecided}]
      /\ \A p \in Ops \ {o} : ledger'[p] = ledger[p]
      /\ ledger[o] # Undecided => ledger'[o] = ledger[o]
      /\ ledger[o] = Undecided => ledger'[o] = d
  BY <1>1, <1>2 DEF SyncTypeOK
<1> QED BY <1>1, <1>3 DEF d

-----------------------------------------------------------------------------
(* Type correctness. *)

RequestVars == <<lockVars, dataVars, writers, historyVars>>

\* The lock moves by its own steps only.
LEMMA LockMoves ==
  ASSUME [SyncNext]_vars
  PROVE  [LockNext]_lockVars
  BY DEF SyncNext, LockStep, OfficeStep, RequestStep, WriterStep, vars, Capture, Deliver, Abort,
         Acknowledge, NotFound, ReadCheckout, CheckCapture, Save, SaveConflict, Record, Route,
         Respond, AnnounceUnit, OnlineCapture, ResolveRead, ResolveVersion, WriterCheck,
         WriterSave, WriterConflict, Settle, WriterAbort

LEMMA WritersTyped ==
  ASSUME SyncTypeOK, WritersAreSound, NEW w \in Writers \union Resolvers, WriterStep(w)
  PROVE  writers' \in [Writers \union Resolvers -> WriterStates \union {IdleWriter}]
<1> USE DEF SyncTypeOK
<1>0. ASSUME writers[w].step # "idle"
      PROVE  writers[w] \in WriterStates /\ attempts[writers[w].cell].version \in Nat
  BY <1>0 DEF IdleWriter, WriterStates, Trials
<1>1. ASSUME WriterDone(w)
      PROVE  writers' \in [Writers \union Resolvers -> WriterStates \union {IdleWriter}]
  BY <1>1 DEF WriterDone
<1>2. ASSUME writers[w].step # "idle", NEW step \in WriterSteps \ {"idle"}, WriterGoto(w, step)
      PROVE  writers' \in [Writers \union Resolvers -> WriterStates \union {IdleWriter}]
  <2>1. [writers[w] EXCEPT !.step = step] \in WriterStates
    BY <1>0, <1>2 DEF WriterStates
  <2>2. writers' = [writers EXCEPT ![w] = [writers[w] EXCEPT !.step = step]]
    BY <1>2 DEF WriterGoto
  <2> QED BY <2>1, <2>2
<1>3. ASSUME ResolveVersion(w)
      PROVE  writers' \in [Writers \union Resolvers -> WriterStates \union {IdleWriter}]
  <2>1. [writers[w] EXCEPT !.step = "check", !.expected = attempts[writers[w].cell].version]
          \in WriterStates
    BY <1>0, <1>3 DEF ResolveVersion, WriterStates, WriterSteps
  <2>2. writers' = [writers EXCEPT ![w] =
          [writers[w] EXCEPT !.step = "check", !.expected = attempts[writers[w].cell].version]]
    BY <1>3, Zenon DEF ResolveVersion
  <2> QED BY <2>1, <2>2
<1>4. {"save", "settle"} \subseteq WriterSteps \ {"idle"}
  BY DEF WriterSteps
<1> QED BY <1>1, <1>2, <1>3, <1>4
     DEF WriterStep, WriterCheck, WriterSave, WriterConflict, Settle, WriterAbort

LEMMA RequestsTyped ==
  ASSUME SyncTypeOK, RequestsAreSound, NEW h \in Requests, RequestStep(h) \/ Abort(h)
  PROVE  KeepsOthers(h)
<1>0. ASSUME reqs[h].step \in {"checkout", "check", "save", "record", "route"}
      PROVE  /\ reqs[h].todo # <<>>
             /\ Cell(h) \in Cells
             /\ reqs[h].reason \in Reasons \union Refusals \union {"none"}
             /\ reqs[h].answer \in Statuses /\ reqs[h].version \in Nat
             /\ reqs[h].todo # <<>> => attempts[Cell(h)].version \in Nat
  BY <1>0, OpTyped DEF RequestsAreSound, SyncTypeOK, RequestStates, Trials
<1>1. CASE Acknowledge(h)
  <2>1. /\ reqs[h].todo # <<>> /\ ledger[Op(h)] \in Decisions
        /\ attempts[Cell(h)].version \in Nat
    BY <1>1, OpTyped DEF Acknowledge, SyncTypeOK, Trials
  <2>2. ledger[Op(h)].status \in Statuses
    BY <2>1 DEF Decisions, Statuses
  <2>3. "duplicate" \in Statuses /\ 0 \in Nat
    BY DEF Statuses
  <2> QED BY <1>1, <2>1, <2>2, <2>3, AnswerEffect DEF Acknowledge
<1>2. CASE NotFound(h)
  BY <1>2, GotoEffect DEF NotFound, RequestSteps, KeepsBatch
<1>3. CASE ReadCheckout(h)
  <2>1. Verdict(reqs[h].stamp) # "none" => Verdict(reqs[h].stamp) \in Reasons
    BY DEF Verdict, Reasons
  <2> QED BY <1>3, <2>1, GotoEffect, RouteAsEffect DEF ReadCheckout, RequestSteps, KeepsBatch
<1>4. CASE CheckCapture(h)
  <2>1. Refusal(Cell(h), Raw(h)) \in Refusals \union {"none"} /\ "rejected" \in Statuses
    BY DEF Refusal, Refusals, Statuses
  <2> QED BY <1>4, <2>1, GotoEffect, RecordAsEffect DEF CheckCapture, RequestSteps, KeepsBatch
<1>5. CASE Save(h)
  <2>1. attempts'[Cell(h)].version \in Nat /\ {"applied", "duplicate"} \subseteq Statuses
    BY <1>0, <1>5, StoreTyped, OpTyped DEF Save, Statuses
  <2> QED BY <1>5, <2>1, RecordAsEffect DEF Save, KeepsBatch
<1>6. CASE SaveConflict(h)
  <2>1. "duplicate" \in Statuses /\ "conflict" \in Reasons
    BY DEF Statuses, Reasons
  <2> QED BY <1>0, <1>6, <2>1, RecordAsEffect, RouteAsEffect DEF SaveConflict, KeepsBatch
<1>7. CASE Record(h)
  BY <1>0, <1>7, AnswerEffect DEF Record
<1>8. CASE Route(h)
  <2>1. "reconciliation" \in Statuses
    BY DEF Statuses
  <2> QED BY <1>0, <1>8, <2>1, AnswerEffect DEF Route
<1>9. CASE Respond(h) \/ Abort(h)
  BY <1>9, IdleEffect DEF Respond, Abort
<1> QED BY <1>1, <1>2, <1>3, <1>4, <1>5, <1>6, <1>7, <1>8, <1>9 DEF RequestStep

\* Every step keeps the state typed.
LEMMA SyncTypeStep ==
  ASSUME SyncInv, [SyncNext]_vars
  PROVE  SyncTypeOK'
<1>0. /\ SyncTypeOK /\ RequestsAreSound /\ WritersAreSound
  BY DEF SyncInv, DataInv
<1>1. LockTypeOK'
  BY <1>0, LockMoves, LockTypeStep DEF SyncTypeOK
<1>2. ASSUME NEW o \in Ops, NEW cell \in Cells, NEW raw \in Raws, Capture(o, cell, raw)
      PROVE  SyncTypeOK'
  <2>1. PICK seen \in 0..attempts[cell].version :
          captured' = [captured EXCEPT ![o] = [cell |-> cell, raw |-> raw, expected |-> seen]]
    BY <1>2 DEF Capture
  <2>2. [cell |-> cell, raw |-> raw, expected |-> seen] \in Captures
    BY <1>0, <2>1 DEF Captures, SyncTypeOK, Trials
  <2>3. captured' \in [Ops -> Captures \union {NoCapture}]
    BY <1>0, <2>1, <2>2 DEF SyncTypeOK
  <2> QED BY <1>0, <1>1, <1>2, <2>3 DEF Capture, SyncTypeOK, dataVars, historyVars
<1>3. ASSUME NEW h \in Requests, NEW batch \in Batches, NEW g \in granted,
             Deliver(h, batch, g.stamp)
      PROVE  SyncTypeOK'
  BY <1>0, <1>1, <1>3, DeliverEffect
  DEF Deliver, SyncTypeOK, KeepsOthers, dataVars, historyVars
<1>4. ASSUME NEW h \in Requests, RequestStep(h) \/ Abort(h)
      PROVE  SyncTypeOK'
  <2>1. reqs' \in [Requests -> RequestStates]
    BY <1>0, <1>4, RequestsTyped DEF KeepsOthers
  <2>2. CASE Save(h)
    <3>1. /\ attempts' \in [Cells -> Trials] /\ stored' \in [Cells -> SUBSET Raws]
          /\ Op(h) \in Ops
      BY <1>0, <2>2, OpTyped, StoreTyped DEF Save, RequestsAreSound
    <3>2. replayed' \in [Ops -> Nat]
      BY <1>0, <2>2, <3>1 DEF Save, SyncTypeOK
    <3> QED BY <1>0, <1>1, <2>1, <2>2, <3>1, <3>2 DEF Save, SyncTypeOK
  <2>3. CASE Record(h)
    <3>1. /\ Op(h) \in Ops /\ reqs[h].reason \in Reasons \union Refusals \union {"none"}
      BY <1>0, <2>3, OpTyped DEF Record, RequestsAreSound, SyncTypeOK, RequestStates
    <3>2. ledger' \in [Ops -> Decisions \union {Undecided}]
      BY <1>0, <2>3, <3>1, RecordTyped DEF Record
    <3> QED BY <1>0, <1>1, <2>1, <2>3, <3>2 DEF Record, SyncTypeOK, historyVars
  <2>4. CASE Route(h)
    <3>1. Op(h) \in Ops /\ reqs[h].reason \in Reasons
      BY <1>0, <2>4, OpTyped DEF Route, RequestsAreSound
    <3>2. ledger' \in [Ops -> Decisions \union {Undecided}]
      BY <1>0, <2>4, <3>1, RecordTyped DEF Route
    <3>3. [op |-> Op(h), reason |-> reqs[h].reason, status |-> "pending"] \in ItemRows
      BY <3>1 DEF ItemRows
    <3>4. items' \in [Items -> ItemRows \union {NoItem}]
      BY <1>0, <2>4, <3>3 DEF Route, SyncTypeOK
    <3> QED BY <1>0, <1>1, <2>1, <2>4, <3>2, <3>4 DEF Route, SyncTypeOK, historyVars
  <2>5. CASE Respond(h)
    BY <1>0, <1>1, <2>1, <2>5 DEF Respond, SyncTypeOK, RequestStates, dataVars
  <2> QED
    BY <1>0, <1>1, <1>4, <2>1, <2>2, <2>3, <2>4, <2>5
    DEF RequestStep, Abort, Acknowledge, NotFound, ReadCheckout, CheckCapture, SaveConflict,
        SyncTypeOK, dataVars, historyVars
<1>5. ASSUME NEW w \in Writers, NEW cell \in Registered, NEW raw \in Valid,
             OnlineCapture(w, cell, raw)
      PROVE  SyncTypeOK'
  <2>1. PICK seen \in 0..attempts[cell].version :
          writers' = [writers EXCEPT ![w] =
            [step |-> "check", cell |-> cell, raw |-> raw, expected |-> seen,
             item |-> "none", apply |-> TRUE]]
    BY <1>5 DEF OnlineCapture
  <2>2. cell \in Cells /\ raw \in Raws /\ seen \in Nat
    BY <1>0, <2>1, CellsAssumption, RawsAssumption DEF SyncTypeOK, Trials
  <2>3. writers' \in [Writers \union Resolvers -> WriterStates \union {IdleWriter}]
    BY <1>0, <2>1, <2>2 DEF SyncTypeOK, WriterStates, WriterSteps
  <2> QED BY <1>0, <1>1, <1>5, <2>3 DEF OnlineCapture, SyncTypeOK, dataVars, historyVars
<1>6. ASSUME NEW w \in Resolvers, NEW i \in Items, NEW apply \in BOOLEAN,
             ResolveRead(w, i, apply)
      PROVE  SyncTypeOK'
  <2>1. items[i] # NoItem
    BY <1>6 DEF ResolveRead, NoItem
  <2>2. items[i].op \in Ops /\ IsCaptured(items[i].op)
    BY <1>0, <2>1 DEF SyncTypeOK, ItemRows, SyncInv, DataInv, RecordsRefer
  <2>3. ItemCapture(i).cell \in Cells /\ ItemCapture(i).raw \in Raws
    BY <1>0, <2>2 DEF SyncTypeOK, IsCaptured, ItemCapture, Captures
  <2>4. writers' \in [Writers \union Resolvers -> WriterStates \union {IdleWriter}]
    BY <1>0, <1>6, <2>3 DEF ResolveRead, SyncTypeOK, WriterStates, WriterSteps
  <2> QED BY <1>0, <1>1, <1>6, <2>4 DEF ResolveRead, SyncTypeOK, dataVars, historyVars
<1>7. ASSUME NEW w \in Writers \union Resolvers, WriterStep(w)
      PROVE  SyncTypeOK'
  <2>1. writers' \in [Writers \union Resolvers -> WriterStates \union {IdleWriter}]
    BY <1>0, <1>7, WritersTyped
  <2>2. CASE WriterSave(w)
    <3>1. writers[w].cell \in Cells /\ writers[w].raw \in Raws
      BY <1>0, <2>2 DEF WriterSave, SyncTypeOK, WriterStates, IdleWriter
    <3>2. attempts' \in [Cells -> Trials] /\ stored' \in [Cells -> SUBSET Raws]
      BY <1>0, <2>2, <3>1, StoreTyped DEF WriterSave
    <3> QED BY <1>0, <1>1, <2>1, <2>2, <3>2 DEF WriterSave, SyncTypeOK
  <2>3. CASE Settle(w)
    <3> DEFINE i == writers[w].item
               status == IF writers[w].apply THEN "applied" ELSE "discarded"
    <3>1. /\ items' = IF items[i].status = "pending"
                        THEN [items EXCEPT ![i].status = status] ELSE items
          /\ i \in Items /\ items[i] # NoItem
      BY <1>0, <2>3 DEF Settle, WritersAreSound, SyncTypeOK, WriterStates, IdleWriter
    <3>2. items[i] \in ItemRows
      BY <1>0, <3>1 DEF SyncTypeOK
    <3>3. [items[i] EXCEPT !.status = status] \in ItemRows
      BY <3>2 DEF ItemRows
    <3>4. items' \in [Items -> ItemRows \union {NoItem}]
      BY <1>0, <3>1, <3>3 DEF SyncTypeOK
    <3> QED BY <1>0, <1>1, <2>1, <2>3, <3>4 DEF Settle, SyncTypeOK, historyVars
  <2> QED
    BY <1>0, <1>1, <1>7, <2>1, <2>2, <2>3
    DEF WriterStep, ResolveVersion, WriterCheck, WriterConflict, WriterAbort,
        SyncTypeOK, dataVars, historyVars
<1>8. CASE AnnounceUnit
  BY <1>0, <1>1, <1>8 DEF AnnounceUnit, SyncTypeOK, historyVars
<1>9. CASE LockStep \/ UNCHANGED vars
  BY <1>0, <1>1, <1>9 DEF LockStep, SyncTypeOK, vars, dataVars, historyVars
<1> QED BY <1>2, <1>3, <1>4, <1>5, <1>6, <1>7, <1>8, <1>9 DEF SyncNext, OfficeStep

-----------------------------------------------------------------------------
(* What never changes back: captures, values that were stored, decisions,   *)
(* and the existence of an item.                                            *)

Grows ==
  /\ \A o \in Ops : IsCaptured(o) => captured'[o] = captured[o]
  /\ \A c \in Cells : /\ attempts'[c].version >= attempts[c].version
                      /\ stored[c] \subseteq stored'[c]
                      /\ attempts'[c] # attempts[c] =>
                           attempts'[c].version = attempts[c].version + 1
  /\ \A o \in Ops : ledger[o] # Undecided => ledger'[o] = ledger[o]
  /\ \A i \in Items : items[i] # NoItem =>
       /\ items'[i] # NoItem /\ items'[i].op = items[i].op
       /\ items[i].status # "pending" => items'[i] = items[i]

LEMMA SyncGrows ==
  ASSUME SyncInv, [SyncNext]_vars
  PROVE  Grows
<1>0. /\ SyncTypeOK /\ RequestsAreSound /\ WritersAreSound
      /\ \A c \in Cells : attempts[c].version \in Nat
  BY DEF SyncInv, DataInv, SyncTypeOK, Trials
<1>1. ASSUME NEW o \in Ops, NEW cell \in Cells, NEW raw \in Raws, Capture(o, cell, raw)
      PROVE  Grows
  BY <1>0, <1>1 DEF Capture, Grows, IsCaptured, SyncTypeOK, historyVars
<1>2. ASSUME NEW h \in Requests, Save(h) PROVE Grows
  <2>1. Cell(h) \in Cells /\ Raw(h) \in Raws /\ StoreAttempt(Cell(h), Raw(h))
    BY <1>0, <1>2, OpTyped DEF Save, RequestsAreSound
  <2> QED BY <1>0, <1>2, <2>1, StoreTyped DEF Save, Grows
<1>3. ASSUME NEW h \in Requests, Record(h) PROVE Grows
  <2>1. /\ Op(h) \in Ops /\ reqs[h].reason \in Reasons \union Refusals \union {"none"}
    BY <1>0, <1>3, OpTyped DEF Record, RequestsAreSound, SyncTypeOK, RequestStates
  <2>2. \A o \in Ops : ledger[o] # Undecided => ledger'[o] = ledger[o]
    BY <1>0, <1>3, <2>1, RecordTyped DEF Record
  <2> QED BY <1>0, <1>3, <2>2 DEF Record, Grows, historyVars
<1>4. ASSUME NEW h \in Requests, Route(h) PROVE Grows
  <2>1. Op(h) \in Ops /\ reqs[h].reason \in Reasons
    BY <1>0, <1>4, OpTyped DEF Route, RequestsAreSound
  <2>2. \A o \in Ops : ledger[o] # Undecided => ledger'[o] = ledger[o]
    BY <1>0, <1>4, <2>1, RecordTyped DEF Route
  <2>3. \A i \in Items : items[i] # NoItem => items'[i] = items[i]
    BY <1>0, <1>4 DEF Route, SyncTypeOK
  <2> QED BY <1>0, <1>4, <2>2, <2>3 DEF Route, Grows, historyVars
<1>5. ASSUME NEW w \in Writers \union Resolvers, WriterSave(w) PROVE Grows
  <2>1. writers[w].cell \in Cells /\ writers[w].raw \in Raws
    BY <1>0, <1>5 DEF WriterSave, SyncTypeOK, WriterStates, IdleWriter
  <2> QED BY <1>0, <1>5, <2>1, StoreTyped DEF WriterSave, Grows
<1>6. ASSUME NEW w \in Writers \union Resolvers, Settle(w) PROVE Grows
  <2>1. PICK i \in Items, status \in {"applied", "discarded"} :
          items' = IF items[i].status = "pending"
                     THEN [items EXCEPT ![i] = [items[i] EXCEPT !.status = status]] ELSE items
    <3>1. writers[w].item \in Items
      BY <1>0, <1>6 DEF Settle, WritersAreSound, SyncTypeOK, WriterStates, IdleWriter
    <3> QED BY <3>1, <1>6 DEF Settle
  <2>2. ASSUME NEW j \in Items, items[j] # NoItem
        PROVE  /\ items'[j] # NoItem /\ items'[j].op = items[j].op
               /\ items[j].status # "pending" => items'[j] = items[j]
    <3>1. items[j] \in ItemRows
      BY <1>0, <2>2 DEF SyncTypeOK
    <3>2. [items[j] EXCEPT !.status = status].status = status
      BY <3>1 DEF ItemRows
    <3> QED BY <1>0, <2>1, <2>2, <3>1, <3>2 DEF SyncTypeOK, ItemRows, NoItem
  <2> QED BY <1>0, <1>6, <2>2 DEF Settle, Grows, historyVars
<1>7. ASSUME UNCHANGED <<captured, attempts, ledger, items, stored>> PROVE Grows
  BY <1>0, <1>7 DEF Grows
<1> QED
  BY <1>1, <1>2, <1>3, <1>4, <1>5, <1>6, <1>7
  DEF SyncNext, OfficeStep, RequestStep, WriterStep, LockStep, Deliver, Abort, Acknowledge,
      NotFound, ReadCheckout, CheckCapture, SaveConflict, Respond, AnnounceUnit,
      OnlineCapture, ResolveRead, ResolveVersion, WriterCheck, WriterConflict, WriterAbort,
      vars, dataVars, historyVars

\* What was stored, and what the office has an item for, stay so.
LEMMA FactsStand ==
  ASSUME SyncInv, [SyncNext]_vars, NEW o \in Ops, IsCaptured(o)
  PROVE  /\ captured'[o] = captured[o] /\ captured'[o] # NoCapture
         /\ WasStored(o) => Canon[captured[o].raw] \in stored'[captured[o].cell]
         /\ HasItem(o) => \E i \in Items : items'[i] # NoItem /\ items'[i].op = o
<1>1. Grows /\ captured[o] \in Captures
  BY SyncGrows DEF SyncInv, SyncTypeOK, IsCaptured
<1> QED BY <1>1 DEF Grows, IsCaptured, WasStored, Value, HasItem, Captures

\* The trial moves forward, so a capture stays one that was seen, and a replay
\* that moved it past the capture's version has moved it for good.
LEMMA CapturesAreSeenStep ==
  ASSUME SyncInv, [SyncNext]_vars
  PROVE  CapturesAreSeen'
<1>0. SyncTypeOK /\ CapturesAreSeen /\ Grows /\ SyncTypeOK'
  BY SyncGrows, SyncTypeStep DEF SyncInv, DataInv
<1> SUFFICES ASSUME NEW o \in Ops, captured'[o] # NoCapture
             PROVE  captured'[o].expected <= attempts'[captured'[o].cell].version
  BY DEF CapturesAreSeen, IsCaptured
<1>1. CASE IsCaptured(o)
  <2>1. captured[o] \in Captures /\ captured'[o] = captured[o]
    BY <1>0, <1>1 DEF SyncTypeOK, IsCaptured, Grows
  <2>2. /\ captured[o].cell \in Cells /\ captured[o].expected \in Nat
        /\ attempts[captured[o].cell].version \in Nat
        /\ attempts'[captured[o].cell].version \in Nat
    BY <1>0, <2>1 DEF Captures, SyncTypeOK, Trials
  <2> QED BY <1>0, <1>1, <2>1, <2>2 DEF CapturesAreSeen, Grows
<1>2. CASE ~IsCaptured(o)
  <2>1. PICK cell \in Cells, raw \in Raws : Capture(o, cell, raw)
    BY <1>0, <1>2
    DEF SyncNext, OfficeStep, RequestStep, WriterStep, LockStep, Capture, Deliver, Abort,
        Acknowledge, NotFound, ReadCheckout, CheckCapture, Save, SaveConflict, Record, Route,
        Respond, AnnounceUnit, OnlineCapture, ResolveRead, ResolveVersion, WriterCheck,
        WriterSave, WriterConflict, Settle, WriterAbort, vars, dataVars, historyVars,
        IsCaptured, SyncTypeOK
  <2> QED BY <1>0, <2>1 DEF Capture, SyncTypeOK, Trials
<1> QED BY <1>1, <1>2

LEMMA TrialsAreStoredStep ==
  ASSUME SyncInv, [SyncNext]_vars
  PROVE  TrialsAreStored'
<1>0. /\ SyncTypeOK /\ TrialsAreStored /\ Grows /\ RequestsAreSound /\ WritersAreSound
  BY SyncGrows DEF SyncInv, DataInv
<1> SUFFICES ASSUME NEW c \in Cells, attempts'[c].version > 0
             PROVE  /\ attempts'[c].value \in stored'[c]
                    /\ Canon[attempts'[c].value] = attempts'[c].value
  BY DEF TrialsAreStored
<1>1. CASE attempts'[c] = attempts[c]
  BY <1>0, <1>1 DEF TrialsAreStored, Grows
<1>2. CASE attempts'[c] # attempts[c]
  <2>1. PICK raw \in Valid : StoreAttempt(c, raw)
    <3>1. CASE \E h \in Requests : Save(h)
      <4>1. PICK h \in Requests : Save(h)
        BY <3>1
      <4>2. Cell(h) \in Cells /\ Raw(h) \in Valid /\ Raw(h) \in Raws
        BY <1>0, <4>1, OpTyped DEF Save, RequestsAreSound
      <4> QED BY <1>0, <1>2, <4>1, <4>2, StoreTyped DEF Save
    <3>2. CASE \E w \in Writers \union Resolvers : WriterSave(w)
      <4>1. PICK w \in Writers \union Resolvers : WriterSave(w)
        BY <3>2
      <4>2. /\ writers[w].cell \in Cells /\ writers[w].raw \in Valid
            /\ writers[w].raw \in Raws
        BY <1>0, <4>1 DEF WriterSave, WritersAreSound, SyncTypeOK, WriterStates, IdleWriter
      <4> QED BY <1>0, <1>2, <4>1, <4>2, StoreTyped DEF WriterSave
    <3> QED
      BY <1>2, <3>1, <3>2
      DEF SyncNext, OfficeStep, RequestStep, WriterStep, LockStep, Capture, Deliver, Abort,
          Acknowledge, NotFound, ReadCheckout, CheckCapture, SaveConflict, Record, Route,
          Respond, AnnounceUnit, OnlineCapture, ResolveRead, ResolveVersion, WriterCheck,
          WriterConflict, Settle, WriterAbort, vars, dataVars, historyVars
  <2>2. raw \in Raws /\ Canon[Canon[raw]] = Canon[raw]
    BY RawsAssumption
  <2> QED BY <1>0, <2>1, <2>2, StoreTyped
<1> QED BY <1>1, <1>2

LEMMA ReplaysMoveOnStep ==
  ASSUME SyncInv, [SyncNext]_vars
  PROVE  ReplaysMoveOn'
<1>0. /\ SyncTypeOK /\ ReplaysMoveOn /\ Grows /\ RequestsAreSound /\ SyncTypeOK'
  BY SyncGrows, SyncTypeStep DEF SyncInv, DataInv
<1> SUFFICES ASSUME NEW o \in Ops
             PROVE  /\ replayed'[o] <= 1
                    /\ replayed'[o] = 1 =>
                         /\ captured'[o] # NoCapture
                         /\ attempts'[captured'[o].cell].version > captured'[o].expected
  BY DEF ReplaysMoveOn, IsCaptured
<1>1. ASSUME IsCaptured(o)
      PROVE  /\ captured'[o] = captured[o] /\ captured'[o] # NoCapture
             /\ captured[o].cell \in Cells /\ captured[o].expected \in Nat
             /\ attempts[captured[o].cell].version \in Nat
             /\ attempts'[captured[o].cell].version \in Nat
             /\ attempts'[captured[o].cell].version >= attempts[captured[o].cell].version
  <2>1. captured[o] \in Captures
    BY <1>0, <1>1 DEF SyncTypeOK, IsCaptured
  <2> QED BY <1>0, <1>1, <2>1 DEF Captures, SyncTypeOK, Trials, Grows, IsCaptured
<1>2. CASE replayed'[o] = replayed[o]
  BY <1>0, <1>1, <1>2 DEF ReplaysMoveOn, SyncTypeOK
<1>3. CASE replayed'[o] # replayed[o]
  <2>1. PICK h \in Requests : Save(h)
    BY <1>3
    DEF SyncNext, OfficeStep, RequestStep, WriterStep, LockStep, Capture, Deliver, Abort,
        Acknowledge, NotFound, ReadCheckout, CheckCapture, SaveConflict, Record, Route,
        Respond, AnnounceUnit, OnlineCapture, ResolveRead, ResolveVersion, WriterCheck,
        WriterSave, WriterConflict, Settle, WriterAbort, vars, dataVars, historyVars
  <2>2. /\ Op(h) \in Ops /\ IsCaptured(Op(h)) /\ Cell(h) \in Cells /\ Raw(h) \in Raws
    BY <1>0, <2>1, OpTyped DEF Save, RequestsAreSound
  <2>3. o = Op(h) /\ replayed'[o] = replayed[o] + 1
    BY <1>0, <1>3, <2>1, <2>2 DEF Save, SyncTypeOK
  <2>4. attempts[captured[o].cell].version = captured[o].expected
    BY <2>1, <2>3 DEF Save, VersionMatches, Cell
  <2>5. replayed[o] = 0
    <3>1. replayed[o] \in Nat /\ replayed[o] <= 1
      BY <1>0 DEF ReplaysMoveOn, SyncTypeOK
    <3>2. replayed[o] # 1
      BY <1>0, <1>1, <2>2, <2>3, <2>4 DEF ReplaysMoveOn
    <3> QED BY <3>1, <3>2
  <2>6. attempts'[captured[o].cell].version = attempts[captured[o].cell].version + 1
    BY <1>0, <2>1, <2>2, <2>3, StoreTyped DEF Save, Cell
  <2> QED BY <1>1, <2>2, <2>3, <2>4, <2>5, <2>6
<1> QED BY <1>2, <1>3

\* What a request is about to record is true: a save stored the value, and a
\* conflict is answered as a duplicate only when the trial holds the value.
LEMMA RequestsAreSoundStep ==
  ASSUME SyncInv, [SyncNext]_vars
  PROVE  RequestsAreSound'
<1>0. /\ SyncTypeOK /\ RequestsAreSound /\ TrialsAreStored /\ CapturesAreSeen
      /\ SyncTypeOK' /\ Grows
  BY SyncTypeStep, SyncGrows DEF SyncInv, DataInv
<1> SUFFICES ASSUME NEW h \in Requests
             PROVE  /\ \A n \in DOMAIN reqs'[h].todo : captured'[reqs'[h].todo[n]] # NoCapture
                    /\ reqs'[h].step \in {"checkout", "check", "save", "record", "route"}
                         => reqs'[h].todo # <<>>
                    /\ reqs'[h].step = "save" => captured'[Head(reqs'[h].todo)].raw \in Valid
                    /\ reqs'[h].step = "route" => reqs'[h].reason \in Reasons
                    /\ reqs'[h].step = "record" =>
                         /\ reqs'[h].answer # "reconciliation"
                         /\ reqs'[h].answer # "rejected" =>
                              Canon[captured'[Head(reqs'[h].todo)].raw]
                                \in stored'[captured'[Head(reqs'[h].todo)].cell]
  BY DEF RequestsAreSound, IsCaptured, Raw, Op, WasStored, Value
<1> DEFINE
      StillCaptured == \A n \in DOMAIN reqs'[h].todo : captured'[reqs'[h].todo[n]] # NoCapture
      StoredNext == Canon[captured'[Op(h)].raw] \in stored'[captured'[Op(h)].cell]
      SoundNext ==
        /\ StillCaptured
        /\ reqs'[h].step \in {"checkout", "check", "save", "record", "route"}
             => reqs'[h].todo # <<>>
        /\ reqs'[h].step = "save" => captured'[Head(reqs'[h].todo)].raw \in Valid
        /\ reqs'[h].step = "route" => reqs'[h].reason \in Reasons
        /\ reqs'[h].step = "record" =>
             /\ reqs'[h].answer # "reconciliation"
             /\ reqs'[h].answer # "rejected" =>
                  Canon[captured'[Head(reqs'[h].todo)].raw]
                    \in stored'[captured'[Head(reqs'[h].todo)].cell]
<1>1. /\ \A n \in DOMAIN reqs[h].todo : IsCaptured(reqs[h].todo[n])
      /\ reqs[h].step \in {"checkout", "check", "save", "record", "route"} => reqs[h].todo # <<>>
      /\ reqs[h].step = "save" => Raw(h) \in Valid
      /\ reqs[h].step = "route" => reqs[h].reason \in Reasons
      /\ reqs[h].step = "record" => /\ reqs[h].answer # "reconciliation"
                                    /\ reqs[h].answer # "rejected" => WasStored(Op(h))
  BY <1>0 DEF RequestsAreSound
<1>2. /\ reqs[h].todo \in Seq(Ops) /\ reqs'[h].todo \in Seq(Ops)
      /\ \A n \in DOMAIN reqs[h].todo :
           reqs[h].todo[n] \in Ops /\ captured'[reqs[h].todo[n]] # NoCapture
  <2>1. reqs[h].todo \in Seq(Ops) /\ reqs'[h].todo \in Seq(Ops)
    BY <1>0 DEF SyncTypeOK, RequestStates
  <2>2. \A n \in DOMAIN reqs[h].todo : reqs[h].todo[n] \in Ops
    BY <2>1, LenProperties, ElementOfSeq
  <2> QED BY <1>1, <2>1, <2>2, FactsStand
<1>3. ASSUME reqs'[h].todo = reqs[h].todo
      PROVE  /\ StillCaptured
             /\ Head(reqs'[h].todo) = Op(h)
             /\ reqs[h].todo # <<>> => /\ captured'[Op(h)].raw = Raw(h)
                                       /\ WasStored(Op(h)) => StoredNext
  BY <1>0, <1>2, <1>3, OpTyped, FactsStand DEF Op, Raw
<1>4. ASSUME reqs[h].todo # <<>>, reqs'[h].todo = Tail(reqs[h].todo),
             reqs'[h].step = "lookup"
      PROVE  SoundNext
  <2>1. ASSUME NEW n \in DOMAIN reqs'[h].todo
        PROVE  n + 1 \in DOMAIN reqs[h].todo /\ reqs'[h].todo[n] = reqs[h].todo[n + 1]
    <3>1. /\ Len(Tail(reqs[h].todo)) = Len(reqs[h].todo) - 1
          /\ \A i \in 1..Len(Tail(reqs[h].todo)) :
               Tail(reqs[h].todo)[i] = reqs[h].todo[i + 1]
      BY <1>2, <1>4, HeadTailProperties
    <3>2. /\ DOMAIN reqs'[h].todo = 1..Len(Tail(reqs[h].todo))
          /\ DOMAIN reqs[h].todo = 1..Len(reqs[h].todo)
          /\ Len(reqs[h].todo) \in Nat
      BY <1>2, <1>4, LenProperties
    <3> QED BY <1>4, <2>1, <3>1, <3>2
  <2> QED BY <1>2, <1>4, <2>1
<1>5. ASSUME reqs'[h] = reqs[h] PROVE SoundNext
  <2>1. reqs'[h].step = "save" => captured'[Head(reqs'[h].todo)].raw \in Valid
    BY <1>1, <1>3, <1>5
  <2>2. reqs'[h].step = "record" /\ reqs'[h].answer # "rejected" =>
          Canon[captured'[Head(reqs'[h].todo)].raw]
            \in stored'[captured'[Head(reqs'[h].todo)].cell]
    BY <1>1, <1>3, <1>5
  <2> QED BY <1>1, <1>3, <1>5, <2>1, <2>2
<1>6. ASSUME NEW batch \in Batches, NEW g \in granted, Deliver(h, batch, g.stamp)
      PROVE  SoundNext
  <2>1. captured' = captured
    BY <1>6 DEF Deliver, dataVars
  <2> QED BY <1>0, <1>6, <2>1, DeliverEffect, BatchTyped DEF IsCaptured
<1>7. CASE Acknowledge(h)
  <2>1. /\ reqs[h].todo # <<>> /\ ledger[Op(h)] \in Decisions
        /\ attempts[Cell(h)].version \in Nat
    BY <1>0, <1>7, OpTyped DEF Acknowledge, SyncTypeOK, Trials
  <2>2. ledger[Op(h)].status \in Statuses /\ "duplicate" \in Statuses /\ 0 \in Nat
    BY <2>1 DEF Decisions, Statuses
  <2> QED BY <1>0, <1>4, <1>7, <2>1, <2>2, AnswerEffect DEF Acknowledge
<1>8. CASE NotFound(h)
  BY <1>0, <1>3, <1>8, GotoEffect DEF NotFound, RequestSteps, KeepsBatch
<1>9. CASE ReadCheckout(h)
  <2>1. Verdict(reqs[h].stamp) # "none" => Verdict(reqs[h].stamp) \in Reasons
    BY DEF Verdict, Reasons
  <2>2. reqs[h].todo # <<>>
    BY <1>1, <1>9 DEF ReadCheckout
  <2> QED
    BY <1>0, <1>3, <1>9, <2>1, <2>2, GotoEffect, RouteAsEffect
    DEF ReadCheckout, RequestSteps, KeepsBatch
<1>10. CASE CheckCapture(h)
  <2>1. /\ Refusal(Cell(h), Raw(h)) \in Refusals \union {"none"} /\ "rejected" \in Statuses
        /\ Refusal(Cell(h), Raw(h)) = "none" => Raw(h) \in Valid
    BY DEF Refusal, Refusals, Statuses
  <2>2. reqs[h].todo # <<>>
    BY <1>1, <1>10 DEF CheckCapture
  <2> QED
    BY <1>0, <1>3, <1>10, <2>1, <2>2, GotoEffect, RecordAsEffect
    DEF CheckCapture, RequestSteps, KeepsBatch
<1>11. CASE Save(h)
  <2>1. /\ reqs[h].todo # <<>> /\ Cell(h) \in Cells /\ Raw(h) \in Raws /\ Op(h) \in Ops
        /\ attempts[Cell(h)].version \in Nat
    BY <1>0, <1>1, <1>11, OpTyped DEF Save, SyncTypeOK, Trials
  <2>2. /\ attempts'[Cell(h)].version \in Nat /\ Canon[Raw(h)] \in stored'[Cell(h)]
        /\ captured' = captured
    BY <1>0, <1>11, <2>1, StoreTyped DEF Save
  <2>3. "applied" \in Statuses
    BY DEF Statuses
  <2>4. KeepsBatch(h) /\ reqs'[h].step = "record" /\ reqs'[h].answer = "applied"
    BY <1>0, <1>11, <2>2, <2>3, RecordAsEffect DEF Save
  <2>5. StoredNext
    BY <2>2 DEF Cell, Raw
  <2> QED BY <1>3, <2>1, <2>4, <2>5 DEF KeepsBatch
<1>12. CASE SaveConflict(h)
  <2>1. /\ reqs[h].todo # <<>> /\ Cell(h) \in Cells /\ Op(h) \in Ops /\ IsCaptured(Op(h))
        /\ captured[Op(h)].expected \in Nat /\ attempts[Cell(h)].version \in Nat
    BY <1>0, <1>1, <1>12, OpTyped DEF SaveConflict, SyncTypeOK, Trials
  <2>2. attempts[Cell(h)].version > 0
    BY <1>0, <1>12, <2>1 DEF SaveConflict, VersionMatches, CapturesAreSeen, Cell
  <2>3. SameAttempt(Cell(h), Raw(h)) => WasStored(Op(h))
    BY <1>0, <2>1, <2>2 DEF SameAttempt, TrialsAreStored, WasStored, Value, Cell, Raw
  <2>4. {"duplicate"} \subseteq Statuses /\ "conflict" \in Reasons
    BY DEF Statuses, Reasons
  <2>5. CASE SameAttempt(Cell(h), Raw(h))
    <3>1. KeepsBatch(h) /\ reqs'[h].step = "record" /\ reqs'[h].answer = "duplicate"
      BY <1>0, <1>12, <2>1, <2>4, <2>5, RecordAsEffect DEF SaveConflict
    <3> QED BY <1>3, <2>1, <2>3, <2>5, <3>1 DEF KeepsBatch
  <2>6. CASE ~SameAttempt(Cell(h), Raw(h))
    <3>1. KeepsBatch(h) /\ reqs'[h].step = "route" /\ reqs'[h].reason = "conflict"
      BY <1>0, <1>12, <2>4, <2>6, RouteAsEffect DEF SaveConflict
    <3> QED BY <1>3, <2>1, <2>4, <3>1 DEF KeepsBatch
  <2> QED BY <2>5, <2>6
<1>13. CASE Record(h)
  <2>1. reqs[h].todo # <<>> /\ reqs[h].answer \in Statuses /\ reqs[h].version \in Nat
    BY <1>0, <1>1, <1>13 DEF Record, SyncTypeOK, RequestStates
  <2> QED BY <1>0, <1>4, <1>13, <2>1, AnswerEffect DEF Record
<1>14. CASE Route(h)
  <2>1. reqs[h].todo # <<>> /\ "reconciliation" \in Statuses
    BY <1>1, <1>14 DEF Route, Statuses
  <2> QED BY <1>0, <1>4, <1>14, <2>1, AnswerEffect DEF Route
<1>15. CASE Respond(h) \/ Abort(h)
  BY <1>0, <1>15, IdleEffect DEF Respond, Abort, IdleRequest
<1>16. ASSUME NEW x \in Requests, x # h, RequestStep(x) \/ Abort(x)
              \/ (\E batch \in Batches, g \in granted : Deliver(x, batch, g.stamp))
       PROVE  reqs'[h] = reqs[h]
  BY <1>0, <1>16, RequestsTyped, DeliverEffect DEF KeepsOthers
<1>17. ASSUME UNCHANGED reqs PROVE SoundNext
  BY <1>5, <1>17
<1>18. CASE \E x \in Requests : \/ RequestStep(x) \/ Abort(x)
                               \/ \E batch \in Batches, g \in granted : Deliver(x, batch, g.stamp)
  BY <1>5, <1>6, <1>7, <1>8, <1>9, <1>10, <1>11, <1>12, <1>13, <1>14, <1>15, <1>16, <1>18
  DEF RequestStep
<1> HIDE DEF SoundNext
<1>19. \/ UNCHANGED reqs
       \/ \E x \in Requests :
            \/ RequestStep(x) \/ Abort(x)
            \/ \E batch \in Batches, g \in granted : Deliver(x, batch, g.stamp)
  BY DEF SyncNext, OfficeStep, WriterStep, LockStep, Capture, AnnounceUnit, OnlineCapture,
      ResolveRead, ResolveVersion, WriterCheck, WriterSave, WriterConflict, Settle,
      WriterAbort, vars, dataVars, historyVars
<1> QED BY <1>17, <1>18, <1>19 DEF SoundNext

\* A writer is about to save a valid value; a resolution works on the capture
\* of an item that exists, and settles it as applied only after storing it.
LEMMA WritersAreSoundStep ==
  ASSUME SyncInv, [SyncNext]_vars
  PROVE  WritersAreSound'
<1>0. /\ SyncTypeOK /\ WritersAreSound /\ SyncTypeOK' /\ Grows /\ RecordsRefer
  BY SyncTypeStep, SyncGrows DEF SyncInv, DataInv
<1> SUFFICES ASSUME NEW w \in Writers \union Resolvers, writers'[w].step # "idle"
             PROVE  /\ writers'[w].step = "save" => writers'[w].raw \in Valid
                    /\ writers'[w].item # "none" =>
                         /\ items'[writers'[w].item] # NoItem
                         /\ writers'[w].cell = captured'[items'[writers'[w].item].op].cell
                         /\ writers'[w].raw = captured'[items'[writers'[w].item].op].raw
                    /\ writers'[w].step = "settle" =>
                         /\ writers'[w].item # "none"
                         /\ writers'[w].apply =>
                              Canon[writers'[w].raw] \in stored'[writers'[w].cell]
  BY DEF WritersAreSound, ItemCapture
<1> DEFINE
      Refers(x) == x.item # "none" =>
        /\ items'[x.item] # NoItem
        /\ x.cell = captured'[items'[x.item].op].cell
        /\ x.raw = captured'[items'[x.item].op].raw
      SoundNext ==
        /\ writers'[w].step = "save" => writers'[w].raw \in Valid
        /\ Refers(writers'[w])
        /\ writers'[w].step = "settle" =>
             /\ writers'[w].item # "none"
             /\ writers'[w].apply => Canon[writers'[w].raw] \in stored'[writers'[w].cell]
<1> SUFFICES SoundNext
  OBVIOUS
<1>1. ASSUME NEW i \in Items, items[i] # NoItem
      PROVE  /\ items'[i] # NoItem /\ items'[i].op = items[i].op
             /\ captured'[items'[i].op] = ItemCapture(i)
  <2>1. items[i].op \in Ops /\ IsCaptured(items[i].op)
    BY <1>0, <1>1 DEF SyncTypeOK, ItemRows, RecordsRefer
  <2> QED BY <1>0, <1>1, <2>1 DEF Grows, ItemCapture
<1>2. ASSUME writers[w].step # "idle"
      PROVE  /\ writers[w] \in WriterStates
             /\ Refers(writers[w])
             /\ stored[writers[w].cell] \subseteq stored'[writers[w].cell]
  <2>1. writers[w] \in WriterStates
    BY <1>0, <1>2 DEF SyncTypeOK, IdleWriter
  <2>2. writers[w].item # "none" => writers[w].item \in Items
    BY <2>1 DEF WriterStates
  <2>3. Refers(writers[w])
    BY <1>0, <1>1, <1>2, <2>2 DEF WritersAreSound
  <2> QED BY <1>0, <2>1, <2>3 DEF WriterStates, Grows
<1>3. CASE writers'[w] = writers[w]
  BY <1>0, <1>2, <1>3 DEF WritersAreSound
<1>4. ASSUME writers[w].step # "idle", NEW step \in WriterSteps \ {"idle"},
             WriterGoto(w, step)
      PROVE  /\ writers'[w].step = step /\ writers'[w].item = writers[w].item
             /\ writers'[w].cell = writers[w].cell /\ writers'[w].raw = writers[w].raw
             /\ writers'[w].apply = writers[w].apply
  BY <1>0, <1>2, <1>4 DEF SyncTypeOK, WriterGoto, WriterStates
<1>5. ASSUME NEW cell \in Registered, NEW raw \in Valid, OnlineCapture(w, cell, raw)
      PROVE  SoundNext
  BY <1>0, <1>5 DEF OnlineCapture, SyncTypeOK
<1>6. ASSUME NEW i \in Items, NEW apply \in BOOLEAN, ResolveRead(w, i, apply)
      PROVE  SoundNext
  <2>1. items[i] # NoItem
    BY <1>6 DEF ResolveRead, NoItem
  <2>2. /\ writers'[w].step \in {"version", "settle"}
        /\ writers'[w].item = i /\ writers'[w].apply = apply
        /\ apply => writers'[w].step = "version"
        /\ writers'[w].cell = ItemCapture(i).cell /\ writers'[w].raw = ItemCapture(i).raw
    BY <1>0, <1>6 DEF ResolveRead, SyncTypeOK
  <2>3. i # "none" /\ Refers(writers'[w])
    BY <1>1, <2>1, <2>2, ItemsAssumption
  <2> QED BY <2>2, <2>3
<1>7. CASE ResolveVersion(w)
  <2>1. /\ writers'[w].step = "check" /\ writers'[w].item = writers[w].item
        /\ writers'[w].cell = writers[w].cell /\ writers'[w].raw = writers[w].raw
    BY <1>0, <1>2, <1>7 DEF ResolveVersion, SyncTypeOK, WriterStates
  <2> QED BY <1>2, <1>7, <2>1 DEF ResolveVersion
<1>8. CASE WriterCheck(w)
  <2>1. Refusal(writers[w].cell, writers[w].raw) = "none" => writers[w].raw \in Valid
    BY DEF Refusal
  <2>2. CASE WriterGoto(w, "save")
    <3>1. "save" \in WriterSteps \ {"idle"} /\ writers[w].step # "idle"
      BY <1>8 DEF WriterCheck, WriterSteps
    <3>2. /\ writers'[w].step = "save" /\ writers'[w].item = writers[w].item
          /\ writers'[w].cell = writers[w].cell /\ writers'[w].raw = writers[w].raw
      BY <1>4, <2>2, <3>1
    <3>3. writers[w].raw \in Valid
      <4>1. writers'[w] # IdleWriter
        BY <3>2 DEF IdleWriter
      <4>2. ~WriterDone(w)
        BY <1>0, <4>1 DEF WriterDone, SyncTypeOK
      <4> QED BY <1>8, <2>1, <4>2 DEF WriterCheck
    <3> QED BY <1>2, <3>1, <3>2, <3>3
  <2>3. CASE WriterDone(w)
    BY <1>0, <2>3 DEF WriterDone, SyncTypeOK, IdleWriter
  <2> QED BY <1>8, <2>2, <2>3 DEF WriterCheck
<1>9. CASE WriterSave(w)
  <2>1. /\ writers[w].cell \in Cells /\ writers[w].raw \in Raws /\ items' = items
        /\ writers[w].step # "idle"
    BY <1>2, <1>9 DEF WriterSave, WriterStates
  <2>2. Canon[writers[w].raw] \in stored'[writers[w].cell]
    BY <1>0, <1>9, <2>1, StoreTyped DEF WriterSave
  <2>3. CASE WriterGoto(w, "settle") /\ writers[w].item # "none"
    BY <1>2, <1>4, <2>1, <2>2, <2>3 DEF WriterSteps
  <2>4. CASE WriterDone(w)
    BY <1>0, <2>4 DEF WriterDone, SyncTypeOK, IdleWriter
  <2> QED BY <1>9, <2>3, <2>4 DEF WriterSave
<1>10. CASE WriterConflict(w) \/ Settle(w) \/ WriterAbort(w)
  BY <1>0, <1>10 DEF WriterConflict, Settle, WriterAbort, WriterDone, SyncTypeOK, IdleWriter
<1>11. ASSUME NEW x \in Writers \union Resolvers, x # w,
              \/ \E cell \in Registered, raw \in Valid : OnlineCapture(x, cell, raw)
              \/ \E i \in Items, apply \in BOOLEAN : ResolveRead(x, i, apply)
              \/ WriterStep(x)
       PROVE  writers'[w] = writers[w]
  BY <1>0, <1>11
  DEF OnlineCapture, ResolveRead, WriterStep, ResolveVersion, WriterCheck, WriterSave,
      WriterConflict, Settle, WriterAbort, WriterDone, WriterGoto, SyncTypeOK
<1>12. \/ UNCHANGED writers
       \/ \E x \in Writers \union Resolvers :
            \/ \E cell \in Registered, raw \in Valid : OnlineCapture(x, cell, raw)
            \/ \E i \in Items, apply \in BOOLEAN : ResolveRead(x, i, apply)
            \/ WriterStep(x)
  BY DEF SyncNext, OfficeStep, RequestStep, LockStep, Capture, Deliver, Abort, Acknowledge,
         NotFound, ReadCheckout, CheckCapture, Save, SaveConflict, Record, Route, Respond,
         AnnounceUnit, vars, dataVars, historyVars
<1>13. SoundNext
  <2>1. UNCHANGED writers => writers'[w] = writers[w]
    OBVIOUS
  <2>2. writers'[w] = writers[w] => SoundNext
    BY <1>3
  <2> HIDE DEF SoundNext
  <2> QED
    BY <1>5, <1>6, <1>7, <1>8, <1>9, <1>10, <1>11, <1>12, <2>1, <2>2 DEF WriterStep
<1> QED BY <1>13

-----------------------------------------------------------------------------
(* Decisions, items and answers. *)

\* A decision appears in the record or route step of a request at that capture.
LEMMA LedgerSteps ==
  ASSUME SyncInv, [SyncNext]_vars, NEW o \in Ops, ledger'[o] # ledger[o]
  PROVE  \E h \in Requests :
           /\ reqs[h].todo # <<>> /\ Op(h) = o /\ IsCaptured(o)
           /\ \/ /\ Record(h)
                 /\ ledger'[o].status \in {"applied", "rejected"}
                 /\ ledger'[o].status = "applied" => reqs[h].answer # "rejected"
              \/ Route(h) /\ ledger'[o].status = "reconciliation"
<1>0. SyncTypeOK /\ RequestsAreSound
  BY DEF SyncInv, DataInv
<1>1. PICK h \in Requests : Record(h) \/ Route(h)
  BY DEF SyncNext, OfficeStep, RequestStep, WriterStep, LockStep, Capture, Deliver, Abort,
         Acknowledge, NotFound, ReadCheckout, CheckCapture, Save, SaveConflict, Respond,
         AnnounceUnit, OnlineCapture, ResolveRead, ResolveVersion, WriterCheck, WriterSave,
         WriterConflict, Settle, WriterAbort, vars, dataVars, historyVars
<1>2. reqs[h].todo # <<>> /\ Op(h) \in Ops /\ IsCaptured(Op(h))
  BY <1>0, <1>1, OpTyped DEF Record, Route, RequestsAreSound
<1>3. reqs[h].reason \in Reasons \union Refusals \union {"none"}
  BY <1>0 DEF SyncTypeOK, RequestStates
<1>4. CASE Record(h)
  <2> DEFINE status == IF reqs[h].answer = "rejected" THEN "rejected" ELSE "applied"
  <2>1. status \in {"applied", "reconciliation", "rejected"}
    OBVIOUS
  <2>2. o = Op(h) /\ ledger'[o] = [status |-> status, reason |-> reqs[h].reason]
    BY <1>0, <1>2, <1>3, <1>4, <2>1, RecordTyped DEF Record
  <2> QED BY <1>2, <1>4, <2>2
<1>5. CASE Route(h)
  <2>1. o = Op(h) /\ ledger'[o] = [status |-> "reconciliation", reason |-> reqs[h].reason]
    <3>1. RecordCaptureOp(Op(h), "reconciliation", reqs[h].reason)
      BY <1>5 DEF Route
    <3> QED BY <1>0, <1>2, <1>3, <3>1, RecordTyped
  <2> QED BY <1>2, <1>5, <2>1
<1> QED BY <1>1, <1>4, <1>5

\* An item appears when an operation is routed and changes when it is settled.
RoutedBy(i, h) ==
  /\ items[i] = NoItem
  /\ items'[i] = [op |-> Op(h), reason |-> reqs[h].reason, status |-> "pending"]
  /\ reqs[h].todo # <<>> /\ IsCaptured(Op(h))
SettledBy(i, w) ==
  /\ writers[w].step = "settle" /\ writers[w].item = i /\ items[i] # NoItem
  /\ items'[i].status = "applied" => writers[w].apply

LEMMA ItemSteps ==
  ASSUME SyncInv, [SyncNext]_vars, NEW i \in Items, items'[i] # items[i]
  PROVE  \/ \E h \in Requests : RoutedBy(i, h)
         \/ \E w \in Writers \union Resolvers : SettledBy(i, w)
<1>0. SyncTypeOK /\ RequestsAreSound /\ WritersAreSound
  BY DEF SyncInv, DataInv
<1>1. ASSUME NEW h \in Requests, Route(h)
      PROVE  RoutedBy(i, h)
  BY <1>0, <1>1, OpTyped DEF Route, RequestsAreSound, SyncTypeOK, RoutedBy
<1>2. ASSUME NEW w \in Writers \union Resolvers, Settle(w)
      PROVE  SettledBy(i, w)
  <2>1. /\ writers[w].item \in Items /\ items[writers[w].item] # NoItem
        /\ writers[w].step = "settle"
    BY <1>0, <1>2 DEF Settle, WritersAreSound, SyncTypeOK, WriterStates, IdleWriter
  <2>2. writers[w].item = i /\ items[i] \in ItemRows
    BY <1>0, <1>2, <2>1 DEF Settle, SyncTypeOK
  <2> QED BY <1>0, <1>2, <2>1, <2>2 DEF Settle, SyncTypeOK, ItemRows, SettledBy
<1> QED
  BY <1>1, <1>2
  DEF SyncNext, OfficeStep, RequestStep, WriterStep, LockStep, Capture, Deliver, Abort,
      Acknowledge, NotFound, ReadCheckout, CheckCapture, Save, SaveConflict, Record, Respond,
      AnnounceUnit, OnlineCapture, ResolveRead, ResolveVersion, WriterCheck, WriterSave,
      WriterConflict, WriterAbort, vars, dataVars, historyVars

LEMMA RecordsReferStep ==
  ASSUME SyncInv, [SyncNext]_vars
  PROVE  RecordsRefer'
<1>0. RecordsRefer /\ SyncTypeOK /\ Grows
  BY SyncGrows DEF SyncInv, DataInv
<1>1. ASSUME NEW o \in Ops, ledger'[o] # Undecided PROVE captured'[o] # NoCapture
  <2>1. IsCaptured(o)
    BY <1>0, <1>1, LedgerSteps DEF RecordsRefer
  <2> QED BY <2>1, FactsStand
<1>2. ASSUME NEW i \in Items, items'[i] # NoItem PROVE captured'[items'[i].op] # NoCapture
  <2>1. CASE items[i] # NoItem
    <3>1. items[i].op \in Ops /\ IsCaptured(items[i].op) /\ items'[i].op = items[i].op
      BY <1>0, <2>1 DEF RecordsRefer, SyncTypeOK, ItemRows, Grows
    <3> QED BY <3>1, FactsStand
  <2>2. CASE items[i] = NoItem
    <3>1. PICK h \in Requests : RoutedBy(i, h)
      BY <1>2, <2>2, ItemSteps DEF SettledBy
    <3>2. Op(h) \in Ops
      BY <1>0, <3>1, OpTyped DEF SyncInv, DataInv, RoutedBy
    <3> QED BY <3>1, <3>2, FactsStand DEF RoutedBy
  <2> QED BY <2>1, <2>2
<1> QED BY <1>1, <1>2 DEF RecordsRefer, IsCaptured

LEMMA LedgerIsTrueStep ==
  ASSUME SyncInv, [SyncNext]_vars
  PROVE  LedgerIsTrue'
<1>0. LedgerIsTrue /\ RecordsRefer /\ SyncTypeOK /\ RequestsAreSound
  BY DEF SyncInv, DataInv
<1> SUFFICES ASSUME NEW o \in Ops
             PROVE  /\ ledger'[o].status = "applied" =>
                         Canon[captured'[o].raw] \in stored'[captured'[o].cell]
                    /\ ledger'[o].status = "reconciliation" =>
                         \E i \in Items : items'[i] # NoItem /\ items'[i].op = o
  BY DEF LedgerIsTrue, WasStored, Value, HasItem
<1>1. CASE ledger'[o] = ledger[o] /\ ledger[o] # Undecided
  <2>1. IsCaptured(o)
    BY <1>0, <1>1 DEF RecordsRefer
  <2> QED BY <1>0, <1>1, <2>1, FactsStand DEF LedgerIsTrue
<1>2. CASE ledger'[o] = ledger[o] /\ ledger[o] = Undecided
  BY <1>2 DEF Undecided
<1>3. CASE ledger'[o] # ledger[o]
  <2>1. PICK h \in Requests :
          /\ reqs[h].todo # <<>> /\ Op(h) = o /\ IsCaptured(o)
          /\ \/ /\ Record(h)
                /\ ledger'[o].status \in {"applied", "rejected"}
                /\ ledger'[o].status = "applied" => reqs[h].answer # "rejected"
             \/ Route(h) /\ ledger'[o].status = "reconciliation"
    BY <1>3, LedgerSteps
  <2>2. CASE Record(h)
    <3>1. reqs[h].answer # "rejected" => WasStored(o)
      BY <1>0, <2>1, <2>2 DEF Record, RequestsAreSound
    <3>2. ~Route(h)
      BY <2>2 DEF Record, Route
    <3> QED BY <2>1, <3>1, <3>2, FactsStand
  <2>3. CASE Route(h) /\ ledger'[o].status = "reconciliation"
    <3>1. PICK i \in Items : items' = [items EXCEPT ![i] =
            [op |-> Op(h), reason |-> reqs[h].reason, status |-> "pending"]]
      BY <2>3 DEF Route
    <3>2. items'[i].op = o /\ items'[i].status = "pending"
      BY <1>0, <2>1, <3>1 DEF SyncTypeOK
    <3> QED BY <2>3, <3>2 DEF NoItem
  <2> QED BY <2>1, <2>2, <2>3
<1> QED BY <1>1, <1>2, <1>3

LEMMA AppliedItemsWereStoredStep ==
  ASSUME SyncInv, [SyncNext]_vars
  PROVE  AppliedItemsWereStored'
<1>0. /\ AppliedItemsWereStored /\ SyncTypeOK /\ WritersAreSound /\ RecordsRefer /\ Grows
  BY SyncGrows DEF SyncInv, DataInv
<1> SUFFICES ASSUME NEW i \in Items, items'[i].status = "applied"
             PROVE  Canon[captured'[items'[i].op].raw]
                      \in stored'[captured'[items'[i].op].cell]
  BY DEF AppliedItemsWereStored, WasStored, Value
<1>1. items[i] # NoItem /\ (items'[i] = items[i] \/ WasStored(items[i].op))
  <2>1. CASE items'[i] = items[i]
    BY <2>1 DEF NoItem
  <2>2. CASE items'[i] # items[i]
    <3>0. \A h \in Requests : ~RoutedBy(i, h)
      BY DEF RoutedBy
    <3>1. PICK w \in Writers \union Resolvers : SettledBy(i, w)
      BY <2>2, <3>0, ItemSteps, Zenon
    <3>2. i # "none"
      BY ItemsAssumption
    <3>3. /\ Canon[writers[w].raw] \in stored[writers[w].cell]
          /\ writers[w].cell = ItemCapture(i).cell /\ writers[w].raw = ItemCapture(i).raw
      BY <1>0, <3>1, <3>2 DEF WritersAreSound, SettledBy
    <3> QED BY <3>1, <3>3 DEF WasStored, Value, ItemCapture, SettledBy
  <2> QED BY <2>1, <2>2
<1>2. /\ items[i].op \in Ops /\ IsCaptured(items[i].op) /\ items'[i].op = items[i].op
  BY <1>0, <1>1 DEF SyncTypeOK, ItemRows, RecordsRefer, Grows
<1>3. WasStored(items[i].op)
  BY <1>0, <1>1 DEF AppliedItemsWereStored
<1> QED BY <1>2, <1>3, FactsStand

\* What devices are told: an answer of this step is backed by the ledger entry
\* that is there, or that the same step writes.
LEMMA TellSteps ==
  ASSUME SyncInv, [SyncNext]_vars, NEW a \in Told'
  PROVE  \/ a \in Told
         \/ \E h \in Requests :
              /\ reqs[h].todo # <<>> /\ a.op = Op(h)
              /\ \/ /\ Acknowledge(h)
                    /\ a.status = IF ledger[Op(h)].status = "applied"
                                    THEN "duplicate" ELSE ledger[Op(h)].status
                 \/ Record(h) /\ a.status = reqs[h].answer
                 \/ Route(h) /\ a.status = "reconciliation"
<1>0. SyncTypeOK /\ RequestsAreSound /\ SyncTypeOK'
  BY SyncTypeStep DEF SyncInv, DataInv
<1>1. CASE a \in acked'
  BY <1>1
  DEF SyncNext, OfficeStep, RequestStep, WriterStep, LockStep, Capture, Deliver, Abort,
      Acknowledge, NotFound, ReadCheckout, CheckCapture, Save, SaveConflict, Record, Route,
      Respond, AnnounceUnit, OnlineCapture, ResolveRead, ResolveVersion, WriterCheck,
      WriterSave, WriterConflict, Settle, WriterAbort, vars, dataVars, historyVars, Told
<1>2. ASSUME NEW h \in Requests, a \in reqs'[h].done, a \notin reqs[h].done
      PROVE  /\ reqs[h].todo # <<>> /\ a.op = Op(h)
             /\ \/ /\ Acknowledge(h)
                   /\ a.status = IF ledger[Op(h)].status = "applied"
                                   THEN "duplicate" ELSE ledger[Op(h)].status
                \/ Record(h) /\ a.status = reqs[h].answer
                \/ Route(h) /\ a.status = "reconciliation"
  <2>1. RequestStep(h) \/ Abort(h) \/ \E batch \in Batches, g \in granted : Deliver(h, batch, g.stamp)
    <3>1. ASSUME NEW x \in Requests, x # h, RequestStep(x) \/ Abort(x)
                 \/ (\E batch \in Batches, g \in granted : Deliver(x, batch, g.stamp))
          PROVE  reqs'[h] = reqs[h]
      BY <1>0, <3>1, RequestsTyped, DeliverEffect DEF KeepsOthers
    <3>2. \/ UNCHANGED reqs
          \/ \E x \in Requests :
               \/ RequestStep(x) \/ Abort(x)
               \/ \E batch \in Batches, g \in granted : Deliver(x, batch, g.stamp)
      BY DEF SyncNext, OfficeStep, WriterStep, LockStep, Capture, AnnounceUnit, OnlineCapture,
             ResolveRead, ResolveVersion, WriterCheck, WriterSave, WriterConflict, Settle,
             WriterAbort, vars, dataVars, historyVars
    <3> QED BY <1>2, <3>1, <3>2
  <2>2. ASSUME NEW batch \in Batches, NEW g \in granted, Deliver(h, batch, g.stamp)
        PROVE  FALSE
    BY <1>0, <1>2, <2>2, DeliverEffect
  <2>3. CASE Respond(h) \/ Abort(h)
    BY <1>0, <1>2, <2>3, IdleEffect DEF Respond, Abort, IdleRequest
  <2>4. CASE NotFound(h)
    BY <1>0, <1>2, <2>4, GotoEffect DEF NotFound, RequestSteps, KeepsBatch
  <2>5. CASE ReadCheckout(h)
    <3>1. Verdict(reqs[h].stamp) # "none" => Verdict(reqs[h].stamp) \in Reasons
      BY DEF Verdict, Reasons
    <3> QED
      BY <1>0, <1>2, <2>5, <3>1, GotoEffect, RouteAsEffect
      DEF ReadCheckout, RequestSteps, KeepsBatch
  <2>6. CASE CheckCapture(h)
    <3>1. Refusal(Cell(h), Raw(h)) \in Refusals \union {"none"} /\ "rejected" \in Statuses
      BY DEF Refusal, Refusals, Statuses
    <3> QED
      BY <1>0, <1>2, <2>6, <3>1, GotoEffect, RecordAsEffect
      DEF CheckCapture, RequestSteps, KeepsBatch
  <2>7. ASSUME Save(h) \/ SaveConflict(h)
        PROVE  Cell(h) \in Cells /\ Raw(h) \in Raws /\ attempts[Cell(h)].version \in Nat
    BY <1>0, <2>7, OpTyped DEF Save, SaveConflict, RequestsAreSound, SyncTypeOK, Trials
  <2>8. CASE Save(h)
    <3>1. attempts'[Cell(h)].version \in Nat /\ "applied" \in Statuses
      BY <1>0, <2>7, <2>8, StoreTyped DEF Save, Statuses
    <3> QED BY <1>0, <1>2, <2>8, <3>1, RecordAsEffect DEF Save, KeepsBatch
  <2>9. CASE SaveConflict(h)
    <3>1. "duplicate" \in Statuses /\ "conflict" \in Reasons
      BY DEF Statuses, Reasons
    <3> QED
      BY <1>0, <1>2, <2>7, <2>9, <3>1, RecordAsEffect, RouteAsEffect
      DEF SaveConflict, KeepsBatch
  <2>10. CASE Acknowledge(h)
    <3>1. /\ reqs[h].todo # <<>> /\ ledger[Op(h)] \in Decisions
          /\ attempts[Cell(h)].version \in Nat
      BY <1>0, <2>10, OpTyped DEF Acknowledge, SyncTypeOK, Trials
    <3>2. ledger[Op(h)].status \in Statuses /\ "duplicate" \in Statuses /\ 0 \in Nat
      BY <3>1 DEF Decisions, Statuses
    <3> QED BY <1>0, <1>2, <2>10, <3>1, <3>2, AnswerEffect DEF Acknowledge
  <2>11. CASE Record(h)
    <3>1. reqs[h].todo # <<>> /\ reqs[h].answer \in Statuses /\ reqs[h].version \in Nat
      BY <1>0, <2>11 DEF Record, RequestsAreSound, SyncTypeOK, RequestStates
    <3> QED BY <1>0, <1>2, <2>11, <3>1, AnswerEffect DEF Record
  <2>12. CASE Route(h)
    <3>1. reqs[h].todo # <<>> /\ "reconciliation" \in Statuses
      BY <1>0, <2>12 DEF Route, RequestsAreSound, Statuses
    <3>2. Answer(h, "reconciliation", 0)
      BY <2>12 DEF Route
    <3>3. reqs'[h].done = reqs[h].done \union
            {[op |-> Op(h), status |-> "reconciliation", version |-> 0]}
      BY <1>0, <3>1, <3>2, AnswerEffect
    <3> QED BY <1>2, <2>12, <3>1, <3>3
  <2> QED
    BY <2>1, <2>2, <2>3, <2>4, <2>5, <2>6, <2>8, <2>9, <2>10, <2>11, <2>12 DEF RequestStep
<1> QED BY <1>1, <1>2 DEF Told

LEMMA AnswersAreBackedStep ==
  ASSUME SyncInv, [SyncNext]_vars
  PROVE  AnswersAreBacked'
<1>0. /\ SyncTypeOK /\ RequestsAreSound /\ RecordsRefer /\ LedgerIsTrue /\ AnswersAreBacked
      /\ Grows /\ LedgerIsTrue' /\ SyncTypeOK'
  BY SyncGrows, SyncTypeStep, LedgerIsTrueStep DEF SyncInv, DataInv
<1> SUFFICES ASSUME NEW a \in Told'
             PROVE  /\ ledger'[a.op] # Undecided
                    /\ a.status \in {"applied", "duplicate"} =>
                         Canon[captured'[a.op].raw] \in stored'[captured'[a.op].cell]
                    /\ a.status = "reconciliation" =>
                         \E i \in Items : items'[i] # NoItem /\ items'[i].op = a.op
  BY DEF AnswersAreBacked, WasStored, Value, HasItem
<1>1. CASE a \in Told
  <2>1. a.op \in Ops
    BY <1>0, <1>1 DEF Told, SyncTypeOK, RequestStates, Outcomes
  <2>2. ledger[a.op] # Undecided /\ IsCaptured(a.op)
    BY <1>0, <1>1, <2>1 DEF AnswersAreBacked, RecordsRefer
  <2>3. ledger'[a.op] = ledger[a.op]
    BY <1>0, <2>1, <2>2 DEF Grows
  <2> QED BY <1>0, <1>1, <2>1, <2>2, <2>3, FactsStand DEF AnswersAreBacked
<1>2. CASE a \notin Told
  <2>1. PICK h \in Requests :
          /\ reqs[h].todo # <<>> /\ a.op = Op(h)
          /\ \/ /\ Acknowledge(h)
                /\ a.status = IF ledger[Op(h)].status = "applied"
                                THEN "duplicate" ELSE ledger[Op(h)].status
             \/ Record(h) /\ a.status = reqs[h].answer
             \/ Route(h) /\ a.status = "reconciliation"
    BY <1>2, TellSteps
  <2>2. a.op \in Ops /\ IsCaptured(a.op)
    BY <1>0, <2>1, OpTyped
  <2>3. CASE Acknowledge(h)
    <3>1. ledger[a.op] # Undecided /\ ledger[a.op] \in Decisions
      BY <1>0, <2>1, <2>2, <2>3 DEF Acknowledge, SyncTypeOK
    <3>2. ledger'[a.op] = ledger[a.op]
      BY <1>0, <2>2, <3>1 DEF Grows
    <3>3. /\ a.status \in {"applied", "duplicate"} => ledger[a.op].status = "applied"
          /\ a.status = "reconciliation" => ledger[a.op].status = "reconciliation"
      <4>1. ledger[a.op].status \in {"applied", "reconciliation", "rejected"}
        BY <3>1 DEF Decisions
      <4> QED BY <2>1, <2>3, <4>1 DEF Acknowledge, Record, Route
    <3>4. /\ ledger[a.op].status = "applied" => WasStored(a.op)
          /\ ledger[a.op].status = "reconciliation" => HasItem(a.op)
      BY <1>0, <2>2 DEF LedgerIsTrue
    <3> QED BY <2>2, <3>1, <3>2, <3>3, <3>4, FactsStand
  <2>4. CASE Record(h)
    <3>1. /\ reqs[h].reason \in Reasons \union Refusals \union {"none"}
          /\ reqs[h].answer \in Statuses
      BY <1>0 DEF SyncTypeOK, RequestStates
    <3>2. ledger'[a.op] # Undecided
      <4>1. RecordCaptureOp(Op(h), IF reqs[h].answer = "rejected" THEN "rejected" ELSE "applied",
                            reqs[h].reason)
        BY <2>4 DEF Record
      <4> QED BY <1>0, <2>1, <2>2, <3>1, <4>1, RecordTyped
    <3>3. a.status = reqs[h].answer /\ a.status # "reconciliation"
      BY <1>0, <2>1, <2>4 DEF Record, Acknowledge, Route, RequestsAreSound
    <3>4. a.status # "rejected" => WasStored(a.op)
      BY <1>0, <2>1, <2>4, <3>3 DEF Record, RequestsAreSound
    <3> QED BY <2>2, <3>2, <3>3, <3>4, FactsStand
  <2>5. CASE Route(h)
    <3>1. RecordCaptureOp(Op(h), "reconciliation", reqs[h].reason) /\ reqs[h].reason \in Reasons
      BY <1>0, <2>5 DEF Route, RequestsAreSound
    <3>2. ledger'[a.op] # Undecided
      BY <1>0, <2>1, <2>2, <3>1, RecordTyped
    <3>3. a.status = "reconciliation"
      BY <2>1, <2>5 DEF Route, Record, Acknowledge
    <3>4. PICK i \in Items : items' = [items EXCEPT ![i] =
            [op |-> Op(h), reason |-> reqs[h].reason, status |-> "pending"]]
      BY <2>5 DEF Route
    <3>5. items'[i].op = a.op /\ items'[i].status = "pending"
      BY <1>0, <2>1, <3>4 DEF SyncTypeOK
    <3> QED BY <3>2, <3>3, <3>5 DEF NoItem
  <2> QED BY <2>1, <2>3, <2>4, <2>5
<1> QED BY <1>1, <1>2

-----------------------------------------------------------------------------
(* Staleness. *)

\* Generations only grow, and within a generation so does the start list.
LEMMA CheckoutGrows ==
  ASSUME SyncInv, [SyncNext]_vars
  PROVE  /\ checkout'.generation >= checkout.generation
         /\ checkout'.generation = checkout.generation
              => checkout'.startList >= checkout.startList
         /\ checkout'.generation \in Nat /\ checkout'.startList \in Nat
         /\ checkout.generation \in Nat /\ checkout.startList \in Nat
<1>1. /\ LockTypeOK /\ HandoversCounted /\ [LockNext]_lockVars /\ LockTypeOK'
  BY LockMoves, LockTypeStep DEF SyncInv, LockInv
<1>2. /\ checkout'.generation \in Nat /\ checkout'.startList \in Nat
      /\ checkout.generation \in Nat /\ checkout.startList \in Nat
  BY <1>1 DEF LockTypeOK, Checkouts
<1>3. ~HasRow => checkout.generation = 0
  BY <1>1 DEF HandoversCounted
<1> QED BY <1>1, <1>2, <1>3, RowSteps DEF HandedOver, SameHolder

\* A request keeps its stamp to its end, and passes the check of it only in
\* ReadCheckout.
LEMMA StampSteps ==
  ASSUME SyncTypeOK, RequestsAreSound, NEW h \in Requests, RequestStep(h)
  PROVE  \/ reqs'[h].step = "idle"
         \/ /\ reqs[h].step # "idle"
            /\ reqs'[h].stamp = reqs[h].stamp /\ reqs'[h].arrived = reqs[h].arrived
            /\ reqs'[h].step \in {"check", "save"} =>
                 \/ reqs[h].step \in {"check", "save"}
                 \/ Verdict(reqs[h].stamp) = "none" /\ UNCHANGED checkout
<1>1. CASE Respond(h)
  BY <1>1, IdleEffect DEF Respond, IdleRequest
<1>2. CASE NotFound(h)
  BY <1>2, GotoEffect DEF NotFound, RequestSteps, KeepsBatch
<1>3. CASE ReadCheckout(h)
  <2>1. Verdict(reqs[h].stamp) # "none" => Verdict(reqs[h].stamp) \in Reasons
    BY DEF Verdict, Reasons
  <2> QED
    BY <1>3, <2>1, GotoEffect, RouteAsEffect
    DEF ReadCheckout, RequestSteps, KeepsBatch, lockVars
<1>4. CASE CheckCapture(h)
  <2>1. Refusal(Cell(h), Raw(h)) \in Refusals \union {"none"} /\ "rejected" \in Statuses
    BY DEF Refusal, Refusals, Statuses
  <2> QED
    BY <1>4, <2>1, GotoEffect, RecordAsEffect DEF CheckCapture, RequestSteps, KeepsBatch
<1>5. ASSUME Save(h) \/ SaveConflict(h)
      PROVE  Cell(h) \in Cells /\ Raw(h) \in Raws /\ attempts[Cell(h)].version \in Nat
  BY <1>5, OpTyped DEF Save, SaveConflict, RequestsAreSound, SyncTypeOK, Trials
<1>6. CASE Save(h)
  <2>1. attempts'[Cell(h)].version \in Nat /\ "applied" \in Statuses
    BY <1>5, <1>6, StoreTyped DEF Save, Statuses
  <2> QED BY <1>6, <2>1, RecordAsEffect DEF Save, KeepsBatch
<1>7. CASE SaveConflict(h)
  <2>1. "duplicate" \in Statuses /\ "conflict" \in Reasons
    BY DEF Statuses, Reasons
  <2> QED BY <1>5, <1>7, <2>1, RecordAsEffect, RouteAsEffect DEF SaveConflict, KeepsBatch
<1>8. CASE Acknowledge(h)
  <2>1. /\ reqs[h].todo # <<>> /\ ledger[Op(h)] \in Decisions
        /\ attempts[Cell(h)].version \in Nat
    BY <1>8, OpTyped DEF Acknowledge, SyncTypeOK, Trials
  <2>2. ledger[Op(h)].status \in Statuses /\ "duplicate" \in Statuses /\ 0 \in Nat
    BY <2>1 DEF Decisions, Statuses
  <2> QED BY <1>8, <2>1, <2>2, AnswerEffect DEF Acknowledge
<1>9. CASE Record(h)
  <2>1. reqs[h].todo # <<>> /\ reqs[h].answer \in Statuses /\ reqs[h].version \in Nat
    BY <1>9 DEF Record, RequestsAreSound, SyncTypeOK, RequestStates
  <2> QED BY <1>9, <2>1, AnswerEffect DEF Record
<1>10. CASE Route(h)
  <2>1. reqs[h].todo # <<>> /\ "reconciliation" \in Statuses /\ reqs[h].step = "route"
    BY <1>10 DEF Route, RequestsAreSound, Statuses
  <2>2. Answer(h, "reconciliation", 0)
    BY <1>10 DEF Route
  <2> QED BY <2>1, <2>2, AnswerEffect
<1> QED
  BY <1>1, <1>2, <1>3, <1>4, <1>6, <1>7, <1>8, <1>9, <1>10 DEF RequestStep

LEMMA StampsInOrderStep ==
  ASSUME SyncInv, [SyncNext]_vars
  PROVE  StampsInOrder'
<1>0. /\ SyncTypeOK /\ RequestsAreSound /\ StampsInOrder /\ LockInv /\ SyncTypeOK'
  BY SyncTypeStep DEF SyncInv, DataInv
<1> SUFFICES ASSUME NEW h \in Requests, reqs'[h].step # "idle"
             PROVE  /\ reqs'[h].stamp.generation <= reqs'[h].arrived.generation
                    /\ reqs'[h].arrived.generation <= checkout'.generation
                    /\ reqs'[h].stamp.generation = reqs'[h].arrived.generation
                         => reqs'[h].stamp.startList <= reqs'[h].arrived.startList
                    /\ reqs'[h].arrived.generation = checkout'.generation
                         => reqs'[h].arrived.startList <= checkout'.startList
                    /\ reqs'[h].step \in {"check", "save"} =>
                         /\ reqs'[h].stamp.generation = reqs'[h].arrived.generation
                         /\ reqs'[h].stamp.startList = reqs'[h].arrived.startList
  BY DEF StampsInOrder
<1>1. /\ checkout'.generation >= checkout.generation
      /\ checkout'.generation = checkout.generation
           => checkout'.startList >= checkout.startList
      /\ checkout'.generation \in Nat /\ checkout'.startList \in Nat
      /\ checkout.generation \in Nat /\ checkout.startList \in Nat
  BY CheckoutGrows
<1>2. ASSUME NEW x \in Requests
      PROVE  /\ reqs[x].stamp.generation \in Nat /\ reqs[x].stamp.startList \in Nat
             /\ reqs[x].arrived.generation \in Nat /\ reqs[x].arrived.startList \in Nat
  BY <1>0 DEF SyncTypeOK, RequestStates, Stamps
<1>3. ASSUME reqs[h].step # "idle",
             reqs'[h].stamp = reqs[h].stamp, reqs'[h].arrived = reqs[h].arrived
      PROVE  /\ reqs'[h].stamp.generation <= reqs'[h].arrived.generation
             /\ reqs'[h].arrived.generation <= checkout'.generation
             /\ reqs'[h].stamp.generation = reqs'[h].arrived.generation
                  => reqs'[h].stamp.startList <= reqs'[h].arrived.startList
             /\ reqs'[h].arrived.generation = checkout'.generation
                  => reqs'[h].arrived.startList <= checkout'.startList
  BY <1>0, <1>1, <1>2, <1>3 DEF StampsInOrder
<1>4. CASE reqs'[h] = reqs[h]
  BY <1>0, <1>3, <1>4 DEF StampsInOrder
<1>5. CASE RequestStep(h)
  <2>1. /\ reqs[h].step # "idle"
        /\ reqs'[h].stamp = reqs[h].stamp /\ reqs'[h].arrived = reqs[h].arrived
        /\ reqs'[h].step \in {"check", "save"} =>
             \/ reqs[h].step \in {"check", "save"}
             \/ Verdict(reqs[h].stamp) = "none" /\ UNCHANGED checkout
    BY <1>0, <1>5, StampSteps
  <2>2. Verdict(reqs[h].stamp) = "none" =>
          /\ reqs[h].stamp.generation = checkout.generation
          /\ reqs[h].stamp.startList = checkout.startList
    BY DEF Verdict
  <2>3. reqs'[h].step \in {"check", "save"} =>
          /\ reqs[h].stamp.generation = reqs[h].arrived.generation
          /\ reqs[h].stamp.startList = reqs[h].arrived.startList
    BY <1>0, <1>1, <1>2, <2>1, <2>2 DEF StampsInOrder
  <2> QED BY <1>3, <2>1, <2>3
<1>6. ASSUME NEW batch \in Batches, NEW g \in granted, Deliver(h, batch, g.stamp)
      PROVE  /\ reqs'[h].stamp.generation <= reqs'[h].arrived.generation
             /\ reqs'[h].arrived.generation <= checkout'.generation
             /\ reqs'[h].stamp.generation = reqs'[h].arrived.generation
                  => reqs'[h].stamp.startList <= reqs'[h].arrived.startList
             /\ reqs'[h].arrived.generation = checkout'.generation
                  => reqs'[h].arrived.startList <= checkout'.startList
             /\ reqs'[h].step \notin {"check", "save"}
  <2>1. /\ reqs'[h].stamp = g.stamp /\ reqs'[h].arrived = StampOf(checkout)
        /\ reqs'[h].step = "lookup" /\ checkout' = checkout
    BY <1>0, <1>6, DeliverEffect DEF Deliver, lockVars
  <2>2. /\ g.stamp.generation <= checkout.generation
        /\ g.stamp.generation = checkout.generation => g.stamp.startList <= checkout.startList
    BY <1>0 DEF LockInv, HandoversCounted
  <2> QED BY <1>1, <2>1, <2>2 DEF StampOf
<1>7. ~Abort(h)
  <2>1. Abort(h) => reqs'[h] = IdleRequest
    BY <1>0, IdleEffect DEF Abort
  <2> QED BY <2>1 DEF IdleRequest
<1>8. ASSUME NEW x \in Requests, x # h, RequestStep(x) \/ Abort(x)
             \/ (\E batch \in Batches, g \in granted : Deliver(x, batch, g.stamp))
      PROVE  reqs'[h] = reqs[h]
  BY <1>0, <1>8, RequestsTyped, DeliverEffect DEF KeepsOthers
<1>9. \/ UNCHANGED reqs
      \/ \E x \in Requests :
           \/ RequestStep(x) \/ Abort(x)
           \/ \E batch \in Batches, g \in granted : Deliver(x, batch, g.stamp)
  BY DEF SyncNext, OfficeStep, WriterStep, LockStep, Capture, AnnounceUnit, OnlineCapture,
         ResolveRead, ResolveVersion, WriterCheck, WriterSave, WriterConflict, Settle,
         WriterAbort, vars, dataVars, historyVars
<1> QED BY <1>4, <1>5, <1>6, <1>7, <1>8, <1>9

-----------------------------------------------------------------------------
LEMMA SyncInitInv == SyncInit => SyncInv
<1> SUFFICES ASSUME SyncInit PROVE SyncInv
  OBVIOUS
<1>1. LockInv
  BY LockInitInv DEF SyncInit
<1>2. IdleRequest \in RequestStates
  BY EmptySeq DEF IdleRequest, RequestStates, RequestSteps, Statuses, Stamps, NoStamp
<1>3. SyncTypeOK
  <2>1. LockTypeOK /\ captured \in [Ops -> Captures \union {NoCapture}]
    BY <1>1 DEF SyncInit, LockInv
  <2>2. attempts \in [Cells -> Trials]
    <3>1. NoTrial \in Trials
      BY RawsAssumption DEF NoTrial, Trials
    <3> QED BY <3>1 DEF SyncInit
  <2>3. /\ announced \in BOOLEAN
        /\ ledger \in [Ops -> Decisions \union {Undecided}]
        /\ items \in [Items -> ItemRows \union {NoItem}]
        /\ reqs \in [Requests -> RequestStates]
        /\ writers \in [Writers \union Resolvers -> WriterStates \union {IdleWriter}]
    BY <1>2 DEF SyncInit
  <2>4. acked \subseteq Outcomes /\ stored \in [Cells -> SUBSET Raws] /\ replayed \in [Ops -> Nat]
    BY DEF SyncInit
  <2> QED BY <2>1, <2>2, <2>3, <2>4 DEF SyncTypeOK
<1>4. CapturesAreSeen /\ TrialsAreStored /\ ReplaysMoveOn
  BY <1>3 DEF SyncInit, NoTrial, CapturesAreSeen, TrialsAreStored, ReplaysMoveOn, IsCaptured, SyncTypeOK
<1>5. RequestsAreSound /\ StampsInOrder
  BY DEF SyncInit, RequestsAreSound, StampsInOrder, IdleRequest
<1>6. WritersAreSound /\ RecordsRefer
  BY DEF SyncInit, WritersAreSound, RecordsRefer, IdleWriter
<1>7. LedgerIsTrue /\ AppliedItemsWereStored
  BY DEF SyncInit, LedgerIsTrue, AppliedItemsWereStored, Undecided, NoItem
<1>8. AnswersAreBacked
  BY DEF SyncInit, AnswersAreBacked, Told, IdleRequest
<1> QED BY <1>1, <1>3, <1>4, <1>5, <1>6, <1>7, <1>8 DEF SyncInv, DataInv

LEMMA LockInvStep ==
  ASSUME LockInv, [LockNext]_lockVars
  PROVE  LockInv'
  BY LockTypeStep, HandoversCountedStep, ReadersAreRightStep DEF LockInv

LEMMA SyncInvariance == SyncSpec => []SyncInv
<1>1. ASSUME SyncInv, [SyncNext]_vars PROVE SyncInv'
  <2>1. LockInv'
    BY <1>1, LockMoves, LockInvStep DEF SyncInv
  <2>2. CapturesAreSeen' /\ TrialsAreStored' /\ ReplaysMoveOn'
    BY <1>1, CapturesAreSeenStep, TrialsAreStoredStep, ReplaysMoveOnStep
  <2>3. RequestsAreSound' /\ WritersAreSound' /\ RecordsRefer'
    BY <1>1, RequestsAreSoundStep, WritersAreSoundStep, RecordsReferStep
  <2>4. LedgerIsTrue' /\ AnswersAreBacked' /\ AppliedItemsWereStored'
    BY <1>1, LedgerIsTrueStep, AnswersAreBackedStep, AppliedItemsWereStoredStep
  <2> QED BY <1>1, <2>1, <2>2, <2>3, <2>4, SyncTypeStep, StampsInOrderStep DEF SyncInv, DataInv
<1> QED BY SyncInitInv, <1>1, PTL DEF SyncSpec

\* The state stays well-formed.
THEOREM SyncTypeCorrect == SyncSpec => []SyncTypeOK
<1>1. SyncInv => SyncTypeOK
  BY DEF SyncInv
<1> QED BY SyncInvariance, <1>1, PTL

\* No capture is lost between the device and the meet: whatever a device is
\* told, and may delete its copy for, is durably so on the server.
THEOREM NoSilentDiscard == SyncSpec => []AnswersAreBacked
<1>1. SyncInv => AnswersAreBacked
  BY DEF SyncInv, DataInv
<1> QED BY SyncInvariance, <1>1, PTL

\* The ledger never claims a write or an item that is not there.
THEOREM LedgerSound == SyncSpec => []LedgerIsTrue
<1>1. SyncInv => LedgerIsTrue
  BY DEF SyncInv, DataInv
<1> QED BY SyncInvariance, <1>1, PTL

\* Exactly-once replay, for any number of concurrent deliveries of a capture.
THEOREM ExactlyOnce == SyncSpec => []ReplayWritesOnce
<1>1. SyncInv => ReplayWritesOnce
  BY DEF SyncInv, DataInv, ReplaysMoveOn, ReplayWritesOnce
<1> QED BY SyncInvariance, <1>1, PTL

\* An item the office applied had its capture written to the trial.
THEOREM AppliedMeansStored == SyncSpec => []AppliedItemsWereStored
<1>1. SyncInv => AppliedItemsWereStored
  BY DEF SyncInv, DataInv
<1> QED BY SyncInvariance, <1>1, PTL

\* The first decision about a capture stands.
THEOREM DecisionsStand == SyncSpec => DecisionsAreFinal
<1>1. ASSUME SyncInv, [SyncNext]_vars
      PROVE  \A o \in Ops : ledger[o] # Undecided => ledger'[o] = ledger[o]
  BY <1>1, SyncGrows DEF Grows
<1> QED BY SyncInvariance, <1>1, PTL DEF SyncSpec, DecisionsAreFinal

\* A reconciliation item that was resolved is never changed again.
THEOREM ResolutionsStand == SyncSpec => ResolvedOnce
<1>1. ASSUME SyncInv, [SyncNext]_vars
      PROVE  \A i \in Items :
               items[i].status \in {"applied", "discarded"} => items'[i] = items[i]
  BY <1>1, SyncGrows DEF Grows, NoItem
<1> QED BY SyncInvariance, <1>1, PTL DEF SyncSpec, ResolvedOnce

\* A batch that arrived stale changes no trial, whatever happens meanwhile.
THEOREM StaleNeverWrites == SyncSpec => StaleBatchNeverWrites
<1>1. ASSUME SyncInv
      PROVE  \A h \in Requests :
               (reqs[h].step = "save" /\ reqs'[h] # reqs[h] /\ attempts' # attempts)
                 => /\ reqs[h].stamp.generation = reqs[h].arrived.generation
                    /\ reqs[h].stamp.startList = reqs[h].arrived.startList
  BY <1>1 DEF SyncInv, StampsInOrder
<1> QED BY SyncInvariance, <1>1, PTL DEF SyncSpec, StaleBatchNeverWrites

-----------------------------------------------------------------------------
(* CaptureSync implements CaptureDelivery. *)

AckedOps == {a.op : a \in acked}
StillHeld == {o \in Ops : captured[o] # NoCapture} \ AckedOps
Statused == [o \in Ops |-> ledger[o].status]

\* Only decided operations have been answered.
LEMMA AckedAreDecided ==
  ASSUME SyncInv
  PROVE  /\ \A h \in Requests : \A a \in reqs[h].done : a.op \in Ops /\ ledger[a.op] # Undecided
         /\ \A a \in acked : a.op \in Ops /\ ledger[a.op] # Undecided
         /\ \A o \in Ops : ledger[o] # Undecided => ledger[o].status # "none"
         /\ \A o \in Ops : ~IsCaptured(o) => ledger[o] = Undecided /\ o \notin AckedOps
         /\ \A o \in Ops : IsCaptured(o) /\ ledger[o] = Undecided => o \in StillHeld
<1>1. /\ \A h \in Requests : \A a \in reqs[h].done : a.op \in Ops /\ ledger[a.op] # Undecided
      /\ \A a \in acked : a.op \in Ops /\ ledger[a.op] # Undecided
  BY DEF SyncInv, DataInv, AnswersAreBacked, Told, SyncTypeOK, RequestStates, Outcomes
<1>2. \A o \in Ops : ledger[o] # Undecided => ledger[o].status # "none"
  BY DEF SyncInv, SyncTypeOK, Decisions
<1>3. \A o \in Ops : ~IsCaptured(o) => ledger[o] = Undecided
  BY DEF SyncInv, DataInv, RecordsRefer
<1> QED BY <1>1, <1>2, <1>3 DEF AckedOps, StillHeld, IsCaptured

\* A step that records no decision and sends no answer leaves the devices'
\* view of the server alone, unless it captures.
LEMMA DeliveryStep ==
  ASSUME SyncInv, [SyncNext]_vars
  PROVE  [Delivery!DeliveryNext]_(Delivery!deliveryVars)
<1>0. SyncTypeOK /\ RequestsAreSound /\ Grows
  BY SyncGrows DEF SyncInv, DataInv
<1> DEFINE Decided == {"applied", "reconciliation", "rejected"}
<1>1. ASSUME NEW o \in Ops, NEW cell \in Cells, NEW raw \in Raws, Capture(o, cell, raw)
      PROVE  Delivery!Hold(o)
  <2>1. /\ ~IsCaptured(o) /\ o \notin AckedOps /\ ledger[o] = Undecided
        /\ UNCHANGED <<ledger, acked>>
    BY <1>1, AckedAreDecided DEF Capture, IsCaptured, historyVars
  <2>2. captured'[o] # NoCapture /\ \A p \in Ops \ {o} : captured'[p] = captured[p]
    <3>1. PICK seen \in 0..attempts[cell].version :
            captured' = [captured EXCEPT ![o] = [cell |-> cell, raw |-> raw, expected |-> seen]]
      BY <1>1 DEF Capture
    <3>2. [cell |-> cell, raw |-> raw, expected |-> seen] # NoCapture
      <4>1. DOMAIN [cell |-> cell, raw |-> raw, expected |-> seen] # DOMAIN NoCapture
        BY DEF NoCapture
      <4> QED BY <4>1
    <3> QED BY <1>0, <3>1, <3>2 DEF SyncTypeOK
  <2>3. StillHeld' = StillHeld \union {o} /\ o \notin StillHeld
    BY <2>1, <2>2 DEF StillHeld, AckedOps, IsCaptured
  <2>4. Statused' = Statused /\ Statused[o] = "none"
    BY <2>1 DEF Statused, Undecided
  <2> QED BY <2>3, <2>4 DEF Delivery!Hold, StillHeld, Statused, AckedOps
<1>2. ASSUME NEW h \in Requests, Record(h) \/ Route(h)
      PROVE  \/ \E d \in Decided : Delivery!Decide(Op(h), d)
             \/ UNCHANGED Delivery!deliveryVars
  <2>1. /\ Op(h) \in Ops /\ IsCaptured(Op(h)) /\ UNCHANGED <<captured, acked>>
    BY <1>0, <1>2, OpTyped DEF Record, Route, RequestsAreSound, historyVars
  <2>2. PICK d \in Decided, reason \in Reasons \union Refusals \union {"none"} :
          RecordCaptureOp(Op(h), d, reason)
    <3>1. reqs[h].reason \in Reasons \union Refusals \union {"none"}
      BY <1>0 DEF SyncTypeOK, RequestStates
    <3> QED BY <1>2, <3>1 DEF Record, Route
  <2>3. StillHeld' = StillHeld
    BY <2>1 DEF StillHeld, AckedOps
  <2>4. CASE ledger[Op(h)] = Undecided
    <3>1. /\ ledger'[Op(h)] = [status |-> d, reason |-> reason]
          /\ \A p \in Ops \ {Op(h)} : ledger'[p] = ledger[p]
      BY <1>0, <2>1, <2>2, <2>4, RecordTyped
    <3> DEFINE o == Op(h)
    <3>2. o \in Ops /\ ledger[o] = Undecided /\ ledger'[o].status = d
          /\ \A p \in Ops \ {o} : ledger'[p] = ledger[p]
      BY <2>1, <2>4, <3>1
    <3>3. o \in StillHeld
      BY <2>1, <2>4, AckedAreDecided
    <3> HIDE DEF o
    <3>4. [p \in Ops |-> ledger'[p].status] = [[p \in Ops |-> ledger[p].status] EXCEPT ![o] = d]
      BY <3>2
    <3>5. Statused[o] = "none"
      BY <3>2 DEF Statused, Undecided
    <3>6. Delivery!Decide(o, d)
      BY <2>3, <3>3, <3>4, <3>5 DEF Delivery!Decide, StillHeld, Statused, AckedOps
    <3> QED BY <3>6 DEF o
  <2>5. CASE ledger[Op(h)] # Undecided
    <3>1. \A p \in Ops : ledger'[p] = ledger[p]
      BY <1>0, <2>1, <2>2, <2>5, RecordTyped
    <3>2. Statused' = Statused
      BY <3>1 DEF Statused
    <3> QED BY <2>3, <3>2 DEF Delivery!deliveryVars, StillHeld, Statused, AckedOps
  <2> QED BY <2>4, <2>5
<1>3. ASSUME NEW h \in Requests, Respond(h)
      PROVE  \E S \in SUBSET StillHeld : Delivery!LetGo(S)
  <2> DEFINE S == StillHeld \intersect {a.op : a \in reqs[h].done}
  <2>1. /\ captured' = captured /\ ledger' = ledger
        /\ acked' = acked \union reqs[h].done
    BY <1>3 DEF Respond, dataVars
  <2>2. StillHeld' = StillHeld \ S /\ Statused' = Statused
    BY <2>1 DEF StillHeld, Statused, AckedOps
  <2>3. \A o \in S : o \in Ops /\ Statused[o] # "none"
    BY AckedAreDecided DEF StillHeld, Statused
  <2>4. S \in SUBSET StillHeld
    OBVIOUS
  <2>5. Delivery!LetGo(S)
    BY <2>2, <2>3, <2>4 DEF Delivery!LetGo, StillHeld, Statused, AckedOps
  <2> HIDE DEF S
  <2> QED BY <2>4, <2>5 DEF Delivery!LetGo
<1>4. ASSUME UNCHANGED <<captured, acked, ledger>>
      PROVE  UNCHANGED Delivery!deliveryVars
  BY <1>4 DEF Delivery!deliveryVars
<1>5. \/ \E o \in Ops, cell \in Cells, raw \in Raws : Capture(o, cell, raw)
      \/ \E h \in Requests : Record(h) \/ Route(h) \/ Respond(h)
      \/ UNCHANGED <<captured, acked, ledger>>
  BY DEF SyncNext, OfficeStep, RequestStep, WriterStep, LockStep, Deliver, Abort, Acknowledge,
         NotFound, ReadCheckout, CheckCapture, Save, SaveConflict, AnnounceUnit,
         OnlineCapture, ResolveRead, ResolveVersion, WriterCheck, WriterSave, WriterConflict,
         Settle, WriterAbort, vars, dataVars, historyVars
<1>6. ASSUME NEW h \in Requests, Record(h) \/ Route(h)
      PROVE  Delivery!DeliveryNext \/ UNCHANGED Delivery!deliveryVars
  <2>1. Op(h) \in Ops
    BY <1>0, <1>6, OpTyped DEF Record, Route, RequestsAreSound
  <2> QED BY <1>2, <1>6, <2>1 DEF Delivery!DeliveryNext
<1>7. ASSUME NEW h \in Requests, Respond(h) PROVE Delivery!DeliveryNext
  BY <1>3, <1>7 DEF Delivery!DeliveryNext, StillHeld, AckedOps
<1> QED
  BY <1>1, <1>4, <1>5, <1>6, <1>7 DEF Delivery!DeliveryNext

\* The server, as the devices see it, implements CaptureDelivery: nothing is
\* decided twice, and no device is told to let go of an undecided capture.
THEOREM ServerImplementsDelivery == SyncSpec => ImplementsDelivery
<1>1. SyncInit => Delivery!DeliveryInit
  BY DEF SyncInit, Delivery!DeliveryInit, Undecided
<1>2. SyncInv /\ [SyncNext]_vars => [Delivery!DeliveryNext]_(Delivery!deliveryVars)
  BY DeliveryStep
<1> QED BY SyncInvariance, <1>1, <1>2, PTL
        DEF SyncSpec, ImplementsDelivery, Delivery!DeliverySpec

DecidedStatuses == {"applied", "reconciliation", "rejected"}

\* What implements CaptureDelivery loses nothing.
LEMMA DeliveryLosesNothing == Delivery!DeliverySpec => Delivery!NothingLost
<1>1. Delivery!DeliveryInit => Delivery!DeliveryTypeOK
  BY DEF Delivery!DeliveryInit, Delivery!DeliveryTypeOK
<1>2. Delivery!DeliveryTypeOK /\ [Delivery!DeliveryNext]_(Delivery!deliveryVars)
        => Delivery!DeliveryTypeOK'
  BY DEF Delivery!DeliveryTypeOK, Delivery!DeliveryNext, Delivery!Hold, Delivery!Decide,
         Delivery!LetGo, Delivery!deliveryVars
<1>3. Delivery!DeliveryTypeOK /\ [Delivery!DeliveryNext]_(Delivery!deliveryVars)
        => [\A o \in StillHeld : o \in StillHeld' \/ Statused'[o] \in DecidedStatuses]_(Delivery!deliveryVars)
  <2> SUFFICES ASSUME Delivery!DeliveryTypeOK, Delivery!DeliveryNext,
                      NEW o \in StillHeld, o \notin StillHeld'
               PROVE  Statused'[o] \in DecidedStatuses
    BY DEF Delivery!deliveryVars
  <2>1. PICK S \in SUBSET StillHeld : Delivery!LetGo(S)
    BY DEF Delivery!DeliveryNext, Delivery!Hold, Delivery!Decide, StillHeld, AckedOps
  <2> QED
    BY <2>1 DEF Delivery!LetGo, Delivery!DeliveryTypeOK, StillHeld, AckedOps, Statused, DecidedStatuses
<1> QED
  BY <1>1, <1>2, <1>3, PTL
     DEF Delivery!DeliverySpec, Delivery!NothingLost, StillHeld, AckedOps, Statused, DecidedStatuses

\* No device lets go of a capture before the server has decided it: crashed
\* requests and overlapping deliveries included (replayOne records before it
\* answers, and a device deletes on an answer).
THEOREM ServerLosesNothing == SyncSpec => Delivery!NothingLost
BY ServerImplementsDelivery, DeliveryLosesNothing DEF ImplementsDelivery
=============================================================================
