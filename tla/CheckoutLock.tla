---------------------------- MODULE CheckoutLock ----------------------------
(***************************************************************************)
(* The event-unit checkout of the offline capture path: the single row of  *)
(* unit_checkouts for one unit, and the requests that read and rewrite it. *)
(*                                                                         *)
(* Every SQL statement is atomic (one writer connection), but CheckoutUnit *)
(* and EnsureCheckout run theirs outside a transaction: the row they read, *)
(* the row they write and the row they hand back to the device are three   *)
(* separate steps, and the office may commit between any two of them.      *)
(***************************************************************************)
EXTENDS Naturals, FiniteSets

CONSTANTS
  Officials,      \* accounts whose devices ask for the unit's checkout
  Office,         \* the account that performs the office actions
  Devices,        \* device labels
  Calls,          \* concurrent checkout requests
  ReleaseRouted,  \* TRUE when something calls ReleaseCheckout (no route does)
  MaxVersion      \* bound on writes of the row

ASSUME DevicesAssumption == Devices # {}
ASSUME ReleaseAssumption == ReleaseRouted \in BOOLEAN
ASSUME MaxVersionAssumption == MaxVersion \in Nat

VARIABLES
  checkout,   \* the unit_checkouts row; version 0 stands for "no row"
  calls,      \* what each checkout request in flight is about to do
  lastToken,  \* tokens minted so far: NewID() never repeats one
  granted     \* stamps returned to a device, with who asked for them

Accounts == Officials \union {Office}

lockVars == <<checkout, calls, lastToken, granted>>

NoCheckout ==
  [account |-> Office, device |-> CHOOSE d \in Devices : TRUE, token |-> 0,
   generation |-> 0, startList |-> 0, active |-> FALSE, version |-> 0]

Checkouts ==
  [account : Accounts, device : Devices, token : Nat, generation : Nat,
   startList : Nat, active : BOOLEAN, version : Nat]

Stamps == [token : Nat, generation : Nat, startList : Nat]
StampOf(row) ==
  [token |-> row.token, generation |-> row.generation, startList |-> row.startList]

Grants == [account : Accounts, device : Devices, stamp : Stamps]

CallSteps == {"idle", "create", "ensure", "reassign", "reread", "release"}
CallStates == [step : CallSteps, account : Accounts, device : Devices, seen : Nat]
IdleCall == [step |-> "idle", account |-> Office, device |-> NoCheckout.device, seen |-> 0]

HasRow == checkout.version > 0

LockTypeOK ==
  /\ checkout \in Checkouts
  /\ calls \in [Calls -> CallStates]
  /\ lastToken \in Nat
  /\ granted \subseteq Grants

LockInit ==
  /\ checkout = NoCheckout
  /\ calls = [c \in Calls |-> IdleCall]
  /\ lastToken = 0
  /\ granted = {}

-----------------------------------------------------------------------------
(* The statements of store/checkout.go. *)

Finish(c) == calls' = [calls EXCEPT ![c] = IdleCall]
Continue(c, step) == calls' = [calls EXCEPT ![c].step = step]
Start(c, step, a, d) ==
  calls' = [calls EXCEPT ![c] =
    [step |-> step, account |-> a, device |-> d, seen |-> checkout.version]]

Grant(a, d) ==
  granted' = granted \union {[account |-> a, device |-> d, stamp |-> StampOf(checkout)]}

\* INSERT of the first checkout: generation 1, start list 0.
CreateCheckout(a, d) ==
  /\ lastToken' = lastToken + 1
  /\ checkout' = [account |-> a, device |-> d, token |-> lastToken',
                  generation |-> 1, startList |-> 0, active |-> TRUE, version |-> 1]

\* Mutants of ReassignCheckout: a hand-over that keeps the generation, and one
\* that leaves the account column empty.
ReassignCheckout_SameGeneration(a, d) ==
  /\ lastToken' = lastToken + 1
  /\ checkout' = [checkout EXCEPT !.account = a, !.device = d, !.token = lastToken',
                                  !.active = TRUE, !.version = @ + 1]
ReassignCheckout_Orphaned(a, d) ==
  /\ lastToken' = lastToken + 1
  /\ checkout' = [checkout EXCEPT !.account = "", !.device = d, !.token = lastToken',
                                  !.generation = @ + 1, !.active = TRUE,
                                  !.version = @ + 1]

\* UPDATE that hands the lock over: new token, next generation.
ReassignCheckout(a, d) ==
  /\ lastToken' = lastToken + 1
  /\ checkout' = [checkout EXCEPT !.account = a, !.device = d, !.token = lastToken',
                                  !.generation = @ + 1, !.active = TRUE,
                                  !.version = @ + 1]

\* Mutant of the next definition: the UPDATE without its version guard.
Unchanged_Unguarded(c) == TRUE

\* The WHERE version = ? of the two guarded updates outside a transaction.
Unchanged(c) == checkout.version = calls[c].seen

-----------------------------------------------------------------------------
(* CheckoutUnit: read, then one of its four ways on. *)

\* Another account holds the lock: the request is answered 409.
Refused(a) == HasRow /\ checkout.active /\ checkout.account # a

\* The same account on the same device is handed the row it already holds.
Held(a, d) ==
  HasRow /\ checkout.active /\ checkout.account = a /\ checkout.device = d

CheckoutRead(c, a, d) ==
  /\ calls[c].step = "idle"
  /\ \/ /\ Refused(a)
        /\ UNCHANGED <<calls, granted>>
     \/ /\ ~HasRow
        /\ Start(c, "create", a, d)
        /\ UNCHANGED granted
     \/ /\ Held(a, d)
        /\ Grant(a, d)
        /\ UNCHANGED calls
     \/ /\ HasRow
        /\ ~Refused(a)
        /\ ~Held(a, d)
        /\ Start(c, "reassign", a, d)
        /\ UNCHANGED granted
  /\ UNCHANGED <<checkout, lastToken>>

\* EnsureCheckout, run when the unit's page is opened: it only ever creates,
\* and the page ignores what it returns.
EnsureRead(c, a, d) ==
  /\ calls[c].step = "idle"
  /\ ~HasRow
  /\ Start(c, "ensure", a, d)
  /\ UNCHANGED <<checkout, lastToken, granted>>

\* The primary key on unit_id turns a racing second INSERT into an error.
CreateFails(c) ==
  /\ calls[c].step \in {"create", "ensure"}
  /\ HasRow
  /\ Finish(c)
  /\ UNCHANGED <<checkout, lastToken, granted>>

Create(c) ==
  /\ calls[c].step \in {"create", "ensure"}
  /\ ~HasRow
  /\ CreateCheckout(calls[c].account, calls[c].device)
  /\ IF calls[c].step = "create" THEN Continue(c, "reread") ELSE Finish(c)
  /\ UNCHANGED granted

Reassign(c) ==
  /\ calls[c].step = "reassign"
  /\ Unchanged(c)
  /\ checkout.version < MaxVersion
  /\ ReassignCheckout(calls[c].account, calls[c].device)
  /\ Continue(c, "reread")
  /\ UNCHANGED granted

\* oneRow: no row was updated, so the caller gets ErrVersionConflict.
GuardFails(c) ==
  /\ calls[c].step \in {"reassign", "release"}
  /\ ~Unchanged(c)
  /\ Finish(c)
  /\ UNCHANGED <<checkout, lastToken, granted>>

\* The GetCheckout that ends CreateCheckout and ReassignCheckout is a
\* statement of its own: what it returns is the row as it is now.
Reread(c) ==
  /\ calls[c].step = "reread"
  /\ Grant(calls[c].account, calls[c].device)
  /\ Finish(c)
  /\ UNCHANGED <<checkout, lastToken>>

\* The request is cut short: a dropped connection, a restart of the server.
CallLost(c) ==
  /\ calls[c].step # "idle"
  /\ Finish(c)
  /\ UNCHANGED <<checkout, lastToken, granted>>

-----------------------------------------------------------------------------
(* The office actions, each one transaction, and the unrouted release. *)

OverrideCheckout(d) ==
  /\ HasRow
  /\ checkout.version < MaxVersion
  /\ ReassignCheckout(Office, d)
  /\ UNCHANGED <<calls, granted>>

ReviseStartList ==
  /\ HasRow
  /\ checkout.version < MaxVersion
  /\ checkout' = [checkout EXCEPT !.startList = @ + 1, !.version = @ + 1]
  /\ UNCHANGED <<calls, lastToken, granted>>

ReleaseRead(c, a, d) ==
  /\ ReleaseRouted
  /\ calls[c].step = "idle"
  /\ HasRow
  /\ Start(c, "release", a, d)
  /\ UNCHANGED <<checkout, lastToken, granted>>

ReleaseCheckout(c) ==
  /\ calls[c].step = "release"
  /\ Unchanged(c)
  /\ checkout.version < MaxVersion
  /\ checkout' = [checkout EXCEPT !.active = FALSE, !.version = @ + 1]
  /\ Finish(c)
  /\ UNCHANGED <<lastToken, granted>>

-----------------------------------------------------------------------------
LockNext ==
  \/ \E c \in Calls, a \in Officials, d \in Devices :
       \/ CheckoutRead(c, a, d)
       \/ EnsureRead(c, a, d)
       \/ ReleaseRead(c, a, d)
  \/ \E c \in Calls :
       \/ Create(c) \/ CreateFails(c)
       \/ Reassign(c) \/ ReleaseCheckout(c) \/ GuardFails(c)
       \/ Reread(c) \/ CallLost(c)
  \/ \E d \in Devices : OverrideCheckout(d)
  \/ ReviseStartList

LockSpec == LockInit /\ [][LockNext]_lockVars

-----------------------------------------------------------------------------
(* What the lock promises. *)

\* A token names one holding of the lock. Between stamps handed to devices,
\* and between a stamp and the row, equal tokens and equal generations are
\* the same thing, so the two staleness checks of replayOne (the credential
\* and the counter) can never disagree about who holds the unit; and no
\* device is ahead of the row.
StampsAgree ==
  /\ \A g \in granted :
       /\ g.stamp.token = checkout.token <=> g.stamp.generation = checkout.generation
       /\ g.stamp.generation <= checkout.generation
       /\ g.stamp.generation = checkout.generation
            => g.stamp.startList <= checkout.startList
  /\ \A g, h \in granted :
       g.stamp.token = h.stamp.token <=> g.stamp.generation = h.stamp.generation

\* A lock that is actively held leaves its account only by the audited office
\* override (SYS-086): a CheckoutUnit that read the row earlier, while it was
\* its own or free, must not take the lock back after an override committed.
OnlyOfficeTakesOver ==
  [][ (HasRow /\ checkout.active /\ checkout'.account # checkout.account)
        => checkout'.account = Office ]_lockVars

\* Every change of hands is visible in the generation, and nothing else moves
\* it: a device that still holds the lock is never made stale by a start-list
\* revision, and a device that lost it never looks current.
GenerationCountsHandovers ==
  [][ checkout'.generation =
        IF checkout'.token # checkout.token THEN checkout.generation + 1
                                            ELSE checkout.generation ]_lockVars

\* "At most one device/account at a time holds the capture lock" (SYS-086):
\* only the row's own account and device have been handed its live token.
\* The separate re-read of the row breaks it (the README gives the trace).
OneHolder ==
  \A g \in granted :
    g.stamp.token = checkout.token
      => g.account = checkout.account /\ g.device = checkout.device

\* UC-034 #5: after an override "capture resumes on another device". Where the
\* office account captures nothing itself, it holds the lock through an override
\* only, and then the officials' devices must not be refused. They are: the
\* override makes the office's own account the holder (see the README).
CaptureResumesElsewhere ==
  \A a \in Officials :
    Office \notin Officials /\ checkout.account = Office => ~Refused(a)
=============================================================================
