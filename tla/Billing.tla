-------------------------------- MODULE Billing --------------------------------
(***************************************************************************)
(* The subscription of one user: Stripe's webhooks against the debits of   *)
(* the user's running searches.                                            *)
(*                                                                         *)
(* Stripe is outside the code.  It emits events and delivers each at least *)
(* once, in any order, again until the handler answers with success.  A    *)
(* handler is one transaction: it reads the subscription, changes the      *)
(* entity in memory, merges the WHOLE entity back and commits.  Nothing    *)
(* locks the row between the read and the merge, so another handler or a   *)
(* debit may come between.                                                 *)
(***************************************************************************)
EXTENDS Integers, Sequences, FiniteSets

CONSTANTS
    Subs,         \* the Stripe subscriptions the user may take out
    NoSub,        \* stripe_subscription_id and stripe_customer_id are None
    MaxOpen,      \* bound: requests served at the same time
    Allocated,    \* allocated_ai_credits of each plan
    GraceOf,      \* calculate_grace_days of each plan
    Period,       \* length of a billing period
    Horizon,      \* bound: the last time Stripe charges or signs up anyone
    Window,       \* how long Stripe goes on delivering
    MaxTime,      \* bound: where the clock stops
    MaxEvents,    \* bound: events that Stripe emits
    MaxUpsets,    \* bound: repeated deliveries, e-mail changes, failed commits
    MaxSpent      \* bound: credits debited

Plans == {"FREE", "BASIC", "PREMIUM"}

ASSUME SubsAssumption == NoSub \notin Subs
ASSUME PlanAssumption ==
    /\ Allocated \in [Plans -> Nat]  /\ Allocated["FREE"] = 0
    /\ GraceOf \in [Plans -> Nat]    /\ GraceOf["FREE"] = 0
ASSUME BoundsAssumption ==
    /\ Period \in Nat \ {0}  /\ Horizon \in Nat    /\ Window \in Nat
    /\ MaxTime \in Nat       /\ MaxEvents \in Nat  /\ MaxUpsets \in Nat
    /\ MaxOpen \in Nat       /\ MaxSpent \in Nat

VARIABLES
    now,       \* the clock
    stripe,    \* what Stripe knows of each subscription
    events,    \* the events Stripe has emitted, oldest first
    acked,     \* the indices of those some handler has answered with success
    row,       \* the row of user_subscriptions
    ledger,    \* credit_transactions: the last balance_after, the sum of CONSUME
    tx,        \* the open transaction of each handler
    running,   \* some execution has passed the gate and may use credits
    upsets,    \* the bound used up
    calm       \* history: each event so far was handled once, alone, in order

vars == <<now, stripe, events, acked, row, ledger, tx, running, upsets, calm>>

Handlers == 1..MaxOpen

Account == [plan: Plans, end: Nat, cancelling: BOOLEAN,
            status: {"none", "active", "past_due", "canceled"}]
Event   == [kind: {"checkout", "paid", "failed", "updated", "deleted"}, sub: Subs,
            plan: Plans, end: Nat, cancels: BOOLEAN]
Row     == [plan: Plans, active: BOOLEAN, pastDue: BOOLEAN, grace: Nat, balance: Nat,
            end: Nat, cancelAt: BOOLEAN, sub: Subs \cup {NoSub}]

(* A handler between its read and its commit: the index of its event (0 is   *)
(* the confirmation of an e-mail change), what it read, and the entity it    *)
(* will merge.                                                               *)
Tx      == [open: BOOLEAN, event: Nat, read: [plan: Plans, balance: Nat], new: Row]

(* Registration gives every user a FREE, inactive row.                       *)
FreeRow == [plan |-> "FREE", active |-> FALSE, pastDue |-> FALSE, grace |-> 0,
            balance |-> 0, end |-> 0, cancelAt |-> FALSE, sub |-> NoSub]
Closed  == [open |-> FALSE, event |-> 0, read |-> [plan |-> "FREE", balance |-> 0],
            new |-> FreeRow]
NoAccount == [plan |-> "FREE", end |-> 0, cancelling |-> FALSE, status |-> "none"]

TypeOK ==
    /\ now \in Nat
    /\ stripe \in [Subs -> Account]
    /\ events \in Seq(Event)
    /\ acked \subseteq 1..Len(events)
    /\ row \in Row
    /\ ledger \in [after: Nat, consumed: Nat]
    /\ tx \in [Handlers -> Tx]
    /\ \A h \in Handlers : tx[h].event \in 0..Len(events)
    /\ running \in BOOLEAN
    /\ upsets \in Nat /\ calm \in BOOLEAN

Init ==
    /\ now = 0
    /\ stripe = [s \in Subs |-> NoAccount]
    /\ events = <<>>  /\ acked = {}
    /\ row = FreeRow
    /\ ledger = [after |-> 0, consumed |-> 0]
    /\ tx = [h \in Handlers |-> Closed]
    /\ running = FALSE
    /\ upsets = 0  /\ calm = TRUE

-----------------------------------------------------------------------------
(* The entity: how each webhook changes the subscription it has read. *)

(* Mutants of Refilled and Downgraded: the refill adds; a downgrade keeps the *)
(* credits.                                                                   *)
RefilledOnTop(r)      == [r EXCEPT !.balance = @ + Allocated[r.plan]]
DowngradedKeeping(r)  == [r EXCEPT !.active = FALSE, !.pastDue = FALSE, !.grace = 0,
                                   !.plan = "FREE"]

Refilled(r)      == [r EXCEPT !.balance = Allocated[r.plan]]
NewCycle(r, end) == Refilled([r EXCEPT !.end = end])
Downgraded(r)    == [r EXCEPT !.active = FALSE, !.pastDue = FALSE, !.grace = 0,
                              !.balance = 0, !.plan = "FREE"]

(* The session carries no dates, so the cycle is provisional: one period     *)
(* from now. The account type is set before the refill, which depends on it. *)
AfterCheckout(r, ev) ==
    NewCycle([r EXCEPT !.active = TRUE, !.sub = ev.sub, !.plan = ev.plan,
                       !.grace = GraceOf[ev.plan]], now + Period)

(* Mutants of AfterPaid: it sets the plan too; it leaves is_past_due.        *)
AfterPaidWithPlan(r, ev) ==
    [NewCycle([r EXCEPT !.plan = ev.plan], ev.end) EXCEPT !.active = TRUE, !.pastDue = FALSE]
AfterPaidStillDue(r, ev) == [NewCycle(r, ev.end) EXCEPT !.active = TRUE]

(* An invoice renews the cycle of whatever plan the row has.                 *)
AfterPaid(r, ev) ==
    [NewCycle(r, ev.end) EXCEPT !.active = TRUE, !.pastDue = FALSE]

(* A first payment that failed, or a renewal that did, in or past its grace. *)
AfterFailed(r) ==
    IF r.sub = NoSub \/ now > r.end + r.grace THEN Downgraded(r)
    ELSE [r EXCEPT !.pastDue = TRUE]

(* Only the scheduled cancellation is looked at; any other update merges the *)
(* entity as it was read.                                                    *)
AfterUpdated(r, ev) ==
    IF ev.cancels THEN [r EXCEPT !.cancelAt = TRUE, !.end = ev.end] ELSE r

AfterDeleted(r) == Downgraded([r EXCEPT !.cancelAt = TRUE])

After(r, ev) ==
    CASE ev.kind = "checkout" -> AfterCheckout(r, ev)
      [] ev.kind = "paid"     -> AfterPaid(r, ev)
      [] ev.kind = "failed"   -> AfterFailed(r)
      [] ev.kind = "updated"  -> AfterUpdated(r, ev)
      [] OTHER                -> AfterDeleted(r)

(* Which events find the row: the checkout by the user id in its metadata,   *)
(* a paid invoice by the Stripe id or else by the e-mail, the others by the  *)
(* Stripe ids only. What is not found is answered with an error.             *)
Finds(ev) == ev.kind \in {"checkout", "paid"} \/ row.sub = ev.sub

(* Mutant of CanRun: the gate does not read the deadline.                    *)
CanRunForever ==
    /\ row.active  /\ row.plan # "FREE"  /\ row.balance > 0
    /\ ~(row.pastDue /\ row.plan = "BASIC")

(* can_run_agent, the gate of start and resume.                              *)
CanRun ==
    /\ row.active  /\ row.plan # "FREE"  /\ row.balance > 0
    /\ now <= row.end + row.grace
    /\ ~(row.pastDue /\ row.plan = "BASIC")

-----------------------------------------------------------------------------
(* Stripe, and the clock. *)

Emit(es) ==
    /\ Len(events) + Len(es) <= MaxEvents  /\ now <= Horizon
    /\ events' = events \o es

Notice(kind, s, cancels) ==
    [kind |-> kind, sub |-> s, plan |-> stripe[s].plan, end |-> stripe[s].end,
     cancels |-> cancels]

StripeOnly == UNCHANGED <<now, acked, row, ledger, tx, running, upsets, calm>>

(* CreateCheckoutSession does not look at the subscription the user has: a   *)
(* second one may be taken out while the first is alive.                     *)
SignUp(s, plan) ==
    LET first == [plan |-> plan, end |-> now + Period, cancelling |-> FALSE,
                  status |-> "active"]
        about(kind) == [kind |-> kind, sub |-> s, plan |-> plan, end |-> now + Period,
                        cancels |-> FALSE]
    IN  /\ stripe[s].status = "none"  /\ plan \in Plans \ {"FREE"}
        /\ stripe' = [stripe EXCEPT ![s] = first]
        /\ Emit(<<about("checkout"), about("paid")>>)
        /\ StripeOnly

(* The renewal at the end of a period, at once or after failed attempts.     *)
Renew(s) ==
    /\ stripe[s].status \in {"active", "past_due"}  /\ ~stripe[s].cancelling
    /\ now >= stripe[s].end
    /\ stripe' = [stripe EXCEPT ![s].status = "active", ![s].end = @ + Period]
    /\ Emit(<<[Notice("paid", s, FALSE) EXCEPT !.end = @ + Period]>>)
    /\ StripeOnly

RenewalFails(s) ==
    /\ stripe[s].status = "active"  /\ ~stripe[s].cancelling
    /\ now >= stripe[s].end
    /\ stripe' = [stripe EXCEPT ![s].status = "past_due"]
    /\ Emit(<<Notice("failed", s, FALSE)>>)
    /\ StripeOnly

(* In the portal the user schedules the cancellation, or takes it back.      *)
Portal(s) ==
    /\ stripe[s].status = "active"
    /\ stripe' = [stripe EXCEPT ![s].cancelling = ~@]
    /\ Emit(<<Notice("updated", s, ~stripe[s].cancelling)>>)
    /\ StripeOnly

Delete(s) ==
    /\ stripe[s].status = "past_due" \/ (stripe[s].cancelling /\ now >= stripe[s].end)
    /\ stripe[s].status # "canceled"
    /\ stripe' = [stripe EXCEPT ![s].status = "canceled"]
    /\ Emit(<<Notice("deleted", s, FALSE)>>)
    /\ StripeOnly

Tick ==
    /\ now < MaxTime  /\ now' = now + 1
    /\ UNCHANGED <<stripe, events, acked, row, ledger, tx, running, upsets, calm>>

-----------------------------------------------------------------------------
(* The webhook handlers. *)

Pending == (1..Len(events)) \ acked
AllClosed == \A h \in Handlers : ~tx[h].open

(* A request is served by the first free handler.                            *)
Free(h) == ~tx[h].open /\ \A k \in 1..(h - 1) : tx[k].open

Upset == upsets < MaxUpsets /\ upsets' = upsets + 1

Open(h, i, new) ==
    tx' = [tx EXCEPT ![h] = [open |-> TRUE, event |-> i, new |-> new,
                             read |-> [plan |-> row.plan, balance |-> row.balance]]]

(* A handler begins: reads the row and changes the entity. Stripe delivers   *)
(* an event that was not answered again, for Window after its last sign of   *)
(* life, and now and then one that was.                                      *)
Deliver(h, i) ==
    /\ Free(h)  /\ i \in 1..Len(events)  /\ Finds(events[i])
    /\ now <= Horizon + Window
    /\ (i \in Pending /\ UNCHANGED upsets) \/ (i \in acked /\ Upset)
    /\ Open(h, i, After(row, events[i]))
    /\ calm' = (calm /\ AllClosed /\ i \in Pending /\ \A j \in Pending : i <= j)
    /\ UNCHANGED <<now, stripe, events, acked, row, ledger, running>>

(* The confirmation of an e-mail change merges the subscription too.         *)
EmailChange(h) ==
    /\ Free(h)  /\ Upset
    /\ Open(h, 0, row)
    /\ calm' = (calm /\ AllClosed)
    /\ UNCHANGED <<now, stripe, events, acked, row, ledger, running>>

IsRefill(i) == i # 0 /\ events[i].kind \in {"checkout", "paid"}

(* save merges every column of the entity; a successful payment is recorded  *)
(* in the ledger in the same transaction, with the balance of the entity.    *)
Merge(h) == row' = tx[h].new

Record(h) ==
    ledger' = IF IsRefill(tx[h].event) THEN [ledger EXCEPT !.after = tx[h].new.balance]
              ELSE ledger

Commit(h) ==
    /\ tx[h].open
    /\ Merge(h)  /\ Record(h)
    /\ acked' = acked \cup ({tx[h].event} \ {0})
    /\ tx' = [tx EXCEPT ![h] = Closed]
    /\ UNCHANGED <<now, stripe, events, running, upsets, calm>>

(* The handler fails before its commit: rolled back, answered with an error. *)
Abort(h) ==
    /\ tx[h].open  /\ Upset
    /\ tx' = [tx EXCEPT ![h] = Closed]
    /\ UNCHANGED <<now, stripe, events, acked, row, ledger, running, calm>>

-----------------------------------------------------------------------------
(* The executions of the user's searches. *)

RunStarts ==
    /\ ~running  /\ CanRun  /\ running' = TRUE
    /\ UNCHANGED <<now, stripe, events, acked, row, ledger, tx, upsets, calm>>

(* The guarded UPDATE and the CONSUME row, in one statement.                 *)
Covers(n) == row.balance >= n

Consume(n) ==
    /\ running  /\ Covers(n)
    /\ ledger.consumed + n <= MaxSpent
    /\ row' = [row EXCEPT !.balance = @ - n]
    /\ ledger' = [after |-> row.balance - n, consumed |-> ledger.consumed + n]
    /\ UNCHANGED <<now, stripe, events, acked, tx, running, upsets, calm>>

-----------------------------------------------------------------------------
Stripe ==
    \E s \in Subs :
        \/ \E plan \in Plans : SignUp(s, plan)
        \/ Renew(s) \/ RenewalFails(s) \/ Portal(s) \/ Delete(s)

Handler(h) ==
    \/ \E i \in 1..Len(events) : Deliver(h, i)
    \/ EmailChange(h) \/ Commit(h) \/ Abort(h)

Next ==
    \/ Stripe \/ Tick
    \/ \E h \in Handlers : Handler(h)
    \/ RunStarts
    \/ \E n \in 1..MaxSpent : Consume(n)

Spec == Init /\ [][Next]_vars

-----------------------------------------------------------------------------
(* Properties. *)

(* Whatever handlers and debits cross, the balance is at most what the plan  *)
(* on the row allocates; in particular a downgraded user has no credits left *)
(* for an execution that is still running.                                   *)
BalanceWithinPlan == row.balance <= Allocated[row.plan]

(* A downgrade sticks: the plan of a FREE row comes back only with a         *)
(* checkout, or when a handler that had read the row before the downgrade    *)
(* merges it afterwards. A late or repeated invoice does not bring it back.  *)
DowngradeSticks ==
    [][row.plan = "FREE" /\ row'.plan # "FREE"
        => \E h \in Handlers :
              /\ tx[h].open /\ ~tx'[h].open
              /\ \/ tx[h].event # 0 /\ events[tx[h].event].kind = "checkout"
                 \/ tx[h].read.plan # "FREE"]_vars

(* The wallet: every change of the balance is a refill to an allocation, a   *)
(* covered spending, a forfeit, or the return of a balance an open handler   *)
(* had read.                                                                 *)
ReadBalances == {tx[h].read.balance : h \in {k \in Handlers : tx[k].open}}

W == INSTANCE Wallet WITH balance <- row.balance, open <- ReadBalances
WalletSpec == W!Spec

(* Handled once, alone and in order, the events leave the row as Stripe has  *)
(* it: a live subscription is active, not past due and ends when Stripe says *)
(* so, and a canceled one lets no execution start.                           *)
SettledMatchesStripe ==
    calm /\ Pending = {} /\ AllClosed =>
        \A s \in Subs : row.sub = s /\ (\A t \in Subs \ {s} : stripe[t].status = "none") =>
            /\ stripe[s].status = "canceled" => ~CanRun
            /\ stripe[s].status = "active" =>
                  row.active /\ ~row.pastDue /\ row.end = stripe[s].end

(* When the last payment is more than a period and the grace old, the agent  *)
(* has stopped, whichever webhooks were lost, repeated, overtaken or stale:  *)
(* no handler pushes the deadline of the gate further than that.             *)
AgentStopsWithPayments ==
    CanRun => now <= Horizon + Window + Period + GraceOf[row.plan]

(* start_new_cycle: "Begin a billing cycle: fresh credits AND fresh          *)
(* application volume". The claim for an invoice handled alone and in order. *)
PaidCycleHasCredits ==
    [][\A h \in Handlers :
          ( /\ tx[h].open  /\ ~tx'[h].open  /\ calm  /\ upsets' = upsets
            /\ tx[h].event # 0  /\ events[tx[h].event].kind = "paid" )
          => row'.balance = Allocated[events[tx[h].event].plan]]_vars

(* CreditTransaction: balance_after is there "so the ledger can be           *)
(* reconciled against user_subscriptions.ai_credits_balance".                *)
LedgerReconciles == ledger.after = row.balance
==============================================================================
