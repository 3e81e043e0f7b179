----------------------------- MODULE BillingProofs -----------------------------
(* Theorems about Billing, for every value of the constants.                   *)
EXTENDS Billing, TLAPS

(* What every row, stored or about to be merged, satisfies: it has no more     *)
(* credits than its plan allocates, the grace of its plan, and a deadline the  *)
(* last possible payment explains.                                             *)
Deadline == Horizon + Window + Period

Sound(r) ==
    /\ r.balance <= Allocated[r.plan]
    /\ r.grace = GraceOf[r.plan]
    /\ r.end <= Deadline

(* What a handler has done to the row it read.                                 *)
FromCheckout(t) == t.event # 0 /\ events[t.event].kind = "checkout"

Explained(t) ==
    /\ t.new.plan \in {t.read.plan, "FREE"} \/ FromCheckout(t)
    /\ t.new.balance \in {t.read.balance, 0} \cup {Allocated[p] : p \in Plans}

BillingInv ==
    /\ TypeOK
    /\ \A s \in Subs : stripe[s].end <= Horizon + Period
    /\ \A i \in 1..Len(events) : events[i].end <= Horizon + Period
    /\ Sound(row)
    /\ \A h \in Handlers : tx[h].open => Sound(tx[h].new) /\ Explained(tx[h])

LEMMA ConstantFacts ==
    /\ \A p \in Plans : Allocated[p] \in Nat /\ GraceOf[p] \in Nat
    /\ Allocated["FREE"] = 0 /\ GraceOf["FREE"] = 0
    /\ Period \in Nat /\ Horizon \in Nat /\ Window \in Nat
    /\ Deadline \in Nat /\ Horizon + Period <= Deadline
BY PlanAssumption, BoundsAssumption DEF Deadline

LEMMA InitInv == Init => BillingInv
<1>. SUFFICES ASSUME Init PROVE BillingInv
  OBVIOUS
<1>1. FreeRow \in Row /\ Sound(FreeRow)
  BY ConstantFacts DEF FreeRow, Row, Plans, Sound
<1>2. Closed \in Tx /\ ~Closed.open /\ Closed.event = 0
  BY <1>1 DEF Closed, Tx, Plans
<1>3. NoAccount \in Account /\ NoAccount.end = 0
  BY DEF NoAccount, Account, Plans
<1>4. events = <<>> /\ Len(events) = 0 /\ events \in Seq(Event)
  BY DEF Init
<1>5. TypeOK
  <2>1. /\ now \in Nat /\ acked \subseteq 1..Len(events)
        /\ ledger \in [after: Nat, consumed: Nat]
        /\ running \in BOOLEAN /\ upsets \in Nat /\ calm \in BOOLEAN
    BY <1>4 DEF Init
  <2>2. stripe \in [Subs -> Account] /\ row \in Row
    BY <1>1, <1>3 DEF Init
  <2>3. tx \in [Handlers -> Tx] /\ \A h \in Handlers : tx[h].event \in 0..Len(events)
    BY <1>2, <1>4 DEF Init
  <2>. QED
    BY <1>4, <2>1, <2>2, <2>3 DEF TypeOK
<1>6. Sound(row) /\ \A h \in Handlers : ~tx[h].open
  BY <1>1, <1>2 DEF Init
<1>7. \A s \in Subs : stripe[s].end <= Horizon + Period
  BY <1>3, ConstantFacts DEF Init
<1>. QED
  BY <1>4, <1>5, <1>6, <1>7 DEF BillingInv

-----------------------------------------------------------------------------
(* What the webhooks do to a row. *)

LEMMA NewCycleIs ==
    ASSUME NEW r \in Row, NEW end \in Nat, NEW n, n = NewCycle(r, end)
    PROVE  n = [r EXCEPT !.end = end, !.balance = Allocated[r.plan]]
BY DEF NewCycle, Refilled, Row

LEMMA DowngradedIsSound ==
    ASSUME NEW r \in Row, Sound(r), NEW n, n = Downgraded(r)
    PROVE  n \in Row /\ Sound(n) /\ n.plan = "FREE" /\ n.balance = 0
<1>1. /\ n \in Row
      /\ n.plan = "FREE" /\ n.balance = 0 /\ n.grace = 0 /\ n.end = r.end
  BY DEF Downgraded, Row, Plans
<1>. QED
  BY <1>1, ConstantFacts DEF Sound

LEMMA AfterIsSound ==
    ASSUME NEW r \in Row, Sound(r), NEW ev \in Event, ev.end <= Horizon + Period,
           now \in Nat, now <= Horizon + Window, NEW n, n = After(r, ev)
    PROVE  /\ n \in Row  /\ Sound(n)
           /\ n.plan \in {r.plan, "FREE"} \/ ev.kind = "checkout"
           /\ n.balance \in {r.balance, 0} \cup {Allocated[p] : p \in Plans}
<1>1. /\ ev.plan \in Plans /\ ev.sub \in Subs /\ ev.end \in Nat
      /\ r.plan \in Plans /\ r.balance \in Nat /\ r.end \in Nat /\ r.grace \in Nat
  BY DEF Event, Row
<1>2. CASE ev.kind = "checkout"
  <2>1. PICK q : q = [r EXCEPT !.active = TRUE, !.sub = ev.sub, !.plan = ev.plan,
                               !.grace = GraceOf[ev.plan]]
    OBVIOUS
  <2>2. q \in Row /\ q.plan = ev.plan /\ q.grace = GraceOf[ev.plan]
    BY <1>1, <2>1, ConstantFacts DEF Row
  <2>3. now + Period \in Nat /\ now + Period <= Deadline
    BY ConstantFacts DEF Deadline
  <2>4. n = [q EXCEPT !.end = now + Period, !.balance = Allocated[q.plan]]
    BY ZenonT(60), <1>2, <2>1, <2>2, <2>3, NewCycleIs DEF After, AfterCheckout
  <2>5. /\ n \in Row /\ n.plan = ev.plan /\ n.grace = GraceOf[ev.plan]
        /\ n.balance = Allocated[ev.plan] /\ n.end = now + Period
    BY <1>1, <2>2, <2>3, <2>4, ConstantFacts DEF Row
  <2>. QED
    BY <1>1, <1>2, <2>3, <2>5, ConstantFacts DEF Sound
<1>3. CASE ev.kind = "paid"
  <2>1. PICK q : q = NewCycle(r, ev.end)
    OBVIOUS
  <2>2. q = [r EXCEPT !.end = ev.end, !.balance = Allocated[r.plan]]
    BY <1>1, <2>1, NewCycleIs
  <2>3. n = [q EXCEPT !.active = TRUE, !.pastDue = FALSE]
    BY <1>3, <2>1 DEF After, AfterPaid
  <2>4. /\ n \in Row /\ n.plan = r.plan /\ n.grace = r.grace
        /\ n.balance = Allocated[r.plan] /\ n.end = ev.end
    BY <1>1, <2>2, <2>3, ConstantFacts DEF Row
  <2>. QED
    BY <1>1, <2>4, ConstantFacts DEF Sound
<1>4. CASE ev.kind = "failed"
  <2>1. n = Downgraded(r) \/ n = [r EXCEPT !.pastDue = TRUE]
    BY <1>4 DEF After, AfterFailed
  <2>2. CASE n = [r EXCEPT !.pastDue = TRUE]
    <3>1. /\ n \in Row /\ n.plan = r.plan /\ n.grace = r.grace
          /\ n.balance = r.balance /\ n.end = r.end
      BY <1>1, <2>2 DEF Row
    <3>. QED
      BY <3>1 DEF Sound
  <2>. QED
    BY <2>1, <2>2, DowngradedIsSound
<1>5. CASE ev.kind = "updated"
  <2>1. n = r \/ n = [r EXCEPT !.cancelAt = TRUE, !.end = ev.end]
    BY <1>5 DEF After, AfterUpdated
  <2>2. CASE n = [r EXCEPT !.cancelAt = TRUE, !.end = ev.end]
    <3>1. /\ n \in Row /\ n.plan = r.plan /\ n.grace = r.grace
          /\ n.balance = r.balance /\ n.end = ev.end
      BY <1>1, <2>2 DEF Row
    <3>. QED
      BY <3>1, <1>1, ConstantFacts DEF Sound
  <2>. QED
    BY <2>1, <2>2
<1>6. CASE ev.kind = "deleted"
  <2>1. PICK q : q = [r EXCEPT !.cancelAt = TRUE]
    OBVIOUS
  <2>2. /\ q \in Row /\ q.plan = r.plan /\ q.grace = r.grace
        /\ q.balance = r.balance /\ q.end = r.end
    BY <1>1, <2>1 DEF Row
  <2>3. Sound(q) /\ n = Downgraded(q)
    BY <1>6, <2>1, <2>2 DEF Sound, After, AfterDeleted
  <2>. QED
    BY <2>2, <2>3, DowngradedIsSound
<1>. QED
  BY <1>2, <1>3, <1>4, <1>5, <1>6 DEF Event

-----------------------------------------------------------------------------
(* The steps. *)

LEMMA EmitInv ==
    ASSUME TypeOK, \A i \in 1..Len(events) : events[i].end <= Horizon + Period,
           NEW es \in Seq(Event), Emit(es),
           \A i \in 1..Len(es) : es[i].end <= Horizon + Period
    PROVE  /\ events' \in Seq(Event)  /\ Len(events') >= Len(events)
           /\ \A i \in 1..Len(events) : events'[i] = events[i]
           /\ \A i \in 1..Len(events') : events'[i].end <= Horizon + Period
<1>1. events \in Seq(Event) /\ events' = events \o es
  BY DEF Emit, TypeOK
<1>2. /\ events' \in Seq(Event)  /\ Len(events') = Len(events) + Len(es)
      /\ \A i \in 1..Len(events) : events'[i] = events[i]
      /\ \A i \in 1..Len(es) : events'[Len(events) + i] = es[i]
  BY <1>1
<1>3. ASSUME NEW i \in 1..Len(events')  PROVE  events'[i].end <= Horizon + Period
  <2>1. CASE i <= Len(events)
    BY <1>1, <1>2, <2>1
  <2>2. CASE i > Len(events)
    <3>1. i - Len(events) \in 1..Len(es)  /\ i = Len(events) + (i - Len(events))
      BY <1>1, <1>2, <2>2
    <3>. QED
      BY <1>2, <3>1
  <2>. QED
    BY <1>1, <1>2, <2>1, <2>2
<1>. QED
  BY <1>1, <1>2, <1>3

LEMMA OneEvent ==
    ASSUME NEW e \in Event, e.end <= Horizon + Period
    PROVE  /\ <<e>> \in Seq(Event)
           /\ \A i \in 1..Len(<<e>>) : <<e>>[i].end <= Horizon + Period
OBVIOUS

LEMMA TwoEvents ==
    ASSUME NEW e \in Event, NEW f \in Event,
           e.end <= Horizon + Period, f.end <= Horizon + Period
    PROVE  /\ <<e, f>> \in Seq(Event)
           /\ \A i \in 1..Len(<<e, f>>) : <<e, f>>[i].end <= Horizon + Period
OBVIOUS

(* Stripe's own steps change what Stripe knows and append to the events.      *)
LEMMA StripeSteps ==
    ASSUME BillingInv, NEW s \in Subs,
           NEW plan \in Plans,
           SignUp(s, plan) \/ Renew(s) \/ RenewalFails(s) \/ Portal(s) \/ Delete(s)
    PROVE  /\ BillingInv'
           /\ Len(events') >= Len(events)
           /\ \A i \in 1..Len(events) : events'[i] = events[i]
<1>. USE ConstantFacts
<1>1. /\ stripe \in [Subs -> Account]  /\ stripe[s].end \in Nat  /\ now \in Nat
      /\ stripe[s].plan \in Plans
      /\ \A t \in Subs : stripe[t].end <= Horizon + Period
  BY DEF BillingInv, TypeOK, Account
<1>. DEFINE Appended(es) ==
         /\ es \in Seq(Event)  /\ Emit(es)
         /\ \A i \in 1..Len(es) : es[i].end <= Horizon + Period
<1>2. /\ StripeOnly
      /\ stripe' \in [Subs -> Account]
      /\ \A t \in Subs : stripe'[t].end <= Horizon + Period
      /\ \E es : Appended(es)
  <2>1. ASSUME NEW kind \in {"paid", "failed", "updated", "deleted"}, NEW c \in BOOLEAN
        PROVE  Notice(kind, s, c) \in Event /\ Notice(kind, s, c).end = stripe[s].end
    BY <1>1 DEF Notice, Event
  <2>2. CASE SignUp(s, plan)
    <3>. DEFINE about(kind) == [kind |-> kind, sub |-> s, plan |-> plan,
                                end |-> now + Period, cancels |-> FALSE]
    <3>1. now <= Horizon /\ now + Period \in Nat /\ now + Period <= Horizon + Period
      BY <1>1, <2>2 DEF SignUp, Emit
    <3>2. about("checkout") \in Event /\ about("paid") \in Event
      BY <3>1 DEF Event
    <3>3. Appended(<<about("checkout"), about("paid")>>)
      BY <2>2, <3>1, <3>2, TwoEvents DEF SignUp
    <3>4. PICK a \in Account : a.end = now + Period /\ stripe' = [stripe EXCEPT ![s] = a]
      BY <2>2, <3>1 DEF SignUp, Account
    <3>. QED
      BY <1>1, <2>2, <3>1, <3>3, <3>4 DEF SignUp
  <2>3. CASE Renew(s)
    <3>1. stripe[s].end <= Horizon /\ stripe[s].end + Period \in Nat
      BY <1>1, <2>3 DEF Renew, Emit
    <3>2. PICK ev : ev = [Notice("paid", s, FALSE) EXCEPT !.end = @ + Period]
      OBVIOUS
    <3>3. ev \in Event /\ ev.end = stripe[s].end + Period
      BY <1>1, <2>1, <3>1, <3>2 DEF Event
    <3>4. ev.end <= Horizon + Period
      BY <3>1, <3>3, <1>1
    <3>5. Appended(<<ev>>)
      BY <2>3, <3>2, <3>3, <3>4, OneEvent DEF Renew
    <3>6. PICK a : a = [stripe[s] EXCEPT !.status = "active", !.end = @ + Period]
      OBVIOUS
    <3>7. a \in Account /\ a.end = stripe[s].end + Period
      BY <1>1, <3>1, <3>6 DEF Account
    <3>8. stripe' = [stripe EXCEPT ![s] = a]
      BY <1>1, <2>3, <3>6 DEF Renew
    <3>. QED
      BY <1>1, <2>3, <3>3, <3>4, <3>5, <3>7, <3>8 DEF Renew
  <2>4. CASE RenewalFails(s)
    <3>1. Appended(<<Notice("failed", s, FALSE)>>)
      BY <1>1, <2>1, <2>4, OneEvent DEF RenewalFails
    <3>. QED
      BY <1>1, <2>4, <3>1 DEF RenewalFails, Account
  <2>5. CASE Portal(s)
    <3>0. stripe[s].cancelling \in BOOLEAN
      BY <1>1 DEF Account
    <3>1. Appended(<<Notice("updated", s, ~stripe[s].cancelling)>>)
      BY <1>1, <2>1, <2>5, <3>0, OneEvent DEF Portal
    <3>. QED
      BY <1>1, <2>5, <3>1, <3>0 DEF Portal, Account
  <2>6. CASE Delete(s)
    <3>1. Appended(<<Notice("deleted", s, FALSE)>>)
      BY <1>1, <2>1, <2>6, OneEvent DEF Delete
    <3>. QED
      BY <1>1, <2>6, <3>1 DEF Delete, Account
  <2>. QED
    BY <2>2, <2>3, <2>4, <2>5, <2>6
<1>3. PICK es : Appended(es)
  BY <1>2
<1>4. /\ events' \in Seq(Event)  /\ Len(events') >= Len(events)
      /\ \A i \in 1..Len(events) : events'[i] = events[i]
      /\ \A i \in 1..Len(events') : events'[i].end <= Horizon + Period
  BY <1>3, EmitInv DEF BillingInv
<1>5. TypeOK'
  BY <1>2, <1>4 DEF BillingInv, TypeOK, StripeOnly, Handlers
<1>6. ASSUME NEW h \in Handlers, tx[h].open PROVE Explained(tx[h])' /\ Sound(tx[h].new)'
  <2>1. tx' = tx /\ Explained(tx[h]) /\ Sound(tx[h].new)
        /\ tx[h].event \in 0..Len(events) /\ Len(events) \in Nat
    BY <1>2, <1>6 DEF StripeOnly, BillingInv, TypeOK
  <2>2. tx[h].event # 0 => events'[tx[h].event] = events[tx[h].event]
    BY <1>4, <2>1
  <2>. QED
    BY <2>1, <2>2 DEF Explained, FromCheckout, Sound, Deadline
<1>. QED
  BY <1>2, <1>4, <1>5, <1>6 DEF BillingInv, StripeOnly, Handlers, Sound, Deadline

(* A handler opens: what it will merge is sound, and explained by its event.  *)
LEMMA OpenSteps ==
    ASSUME BillingInv, NEW h \in Handlers, NEW i \in 0..Len(events), NEW new \in Row,
           Open(h, i, new), Sound(new),
           new.plan \in {row.plan, "FREE"} \/ (i # 0 /\ events[i].kind = "checkout"),
           new.balance \in {row.balance, 0} \cup {Allocated[p] : p \in Plans},
           upsets' \in Nat, calm' \in BOOLEAN,
           UNCHANGED <<now, stripe, events, acked, row, ledger, running>>
    PROVE  BillingInv'
<1>1. row.plan \in Plans /\ row.balance \in Nat /\ i \in Nat
  BY DEF BillingInv, TypeOK, Row
<1>2. PICK t : t = [open |-> TRUE, event |-> i, new |-> new,
                    read |-> [plan |-> row.plan, balance |-> row.balance]]
  OBVIOUS
<1>3. /\ t \in Tx  /\ t.event = i  /\ t.new = new  /\ t.open
      /\ t.read.plan = row.plan  /\ t.read.balance = row.balance
  BY <1>1, <1>2 DEF Tx
<1>4. tx' = [tx EXCEPT ![h] = t]
  BY <1>2 DEF Open
<1>5. tx' \in [Handlers -> Tx] /\ \A k \in Handlers : tx'[k].event \in 0..Len(events)
  BY <1>3, <1>4 DEF BillingInv, TypeOK
<1>6. TypeOK'
  BY <1>5 DEF BillingInv, TypeOK, Handlers
<1>7. ASSUME NEW k \in Handlers, tx'[k].open
      PROVE  Sound(tx'[k].new) /\ Explained(tx'[k])
  <2>1. CASE k = h
    <3>1. tx'[k] = t
      BY <1>4, <2>1 DEF BillingInv, TypeOK
    <3>. QED
      BY <1>3, <3>1 DEF Explained, FromCheckout
  <2>2. CASE k # h
    BY <1>4, <1>7, <2>2 DEF BillingInv, TypeOK
  <2>. QED
    BY <2>1, <2>2
<1>8. ASSUME NEW k \in Handlers, tx'[k].open
      PROVE  (Sound(tx[k].new) /\ Explained(tx[k]))'
  BY <1>7, <1>8 DEF Explained, FromCheckout, Sound, Deadline
<1>. QED
  BY <1>6, <1>8 DEF BillingInv, Sound, Deadline, Handlers

LEMMA HandlerSteps ==
    ASSUME BillingInv, NEW h \in Handlers, Handler(h)
    PROVE  BillingInv'
<1>0. /\ row \in Row /\ Sound(row) /\ now \in Nat /\ Len(events) \in Nat
      /\ upsets \in Nat /\ calm \in BOOLEAN /\ tx \in [Handlers -> Tx]
  BY DEF BillingInv, TypeOK
<1>1. ASSUME NEW i \in 1..Len(events), Deliver(h, i) PROVE BillingInv'
  <2>1. PICK n : n = After(row, events[i])
    OBVIOUS
  <2>2. events[i] \in Event /\ events[i].end <= Horizon + Period /\ i # 0 /\ i \in 0..Len(events)
    BY <1>0 DEF BillingInv, TypeOK
  <2>3. /\ n \in Row  /\ Sound(n)
        /\ n.plan \in {row.plan, "FREE"} \/ events[i].kind = "checkout"
        /\ n.balance \in {row.balance, 0} \cup {Allocated[p] : p \in Plans}
    BY <1>0, <1>1, <2>1, <2>2, AfterIsSound DEF Deliver
  <2>4. Open(h, i, n) /\ upsets' \in Nat /\ calm' \in BOOLEAN
        /\ UNCHANGED <<now, stripe, events, acked, row, ledger, running>>
    BY <1>0, <1>1, <2>1 DEF Deliver, Upset
  <2>. QED
    BY <2>2, <2>3, <2>4, OpenSteps
<1>2. CASE EmailChange(h)
  <2>1. Open(h, 0, row) /\ upsets' \in Nat /\ calm' \in BOOLEAN
        /\ UNCHANGED <<now, stripe, events, acked, row, ledger, running>>
    BY <1>0, <1>2 DEF EmailChange, Upset
  <2>. QED
    BY <1>0, <2>1, OpenSteps
<1>3. CASE Commit(h) \/ Abort(h)
  <2>1. Closed \in Tx /\ ~Closed.open /\ Closed.event = 0
    BY DEF Closed, Tx, Plans, FreeRow, Row
  <2>2. /\ tx[h] \in Tx /\ tx[h].open /\ tx[h].event \in 0..Len(events)
        /\ tx[h].new \in Row /\ Sound(tx[h].new)
    BY <1>3 DEF Commit, Abort, BillingInv, TypeOK, Tx
  <2>3. tx' = [tx EXCEPT ![h] = Closed]
    BY <1>3 DEF Commit, Abort
  <2>4. /\ tx' \in [Handlers -> Tx] /\ \A k \in Handlers : tx'[k].event \in 0..Len(events)
    BY <1>0, <2>1, <2>3 DEF BillingInv, TypeOK
  <2>5. /\ row' \in Row /\ Sound(row')
        /\ ledger' \in [after: Nat, consumed: Nat]
        /\ acked' \subseteq 1..Len(events)
    <3>1. CASE Abort(h)
      BY <1>0, <3>1 DEF Abort, BillingInv, TypeOK
    <3>2. CASE Commit(h)
      <4>1. tx[h].new.balance \in Nat
        BY <2>2 DEF Row
      <4>2. ledger' \in [after: Nat, consumed: Nat]
        BY <3>2, <4>1 DEF Commit, Record, BillingInv, TypeOK
      <4>3. acked' \subseteq 1..Len(events)
        <5>1. acked' = acked \cup ({tx[h].event} \ {0})
          BY <3>2 DEF Commit
        <5>2. acked \subseteq 1..Len(events) /\ Len(events) \in Nat
          BY <1>0 DEF BillingInv, TypeOK
        <5>3. tx[h].event # 0 => tx[h].event \in 1..Len(events)
          BY <2>2, <5>2
        <5>. QED
          BY <5>1, <5>2, <5>3
      <4>. QED
        BY <3>2, <2>2, <4>2, <4>3 DEF Commit, Merge
    <3>. QED
      BY <1>3, <3>1, <3>2
  <2>6. /\ UNCHANGED <<now, stripe, events, running, calm>> /\ upsets' \in Nat
    BY <1>0, <1>3 DEF Commit, Abort, Upset
  <2>7. TypeOK'
    BY <2>4, <2>5, <2>6 DEF BillingInv, TypeOK, Handlers
  <2>8. ASSUME NEW k \in Handlers, tx'[k].open
        PROVE  (Sound(tx[k].new) /\ Explained(tx[k]))'
    <3>1. k # h /\ tx'[k] = tx[k]
      BY <1>0, <2>1, <2>3, <2>8
    <3>2. Sound(tx[k].new) /\ Explained(tx[k])
      BY <2>8, <3>1 DEF BillingInv
    <3>. QED
      BY <2>6, <3>1, <3>2 DEF Explained, FromCheckout, Sound, Deadline
  <2>. QED
    BY <2>5, <2>6, <2>7, <2>8 DEF BillingInv, Sound, Deadline, Handlers
<1>. QED
  BY <1>1, <1>2, <1>3 DEF Handler

LEMMA OtherSteps ==
    ASSUME BillingInv, Tick \/ RunStarts \/ (\E n \in 1..MaxSpent : Consume(n))
    PROVE  BillingInv'
<1>1. ASSUME NEW k \in Handlers, tx[k].open, UNCHANGED <<events, tx>>
      PROVE  (Sound(tx[k].new) /\ Explained(tx[k]))'
  BY <1>1 DEF BillingInv, Explained, FromCheckout, Sound, Deadline
<1>2. CASE Tick
  <2>1. TypeOK'
    BY <1>2 DEF Tick, BillingInv, TypeOK, Handlers
  <2>. QED
    BY <1>1, <1>2, <2>1 DEF Tick, BillingInv, Sound, Deadline, Handlers
<1>3. CASE RunStarts
  <2>1. TypeOK'
    BY <1>3 DEF RunStarts, BillingInv, TypeOK, Handlers
  <2>. QED
    BY <1>1, <1>3, <2>1 DEF RunStarts, BillingInv, Sound, Deadline, Handlers
<1>4. ASSUME NEW n \in 1..MaxSpent, Consume(n) PROVE BillingInv'
  <2>1. /\ row \in Row /\ Sound(row) /\ n \in Nat /\ row.balance \in Nat
        /\ row.balance >= n /\ row.plan \in Plans /\ MaxSpent \in Nat
    BY <1>4, BoundsAssumption DEF BillingInv, TypeOK, Consume, Covers, Row
  <2>2. row' = [row EXCEPT !.balance = @ - n]
    BY <1>4 DEF Consume
  <2>3. /\ row' \in Row /\ row'.balance <= row.balance /\ row'.plan = row.plan
        /\ row'.grace = row.grace /\ row'.end = row.end
    BY <2>1, <2>2 DEF Row
  <2>4. Sound(row')
    BY <2>1, <2>3, ConstantFacts DEF Sound, Row
  <2>5. ledger' \in [after: Nat, consumed: Nat]
    BY <1>4, <2>1 DEF Consume, BillingInv, TypeOK
  <2>6. UNCHANGED <<now, stripe, events, acked, tx, running, upsets, calm>>
    BY <1>4 DEF Consume
  <2>7. TypeOK'
    BY <2>3, <2>5, <2>6 DEF BillingInv, TypeOK, Handlers
  <2>. QED
    BY <1>1, <2>4, <2>6, <2>7 DEF BillingInv, Sound, Deadline, Handlers
<1>. QED
  BY <1>2, <1>3, <1>4

LEMMA NextInv == BillingInv /\ [Next]_vars => BillingInv'
<1>. SUFFICES ASSUME BillingInv, [Next]_vars PROVE BillingInv'
  OBVIOUS
<1>1. CASE Stripe
  <2>1. PICK s \in Subs, plan \in Plans :
          SignUp(s, plan) \/ Renew(s) \/ RenewalFails(s) \/ Portal(s) \/ Delete(s)
    BY <1>1 DEF Stripe, Plans
  <2>. QED
    BY <2>1, StripeSteps
<1>2. ASSUME NEW h \in Handlers, Handler(h) PROVE BillingInv'
  BY <1>2, HandlerSteps
<1>3. CASE UNCHANGED vars
  <2>1. TypeOK'
    BY <1>3 DEF vars, BillingInv, TypeOK, Handlers
  <2>. QED
    BY <1>3, <2>1 DEF vars, BillingInv, Sound, Explained, FromCheckout, Deadline, Handlers
<1>. QED
  BY <1>1, <1>2, <1>3, OtherSteps DEF Next

(* The inductive invariant: every row, stored or about to be merged, is sound.  *)
THEOREM Invariance == Spec => []BillingInv
BY InitInv, NextInv, PTL DEF Spec

-----------------------------------------------------------------------------
(* The results. *)

(* Types: in particular the balance never goes below zero, whatever debits    *)
(* and merges cross.                                                          *)
THEOREM BillingTypes == Spec => []TypeOK
<1>1. BillingInv => TypeOK
  BY DEF BillingInv
<1>. QED
  BY <1>1, Invariance, PTL

(* The balance is within the plan: a downgraded user has nothing to spend.    *)
THEOREM WithinPlan == Spec => []BalanceWithinPlan
<1>1. BillingInv => BalanceWithinPlan
  BY DEF BillingInv, Sound, BalanceWithinPlan
<1>. QED
  BY <1>1, Invariance, PTL

(* The deadline: with the payments the agent stops, whatever the webhooks do. *)
THEOREM StopsWithPayments == Spec => []AgentStopsWithPayments
<1>1. BillingInv => AgentStopsWithPayments
  <2>. SUFFICES ASSUME BillingInv, CanRun
                PROVE  now <= Horizon + Window + Period + GraceOf[row.plan]
    BY DEF AgentStopsWithPayments
  <2>1. /\ now <= row.end + row.grace /\ row.end <= Deadline
        /\ row.grace = GraceOf[row.plan]
        /\ now \in Nat /\ row.end \in Nat /\ row.grace \in Nat
    BY DEF BillingInv, CanRun, Sound, TypeOK, Row
  <2>. QED
    BY <2>1, ConstantFacts DEF Deadline
<1>. QED
  BY <1>1, Invariance, PTL

(* What a step of the detailed model does to the columns plan and balance.    *)
LEMMA RowSteps ==
    ASSUME BillingInv, [Next]_vars
    PROVE  \/ UNCHANGED row
           \/ \E h \in Handlers : Commit(h)
           \/ \E n \in 1..MaxSpent : Consume(n)
<1>1. CASE Stripe
  BY <1>1 DEF Stripe, SignUp, Renew, RenewalFails, Portal, Delete, StripeOnly
<1>2. ASSUME NEW h \in Handlers, Handler(h)
      PROVE  UNCHANGED row \/ Commit(h)
  BY <1>2 DEF Handler, Deliver, EmailChange, Abort
<1>3. CASE Tick \/ RunStarts \/ UNCHANGED vars
  BY <1>3 DEF Tick, RunStarts, vars
<1>. QED
  BY <1>1, <1>2, <1>3 DEF Next

(* A downgrade sticks: a late or repeated invoice does not bring a plan back. *)
THEOREM DowngradesStick == Spec => DowngradeSticks
<1>1. BillingInv /\ [Next]_vars =>
        (row.plan = "FREE" /\ row'.plan # "FREE"
           => \E h \in Handlers :
                 /\ tx[h].open /\ ~tx'[h].open
                 /\ \/ tx[h].event # 0 /\ events[tx[h].event].kind = "checkout"
                    \/ tx[h].read.plan # "FREE")
  <2>. SUFFICES ASSUME BillingInv, [Next]_vars, row.plan = "FREE", row'.plan # "FREE"
                PROVE  \E h \in Handlers :
                         /\ tx[h].open /\ ~tx'[h].open
                         /\ \/ tx[h].event # 0 /\ events[tx[h].event].kind = "checkout"
                            \/ tx[h].read.plan # "FREE"
    OBVIOUS
  <2>1. ASSUME NEW n \in 1..MaxSpent, Consume(n) PROVE FALSE
    <3>1. row \in Row /\ row' = [row EXCEPT !.balance = @ - n]
      BY <2>1 DEF Consume, BillingInv, TypeOK
    <3>. QED
      BY <3>1 DEF Row
  <2>2. PICK h \in Handlers : Commit(h)
    BY <2>1, RowSteps
  <2>3. tx[h].open /\ row' = tx[h].new /\ ~tx'[h].open
    BY <2>2 DEF Commit, Merge, BillingInv, TypeOK, Closed
  <2>4. Explained(tx[h])
    BY <2>3 DEF BillingInv
  <2>. QED
    BY <2>3, <2>4 DEF Explained, FromCheckout
<1>. QED
  BY <1>1, Invariance, PTL DEF Spec, DowngradeSticks

-----------------------------------------------------------------------------
(* The refinement of the wallet. *)

LEMMA CommitIsWalletMove ==
    ASSUME BillingInv, NEW h \in Handlers, Commit(h)
    PROVE  W!Moves
<1>1. tx[h].open /\ row' = tx[h].new /\ Explained(tx[h])
  BY DEF Commit, Merge, BillingInv
<1>2. tx' = [tx EXCEPT ![h] = Closed] /\ tx \in [Handlers -> Tx] /\ ~Closed.open
  BY DEF Commit, BillingInv, TypeOK, Closed
<1>3. ReadBalances' \subseteq ReadBalances
  <2>1. \A k \in Handlers : tx'[k].open => tx[k].open /\ tx'[k] = tx[k]
    BY <1>2
  <2>. QED
    BY <2>1 DEF ReadBalances, Handlers
<1>4. tx[h].read.balance \in ReadBalances
  BY <1>1 DEF ReadBalances
<1>. QED
  BY <1>1, <1>3, <1>4 DEF Explained, W!Moves, W!Refill, W!Forfeit, W!Restore

LEMMA ConsumeIsSpend ==
    ASSUME BillingInv, NEW n \in 1..MaxSpent, Consume(n)
    PROVE  W!Moves
<1>1. /\ row \in Row /\ n \in Nat /\ n >= 1 /\ row.balance >= n
      /\ row' = [row EXCEPT !.balance = @ - n] /\ UNCHANGED tx
  BY BoundsAssumption DEF BillingInv, TypeOK, Consume, Covers
<1>2. row.balance \in Nat /\ row'.balance = row.balance - n
  BY <1>1 DEF Row
<1>3. n \in 1..row.balance
  BY <1>1, <1>2
<1>4. ReadBalances' = ReadBalances
  BY <1>1 DEF ReadBalances, Handlers
<1>. QED
  BY <1>2, <1>3, <1>4 DEF W!Moves, W!Spend

LEMMA HandlerReads ==
    ASSUME BillingInv, NEW h \in Handlers,
           (\E i \in 1..Len(events) : Deliver(h, i)) \/ EmailChange(h) \/ Abort(h)
    PROVE  W!Reads
<1>1. UNCHANGED row
  BY DEF Deliver, EmailChange, Abort
<1>2. PICK t : tx' = [tx EXCEPT ![h] = t] /\ (t.open => t.read.balance = row.balance)
  <2>1. CASE Abort(h)
    <3>1. tx' = [tx EXCEPT ![h] = Closed] /\ ~Closed.open
      BY <2>1 DEF Abort, Closed
    <3>. QED
      BY <3>1, Zenon
  <2>2. ASSUME NEW i, NEW n, Open(h, i, n)
        PROVE  \E t : tx' = [tx EXCEPT ![h] = t] /\ (t.open => t.read.balance = row.balance)
    <3>. DEFINE r == [plan |-> row.plan, balance |-> row.balance]
                t == [open |-> TRUE, event |-> i, new |-> n, read |-> r]
    <3>1. tx' = [tx EXCEPT ![h] = t]
      BY <2>2 DEF Open
    <3>2. t.read.balance = row.balance
      OBVIOUS
    <3>. QED
      BY <3>1, <3>2, Zenon
  <2>. QED
    BY <2>1, <2>2 DEF Deliver, EmailChange
<1>3. \A k \in Handlers : tx'[k] = tx[k] \/ (tx'[k].open => tx'[k].read.balance = row.balance)
  BY <1>2 DEF BillingInv, TypeOK
<1>. QED
  BY <1>1, <1>3 DEF W!Reads, ReadBalances, Handlers

(* Every step of the subscription is a step of the wallet or a stutter: the   *)
(* balance moves by refills, covered spendings, forfeits and stale merges.    *)
THEOREM RefinesWallet == Spec => WalletSpec
<1>1. Init => W!Init
  BY DEF Init, W!Init, FreeRow, Closed, ReadBalances
<1>2. BillingInv /\ [Next]_vars => [W!Next]_(W!wallet)
  <2>. SUFFICES ASSUME BillingInv, [Next]_vars PROVE W!Next \/ UNCHANGED W!wallet
    OBVIOUS
  <2>1. CASE Stripe \/ Tick \/ RunStarts \/ UNCHANGED vars
    <3>1. UNCHANGED <<row, tx>>
      BY <2>1 DEF Stripe, SignUp, Renew, RenewalFails, Portal, Delete, StripeOnly, Tick,
                  RunStarts, vars
    <3>. QED
      BY <3>1 DEF W!wallet, ReadBalances, Handlers
  <2>2. ASSUME NEW h \in Handlers, Handler(h) PROVE W!Next
    BY <2>2, CommitIsWalletMove, HandlerReads DEF Handler, W!Next
  <2>3. ASSUME NEW n \in 1..MaxSpent, Consume(n) PROVE W!Next
    BY <2>3, ConsumeIsSpend DEF W!Next
  <2>. QED
    BY <2>1, <2>2, <2>3 DEF Next
<1>. QED
  BY <1>1, <1>2, Invariance, PTL DEF Spec, WalletSpec, W!Spec

-----------------------------------------------------------------------------
(* Calm executions of one Stripe subscription: what Stripe said last is what   *)
(* it knows, and the row follows what was handled.                             *)

Single == \A s, t \in Subs : stripe[s].status # "none" /\ stripe[t].status # "none" => s = t

Last == events[Len(events)]

(* An update is sent while the last payment succeeded, and ends with it.       *)
History ==
    /\ \A i \in 1..Len(events) : events[i].kind = "updated" =>
          i > 1  /\ events[i - 1].kind \in {"paid", "updated"}  /\ events[i - 1].end = events[i].end
    /\ \A s \in Subs :
          /\ stripe[s].status = "canceled" => Len(events) > 0  /\ Last.kind = "deleted"
          /\ stripe[s].status = "active" =>
                Len(events) > 0  /\ Last.kind \in {"paid", "updated"}  /\ Last.end = stripe[s].end

(* What a row is after the first k events, where that is certain.              *)
Follows(r, k) ==
    k > 0 =>
        /\ events[k].kind = "deleted" => r.plan = "FREE"
        /\ events[k].kind \in {"paid", "updated"} => r.active /\ ~r.pastDue /\ r.end = events[k].end

(* The first k events were handled; a handler is at the next, or at none.      *)
Handled(k) ==
    /\ acked = 1..k  /\ Follows(row, k)
    /\ \A h \in Handlers : tx[h].open =>
          IF tx[h].event = 0 THEN Follows(tx[h].new, k)
          ELSE tx[h].event = k + 1  /\ Follows(tx[h].new, k + 1)

InOrder ==
    /\ \A g, h \in Handlers : tx[g].open /\ tx[h].open => g = h
    /\ \E k \in 0..Len(events) : Handled(k)

CalmInv == Single => History /\ (calm => InOrder)

(* The status of a subscription never goes back to none.                       *)
LEMMA StillSingle ==
    ASSUME BillingInv, NEW s \in Subs, NEW plan \in Plans,
           SignUp(s, plan) \/ Renew(s) \/ RenewalFails(s) \/ Portal(s) \/ Delete(s), Single'
    PROVE  /\ Single
           /\ \A t \in Subs \ {s} : stripe'[t].status = "none"
           /\ \A t \in Subs \ {s} : stripe[t] = stripe'[t]
<1>1. stripe \in [Subs -> Account]
  BY DEF BillingInv, TypeOK
<1>2. /\ stripe'[s].status # "none"
      /\ \A t \in Subs \ {s} : stripe[t] = stripe'[t]
  <2>1. CASE SignUp(s, plan)
    BY <1>1, <2>1 DEF SignUp, Account
  <2>2. CASE Renew(s)
    BY <1>1, <2>2 DEF Renew, Account
  <2>3. CASE RenewalFails(s)
    BY <1>1, <2>3 DEF RenewalFails, Account
  <2>4. CASE Portal(s)
    BY <1>1, <2>4 DEF Portal, Account
  <2>5. CASE Delete(s)
    BY <1>1, <2>5 DEF Delete, Account
  <2> QED
    BY <2>1, <2>2, <2>3, <2>4, <2>5
<1> QED
  BY <1>2 DEF Single

(* One event more: it is the last.                                             *)
LEMMA OneMore ==
    ASSUME BillingInv, NEW e \in Event, Emit(<<e>>)
    PROVE  /\ Len(events') = Len(events) + 1  /\ Len(events) \in Nat
           /\ \A i \in 1..Len(events) : events'[i] = events[i]
           /\ events'[Len(events) + 1] = e  /\ Last' = e
<1>1. events \in Seq(Event)  /\ events' = events \o <<e>>
  BY DEF BillingInv, TypeOK, Emit
<1>2. /\ Len(events') = Len(events) + 1  /\ Len(events) \in Nat
      /\ \A i \in 1..Len(events) : events'[i] = events[i]
      /\ events'[Len(events) + 1] = e
  BY <1>1
<1> QED
  BY <1>2 DEF Last

(* With it, what is said of updates holds if it holds of the new one.          *)
LEMMA UpdatesGrow ==
    ASSUME BillingInv, History, NEW e \in Event, Emit(<<e>>),
           e.kind = "updated" =>
               Len(events) > 0  /\ Last.kind \in {"paid", "updated"}  /\ Last.end = e.end
    PROVE  \A i \in 1..Len(events') : events'[i].kind = "updated" =>
               i > 1  /\ events'[i - 1].kind \in {"paid", "updated"}
               /\ events'[i - 1].end = events'[i].end
<1> SUFFICES ASSUME NEW i \in 1..Len(events'), events'[i].kind = "updated"
             PROVE  i > 1  /\ events'[i - 1].kind \in {"paid", "updated"}
                    /\ events'[i - 1].end = events'[i].end
  OBVIOUS
<1>1. /\ Len(events') = Len(events) + 1  /\ Len(events) \in Nat
      /\ \A j \in 1..Len(events) : events'[j] = events[j]
      /\ events'[Len(events) + 1] = e
  BY OneMore
<1>2. CASE i \in 1..Len(events)
  <2>1. events[i].kind = "updated"
    BY <1>1, <1>2
  <2>2. i > 1  /\ events[i - 1].kind \in {"paid", "updated"}  /\ events[i - 1].end = events[i].end
    BY <1>2, <2>1 DEF History
  <2>3. i - 1 \in 1..Len(events)
    BY <1>1, <1>2, <2>2
  <2> QED
    BY <1>1, <1>2, <2>2, <2>3
<1>3. CASE i = Len(events) + 1
  <2>1. events'[i] = e
    BY <1>1, <1>3
  <2>2. Len(events) > 0  /\ Last.kind \in {"paid", "updated"}  /\ Last.end = e.end
    BY <2>1
  <2>3. i - 1 = Len(events)  /\ i - 1 \in 1..Len(events)  /\ i > 1
    BY <1>1, <1>3, <2>2
  <2>4. events'[i - 1] = Last
    BY <1>1, <2>3 DEF Last
  <2> QED
    BY <2>1, <2>2, <2>3, <2>4
<1> QED
  BY <1>1, <1>2, <1>3

LEMMA StripeHistory ==
    ASSUME BillingInv, NEW s \in Subs, NEW plan \in Plans,
           SignUp(s, plan) \/ Renew(s) \/ RenewalFails(s) \/ Portal(s) \/ Delete(s),
           CalmInv, Single'
    PROVE  History'
<1> DEFINE Updates == \A i \in 1..Len(events) : events[i].kind = "updated" =>
               i > 1  /\ events[i - 1].kind \in {"paid", "updated"}
               /\ events[i - 1].end = events[i].end
           Says(t) ==
               /\ stripe[t].status = "canceled" => Len(events) > 0  /\ Last.kind = "deleted"
               /\ stripe[t].status = "active" =>
                    Len(events) > 0  /\ Last.kind \in {"paid", "updated"}  /\ Last.end = stripe[t].end
<1>0. /\ History  /\ \A t \in Subs \ {s} : stripe'[t].status = "none"
      /\ stripe \in [Subs -> Account]  /\ now \in Nat  /\ Period \in Nat
      /\ Len(events) \in Nat
  BY StillSingle, ConstantFacts DEF CalmInv, BillingInv, TypeOK
<1>1. SUFFICES Updates' /\ Says(s)'
  BY <1>0 DEF History
<1>2. CASE SignUp(s, plan)
  <2> DEFINE about(kind) == [kind |-> kind, sub |-> s, plan |-> plan,
                             end |-> now + Period, cancels |-> FALSE]
  <2>1. /\ about("checkout") \in Event  /\ about("paid") \in Event
        /\ about("checkout").kind = "checkout"  /\ about("paid").kind = "paid"
        /\ about("paid").end = now + Period
    BY <1>0 DEF Event
  <2>2. /\ events' = events \o <<about("checkout"), about("paid")>>
        /\ stripe'[s].status = "active"  /\ stripe'[s].end = now + Period
    BY <1>0, <1>2 DEF SignUp, Emit
  <2> HIDE DEF about
  <2>3. /\ Len(events') = Len(events) + 2
        /\ \A i \in 1..Len(events) : events'[i] = events[i]
        /\ events'[Len(events) + 1] = about("checkout")
        /\ events'[Len(events) + 2] = about("paid")
    BY <2>1, <2>2 DEF BillingInv, TypeOK
  <2>4. Says(s)'
    BY <1>0, <2>1, <2>2, <2>3 DEF Last
  <2>5. ASSUME NEW i \in 1..Len(events'), events'[i].kind = "updated"
        PROVE  i > 1  /\ events'[i - 1].kind \in {"paid", "updated"}
               /\ events'[i - 1].end = events'[i].end
    <3>1. i \in 1..Len(events)
      BY <1>0, <2>1, <2>3, <2>5
    <3>2. /\ events[i].kind = "updated"
          /\ i > 1  /\ events[i - 1].kind \in {"paid", "updated"}  /\ events[i - 1].end = events[i].end
      BY <1>0, <2>3, <2>5, <3>1 DEF History
    <3>3. i - 1 \in 1..Len(events)
      BY <1>0, <3>1, <3>2
    <3> QED
      BY <2>3, <3>1, <3>2, <3>3
  <2> QED
    BY <2>4, <2>5
<1>3. ASSUME NEW e \in Event, Emit(<<e>>),
             e.kind = "updated" =>
                 Len(events) > 0  /\ Last.kind \in {"paid", "updated"}  /\ Last.end = e.end,
             stripe'[s].status = "canceled" => e.kind = "deleted",
             stripe'[s].status = "active" => e.kind \in {"paid", "updated"} /\ e.end = stripe'[s].end
      PROVE  Updates' /\ Says(s)'
  <2>1. Updates'
    BY <1>0, <1>3, UpdatesGrow
  <2>2. Len(events') > 0 /\ Last' = e
    BY <1>0, <1>3, OneMore
  <2> QED
    BY <1>3, <2>1, <2>2
<1>4. ASSUME NEW kind \in {"paid", "failed", "updated", "deleted"}, NEW c \in BOOLEAN
      PROVE  /\ Notice(kind, s, c) \in Event  /\ Notice(kind, s, c).kind = kind
             /\ Notice(kind, s, c).end = stripe[s].end
  BY <1>0 DEF Notice, Event, Account
<1> HIDE DEF Updates, Says
<1>5. CASE Renew(s)
  <2>1. PICK e : e = [Notice("paid", s, FALSE) EXCEPT !.end = @ + Period]
    OBVIOUS
  <2>2. PICK end \in Nat : end = stripe[s].end + Period
    BY <1>0 DEF Account
  <2>3. e \in Event  /\ e.kind = "paid"  /\ e.end = stripe[s].end + Period
    <3>1. PICK n \in Event : n = Notice("paid", s, FALSE)
      BY <1>4
    <3>2. n.kind = "paid"  /\ e = [n EXCEPT !.end = end]
      BY <1>4, <2>1, <2>2, <3>1
    <3> QED
      BY <2>2, <3>2 DEF Event
  <2>4. stripe'[s].status = "active"  /\ stripe'[s].end = stripe[s].end + Period
    BY <1>0, <1>5 DEF Renew, Account
  <2>5. Emit(<<e>>)
    BY <1>5, <2>1 DEF Renew
  <2> QED
    BY <1>3, <2>3, <2>4, <2>5
<1>6. CASE RenewalFails(s)
  <2>1. Emit(<<Notice("failed", s, FALSE)>>)  /\ stripe'[s].status = "past_due"
    BY <1>0, <1>6 DEF RenewalFails, Account
  <2> QED
    BY <1>3, <1>4, <2>1
<1>7. CASE Portal(s)
  <2>1. /\ Emit(<<Notice("updated", s, ~stripe[s].cancelling)>>)
        /\ stripe[s].status = "active"  /\ stripe[s].cancelling \in BOOLEAN
        /\ stripe'[s].status = "active"  /\ stripe'[s].end = stripe[s].end
    BY <1>0, <1>7 DEF Portal, Account
  <2>2. Len(events) > 0  /\ Last.kind \in {"paid", "updated"}  /\ Last.end = stripe[s].end
    BY <1>0, <2>1 DEF History
  <2>3. PICK e : e = Notice("updated", s, ~stripe[s].cancelling)
    OBVIOUS
  <2>4. e \in Event  /\ e.kind = "updated"  /\ e.end = stripe[s].end
    BY <1>4, <2>1, <2>3
  <2> QED
    BY <1>3, <2>1, <2>2, <2>3, <2>4
<1>8. CASE Delete(s)
  <2>1. Emit(<<Notice("deleted", s, FALSE)>>)  /\ stripe'[s].status = "canceled"
    BY <1>0, <1>8 DEF Delete, Account
  <2> QED
    BY <1>3, <1>4, <2>1
<1> QED
  BY <1>2, <1>5, <1>6, <1>7, <1>8

(* Events to come do not change what was handled.                              *)
LEMMA InOrderGrows ==
    ASSUME BillingInv, InOrder, UNCHANGED <<acked, row, tx>>, Len(events') \in Nat,
           Len(events') >= Len(events), \A i \in 1..Len(events) : events'[i] = events[i]
    PROVE  InOrder'
<1>1. PICK k \in 0..Len(events) : Handled(k)
  BY DEF InOrder
<1>2. Len(events) \in Nat  /\ k \in Nat
  BY DEF BillingInv, TypeOK
<1>3. k \in 0..Len(events')
  BY <1>2
<1>4. ASSUME NEW r, NEW m \in 0..Len(events), Follows(r, m)  PROVE Follows(r, m)'
  BY <1>2, <1>4 DEF Follows
<1>5. Follows(row, k)'
  BY <1>1, <1>4 DEF Handled
<1>6. ASSUME NEW h \in Handlers, tx[h].open
      PROVE  IF tx[h].event = 0 THEN Follows(tx[h].new, k)'
             ELSE tx[h].event = k + 1  /\ Follows(tx[h].new, k + 1)'
  <2>1. tx[h].event \in 0..Len(events)
    BY DEF BillingInv, TypeOK
  <2>2. IF tx[h].event = 0 THEN Follows(tx[h].new, k)
        ELSE tx[h].event = k + 1  /\ Follows(tx[h].new, k + 1)
    BY <1>1, <1>6 DEF Handled
  <2>3. tx' = tx
    OBVIOUS
  <2> QED
    BY <1>4, <2>1, <2>2, <2>3
<1>7. Handled(k)'
  BY <1>1, <1>5, <1>6 DEF Handled, Handlers
<1> QED
  BY <1>3, <1>7 DEF InOrder, Handlers

LEMMA StripeCalm ==
    ASSUME BillingInv, CalmInv, NEW s \in Subs, NEW plan \in Plans,
           SignUp(s, plan) \/ Renew(s) \/ RenewalFails(s) \/ Portal(s) \/ Delete(s)
    PROVE  CalmInv'
<1>1. /\ Len(events') \in Nat  /\ Len(events') >= Len(events)
      /\ \A i \in 1..Len(events) : events'[i] = events[i]
  BY StripeSteps DEF BillingInv, TypeOK
<1>2. UNCHANGED <<acked, row, tx, calm>>
  BY DEF SignUp, Renew, RenewalFails, Portal, Delete, StripeOnly
<1> SUFFICES ASSUME Single' PROVE History' /\ (calm' => InOrder')
  BY DEF CalmInv
<1>3. History'
  BY StripeHistory
<1>4. Single
  BY StillSingle
<1> QED
  BY <1>1, <1>2, <1>3, <1>4, InOrderGrows DEF CalmInv

(* Where the last payment is known, its event leaves the row as it says.       *)
LEMMA AfterFollows ==
    ASSUME BillingInv, History, NEW k \in 0..Len(events), k + 1 <= Len(events),
           Follows(row, k), NEW n, n = After(row, events[k + 1])
    PROVE  Follows(n, k + 1)
<1>0. /\ row \in Row  /\ k \in Nat  /\ Len(events) \in Nat  /\ k + 1 \in 1..Len(events)
      /\ events[k + 1] \in Event
  BY DEF BillingInv, TypeOK
<1>1. PICK ev \in Event : ev = events[k + 1]
  BY <1>0
<1>2. CASE ev.kind = "paid"
  <2>1. PICK q : q = NewCycle(row, ev.end)
    OBVIOUS
  <2>2. q = [row EXCEPT !.end = ev.end, !.balance = Allocated[row.plan]]
    BY <1>0, <2>1, NewCycleIs DEF Event
  <2>3. n = [q EXCEPT !.active = TRUE, !.pastDue = FALSE]
    BY <1>1, <1>2, <2>1 DEF After, AfterPaid
  <2>4. n.active /\ ~n.pastDue /\ n.end = ev.end
    BY <1>0, <2>2, <2>3 DEF Row
  <2> QED
    BY <1>1, <1>2, <2>4 DEF Follows
<1>3. CASE ev.kind = "updated"
  <2>1. k > 0  /\ events[k].kind \in {"paid", "updated"}  /\ events[k].end = ev.end
    BY <1>0, <1>1, <1>3 DEF History
  <2>2. row.active /\ ~row.pastDue /\ row.end = ev.end
    BY <2>1 DEF Follows
  <2>3. n = row \/ n = [row EXCEPT !.cancelAt = TRUE, !.end = ev.end]
    BY <1>1, <1>3 DEF After, AfterUpdated
  <2>4. n.active /\ ~n.pastDue /\ n.end = ev.end
    BY <1>0, <2>2, <2>3 DEF Row
  <2> QED
    BY <1>1, <1>3, <2>4 DEF Follows
<1>4. CASE ev.kind = "deleted"
  <2>1. n.plan = "FREE"
    BY <1>0, <1>1, <1>4 DEF After, AfterDeleted, Downgraded, Row
  <2> QED
    BY <1>1, <1>4, <2>1 DEF Follows
<1>5. CASE ev.kind \in {"checkout", "failed"}
  BY <1>1, <1>5 DEF Follows
<1> QED
  BY <1>2, <1>3, <1>4, <1>5 DEF Event

(* A handler opens beside no other.                                            *)
LEMMA OpenInOrder ==
    ASSUME BillingInv, AllClosed, NEW h \in Handlers, NEW i, NEW new, Open(h, i, new),
           UNCHANGED <<events, acked, row>>, NEW k \in 0..Len(events), Handled(k),
           IF i = 0 THEN Follows(new, k) ELSE i = k + 1 /\ Follows(new, k + 1)
    PROVE  InOrder'
<1>0. PICK t : t = [open |-> TRUE, event |-> i, new |-> new,
                    read |-> [plan |-> row.plan, balance |-> row.balance]]
  OBVIOUS
<1>1. /\ tx' = [tx EXCEPT ![h] = t]  /\ t.event = i  /\ t.new = new
  BY <1>0 DEF Open
<1>2. tx \in [Handlers -> Tx]
  BY DEF BillingInv, TypeOK
<1>3. /\ \A g \in Handlers : tx'[g].open => g = h
      /\ tx'[h].event = i  /\ tx'[h].new = new
  BY <1>1, <1>2 DEF AllClosed
<1>4. Follows(row, k)' /\ acked' = 1..k
  BY DEF Handled, Follows
<1>5. IF i = 0 THEN Follows(new, k)' ELSE i = k + 1 /\ Follows(new, k + 1)'
  BY DEF Follows
<1>6. ASSUME NEW g \in Handlers, tx'[g].open
      PROVE  IF tx'[g].event = 0 THEN Follows(tx[g].new, k)'
             ELSE tx'[g].event = k + 1  /\ Follows(tx[g].new, k + 1)'
  BY <1>3, <1>5, <1>6 DEF Follows
<1>7. Handled(k)'
  BY <1>4, <1>6 DEF Handled, Handlers
<1> QED
  BY <1>3, <1>7 DEF InOrder, Handlers

(* Debits leave what Stripe speaks of alone.                                   *)
LEMMA ConsumeInOrder ==
    ASSUME BillingInv, InOrder, NEW n \in 1..MaxSpent, Consume(n)
    PROVE  InOrder'
<1>1. PICK k \in 0..Len(events) : Handled(k)
  BY DEF InOrder
<1>2. /\ row \in Row  /\ row' = [row EXCEPT !.balance = @ - n]
      /\ UNCHANGED <<stripe, events, acked, tx, calm>>
  BY DEF BillingInv, TypeOK, Consume
<1>3. /\ row'.plan = row.plan  /\ row'.active = row.active
      /\ row'.pastDue = row.pastDue  /\ row'.end = row.end
  BY <1>2 DEF Row
<1>4. Follows(row, k)'
  BY <1>1, <1>2, <1>3 DEF Handled, Follows
<1>5. Handled(k)'
  BY <1>1, <1>2, <1>4 DEF Handled, Handlers, Follows
<1> QED
  BY <1>1, <1>2, <1>5 DEF InOrder, Handlers

(* A handler ends: its event is the next that was handled, or none was.        *)
LEMMA EndsInOrder ==
    ASSUME BillingInv, InOrder, NEW h \in Handlers, Commit(h) \/ Abort(h)
    PROVE  InOrder'
<1>1. PICK k \in 0..Len(events) : Handled(k)
  BY DEF InOrder
<1>2. /\ tx[h].open  /\ tx' = [tx EXCEPT ![h] = Closed]  /\ ~Closed.open
      /\ UNCHANGED events  /\ tx \in [Handlers -> Tx]  /\ k \in Nat  /\ Len(events) \in Nat
      /\ tx[h].event \in 0..Len(events)
  BY DEF Commit, Abort, Closed, BillingInv, TypeOK
<1>3. \A g \in Handlers : ~tx'[g].open
  BY <1>2 DEF InOrder
<1>4. CASE Abort(h)
  <2>1. Handled(k)'
    BY <1>1, <1>2, <1>3, <1>4 DEF Abort, Handled, Follows, Handlers
  <2> QED
    BY <1>1, <1>2, <1>3, <2>1 DEF InOrder, Handlers
<1>5. CASE Commit(h)
  <2>1. row' = tx[h].new  /\ acked' = acked \union ({tx[h].event} \ {0})
    BY <1>5 DEF Commit, Merge
  <2>2. CASE tx[h].event = 0
    <3>1. acked' = 1..k /\ Follows(row, k)'
      BY <1>1, <1>2, <2>1, <2>2 DEF Handled, Follows
    <3> QED
      BY <1>1, <1>2, <1>3, <3>1 DEF InOrder, Handled, Handlers
  <2>3. CASE tx[h].event # 0
    <3>1. tx[h].event = k + 1 /\ Follows(tx[h].new, k + 1)
      BY <1>1, <1>2, <2>3 DEF Handled
    <3>2. acked' = 1..(k + 1)
      BY <1>1, <1>2, <2>1, <2>3, <3>1 DEF Handled
    <3>3. Follows(row, k + 1)'
      BY <1>2, <2>1, <3>1 DEF Follows
    <3>4. k + 1 \in 0..Len(events)
      BY <1>2, <3>1
    <3> QED
      BY <1>2, <1>3, <3>2, <3>3, <3>4 DEF InOrder, Handled, Handlers
  <2> QED
    BY <2>2, <2>3
<1> QED
  BY <1>4, <1>5

(* A delivery that keeps the calm is of the first event not handled.           *)
LEMMA OpensInOrder ==
    ASSUME BillingInv, CalmInv, Single, NEW h \in Handlers,
           (\E i \in 1..Len(events) : Deliver(h, i)) \/ EmailChange(h), calm'
    PROVE  InOrder'
<1>1. /\ History  /\ InOrder  /\ AllClosed  /\ UNCHANGED <<events, acked, row>>
  BY DEF CalmInv, Deliver, EmailChange
<1>2. PICK k \in 0..Len(events) : Handled(k)
  BY <1>1 DEF InOrder
<1>3. k \in Nat  /\ Len(events) \in Nat
  BY DEF BillingInv, TypeOK
<1>4. ASSUME NEW i \in 1..Len(events), Deliver(h, i)  PROVE InOrder'
  <2>1. i \in Pending  /\ \A j \in Pending : i <= j
    BY <1>4 DEF Deliver
  <2>2. i = k + 1
    <3>1. acked = 1..k /\ i \notin acked
      BY <1>2, <2>1 DEF Handled, Pending
    <3>2. i > k /\ k + 1 \in 1..Len(events)
      BY <1>3, <3>1
    <3>3. k + 1 \in Pending
      BY <1>3, <3>1, <3>2 DEF Pending
    <3> QED
      BY <1>3, <2>1, <3>2, <3>3
  <2>3. PICK n : n = After(row, events[i])
    OBVIOUS
  <2>4. Follows(n, k + 1)
    BY <1>1, <1>2, <1>3, <2>2, <2>3, AfterFollows DEF Handled
  <2>5. Open(h, i, n)
    BY <1>4, <2>3 DEF Deliver
  <2> QED
    BY <1>1, <1>2, <1>3, <2>2, <2>4, <2>5, OpenInOrder
<1>5. CASE EmailChange(h)
  <2>1. Open(h, 0, row) /\ Follows(row, k)
    BY <1>2, <1>5 DEF EmailChange, Handled
  <2> QED
    BY <1>1, <1>2, <2>1, OpenInOrder
<1> QED
  BY <1>4, <1>5

LEMMA InitCalmInv == Init => CalmInv
<1> SUFFICES ASSUME Init PROVE CalmInv
  OBVIOUS
<1>1. Len(events) = 0  /\ acked = {}  /\ (\A h \in Handlers : ~tx[h].open)
      /\ \A s \in Subs : stripe[s].status = "none"
  BY DEF Init, Closed, NoAccount
<1>2. History
  BY <1>1 DEF History
<1>3. Handled(0)
  BY <1>1 DEF Handled, Follows
<1> QED
  BY <1>1, <1>2, <1>3 DEF CalmInv, InOrder

LEMMA StepCalmInv == BillingInv /\ CalmInv /\ [Next]_vars => CalmInv'
<1> SUFFICES ASSUME BillingInv, CalmInv, [Next]_vars PROVE CalmInv'
  OBVIOUS
<1>1. CASE Stripe
  <2>1. PICK s \in Subs, plan \in Plans :
          SignUp(s, plan) \/ Renew(s) \/ RenewalFails(s) \/ Portal(s) \/ Delete(s)
    BY <1>1 DEF Stripe, Plans
  <2> QED
    BY <2>1, StripeCalm
<1>2. ASSUME UNCHANGED <<stripe, events>>, calm' => calm, Single /\ InOrder /\ calm' => InOrder'
      PROVE  CalmInv'
  BY <1>2 DEF CalmInv, Single, History, Last
<1>3. ASSUME NEW h \in Handlers, Handler(h)  PROVE CalmInv'
  <2>1. CASE Commit(h) \/ Abort(h)
    BY <1>2, <2>1, EndsInOrder DEF Commit, Abort
  <2>2. CASE (\E i \in 1..Len(events) : Deliver(h, i)) \/ EmailChange(h)
    <3>1. UNCHANGED <<stripe, events>> /\ (calm' => calm)
      BY <2>2 DEF Deliver, EmailChange
    <3> QED
      BY <1>2, <2>2, <3>1, OpensInOrder
  <2> QED
    BY <1>3, <2>1, <2>2 DEF Handler
<1>4. ASSUME NEW n \in 1..MaxSpent, Consume(n)  PROVE CalmInv'
  BY <1>2, <1>4, ConsumeInOrder DEF Consume
<1>5. CASE Tick \/ RunStarts \/ UNCHANGED vars
  <2>1. UNCHANGED <<stripe, events, acked, row, tx, calm>>
    BY <1>5 DEF Tick, RunStarts, vars
  <2>2. Len(events) \in Nat
    BY DEF BillingInv, TypeOK
  <2> QED
    BY <1>2, <2>1, <2>2, InOrderGrows
<1> QED
  BY <1>1, <1>3, <1>4, <1>5 DEF Next

(* Webhooks handled once each, alone and in the order they were sent leave the *)
(* row of a user's only subscription as Stripe has it, for any number of       *)
(* renewals, failures, cancellations and debits between them.                  *)
THEOREM SettledRows == Spec => []SettledMatchesStripe
<1>1. BillingInv /\ CalmInv => SettledMatchesStripe
  <2> SUFFICES ASSUME BillingInv, CalmInv, calm, Pending = {}, NEW s \in Subs,
                      \A t \in Subs \ {s} : stripe[t].status = "none"
               PROVE  /\ stripe[s].status = "canceled" => ~CanRun
                      /\ stripe[s].status = "active" =>
                            row.active /\ ~row.pastDue /\ row.end = stripe[s].end
    BY DEF SettledMatchesStripe
  <2>1. History /\ InOrder
    BY DEF CalmInv, Single
  <2>2. PICK k \in 0..Len(events) : acked = 1..k /\ Follows(row, k)
    BY <2>1 DEF InOrder, Handled
  <2>3. k \in Nat /\ Len(events) \in Nat
    BY DEF BillingInv, TypeOK
  <2>4. k = Len(events)
    BY <2>2, <2>3 DEF Pending
  <2> QED
    BY <2>1, <2>2, <2>3, <2>4 DEF History, Last, Follows, CanRun
<1> QED
  BY <1>1, Invariance, InitCalmInv, StepCalmInv, PTL DEF Spec
================================================================================
