------------------------------ MODULE Payouts -------------------------------
(***************************************************************************)
(* Money that leaves: payments.service.ts, iniciar with an IBAN (KWiK      *)
(* through E-Kwanza, its local mode without a configured provider, plain   *)
(* bank transfer), ekwanza.client.ts, and the part of the E-Kwanza webhook *)
(* that these transfers reach.  Payments.tla has the charges.              *)
(*                                                                         *)
(* iniciar first makes sure that the order has a payment, with a pending   *)
(* credit in the ledger, then has the money sent, and only then records    *)
(* the payout, its pending debit, and the operation code of the transfer   *)
(* as the external reference of the payment.  The webhook looks for a      *)
(* payment with that code before it looks for a payout.  A step is one     *)
(* statement on the database or one call to E-Kwanza.                      *)
(***************************************************************************)
EXTENDS Naturals, FiniteSets

CONSTANTS
    Orders,       \* each with at most one payment (orderId @unique)
    Transfers,    \* operation codes (merchantTxId)
    Buyers,       \* requests of buyers served at one time
    Hooks,        \* notifications served at one time
    Methods,      \* of AllMethods, those in use
    MaxDebits,    \* bound: no new notification once a transfer has as many
    MaxFaults,    \* bound: how many requests and handlers die half-way
    None

\* "local" is kwik while E-Kwanza is not configured.
AllMethods == {"kwik", "local", "bank_transfer"}

ASSUME PayoutsAssumption ==
    /\ None \notin Orders \cup Transfers
    /\ Methods \subseteq AllMethods
    /\ MaxDebits \in Nat /\ MaxFaults \in Nat

VARIABLES
    ostatus,      \* order.status
    pay,          \* the row of the order's payment
    opened,       \* pending credits of the order in the ledger
    credits,      \* settled credits of the order
    for,          \* the order a code was generated for
    bank,         \* the transfer, as E-Kwanza knows it
    payout,       \* status of the row of the payout
    pending,      \* pending debits of the transfer in the ledger
    debits,       \* settled debits
    ini,          \* local variables of the requests
    hook,         \* local variables of the notifications
    unanswered,   \* history: transfers whose call failed or timed out
    faults        \* history: how many died

tables == <<ostatus, pay, opened, credits, payout, pending, debits>>
history == <<unanswered, faults>>
vars == <<tables, for, bank, ini, hook, history>>

PaymentStatus == {"none", "PENDING", "PROCESSING", "PAID", "FAILED"}

Payment == [status: PaymentStatus, ref: Transfers \cup {None}]

Initiation ==
    [pc: {"idle", "create", "open", "send", "calling", "row", "debit", "ref"},
     order: Orders \cup {None}, method: AllMethods \cup {None},
     code: Transfers \cup {None}]

Notification ==
    [pc: {"idle", "pay", "order", "credit", "fail", "close", "settle", "refuse"},
     code: Transfers \cup {None}, order: Orders \cup {None}]

IdleInitiation == [pc |-> "idle", order |-> None, method |-> None, code |-> None]
IdleHook == [pc |-> "idle", code |-> None, order |-> None]

PayoutsTypeOK ==
    /\ ostatus \in [Orders -> {"AWAITING_PAYMENT", "PAID"}]
    /\ pay \in [Orders -> Payment]
    /\ opened \in [Orders -> Nat]
    /\ credits \in [Orders -> Nat]
    /\ for \in [Transfers -> Orders \cup {None}]
    /\ bank \in [Transfers -> {"none", "asked", "moved", "refused"}]
    /\ payout \in [Transfers -> PaymentStatus]
    /\ pending \in [Transfers -> Nat]
    /\ debits \in [Transfers -> Nat]
    /\ ini \in [Buyers -> Initiation]
    /\ hook \in [Hooks -> Notification]
    /\ unanswered \subseteq Transfers
    /\ faults \in Nat

Init ==
    /\ ostatus = [o \in Orders |-> "AWAITING_PAYMENT"]
    /\ pay = [o \in Orders |-> [status |-> "none", ref |-> None]]
    /\ opened = [o \in Orders |-> 0]
    /\ credits = [o \in Orders |-> 0]
    /\ for = [x \in Transfers |-> None]
    /\ bank = [x \in Transfers |-> "none"]
    /\ payout = [x \in Transfers |-> "none"]
    /\ pending = [x \in Transfers |-> 0]
    /\ debits = [x \in Transfers |-> 0]
    /\ ini = [b \in Buyers |-> IdleInitiation]
    /\ hook = [h \in Hooks |-> IdleHook]
    /\ unanswered = {}
    /\ faults = 0

-----------------------------------------------------------------------------
(* POST /orders/:id/payment/init with an IBAN.                             *)

At(b, state) == ini' = [ini EXCEPT ![b] = state]

InitRead(b, o, m) ==
    /\ ini[b].pc = "idle"
    /\ ostatus[o] # "PAID"
    /\ pay[o].status # "PAID"
    /\ At(b, [pc |-> IF pay[o].status = "none" THEN "create" ELSE "send",
              order |-> o, method |-> m, code |-> None])
    /\ UNCHANGED <<tables, for, bank, hook, history>>

\* Mutant of InitCreate: an upsert, so that the second creation goes on.
InitCreateUpserts(b) ==
    LET o == ini[b].order
    IN  /\ ini[b].pc = "create"
        /\ pay' = [pay EXCEPT ![o] = [pay[o] EXCEPT !.status = "PENDING"]]
        /\ At(b, [ini[b] EXCEPT !.pc = "open"])
        /\ UNCHANGED <<ostatus, opened, credits, payout, pending, debits,
                       for, bank, hook, history>>

\* payment.create; the second of two creations violates the unique key.
InitCreate(b) ==
    LET o == ini[b].order
    IN  /\ ini[b].pc = "create"
        /\ IF pay[o].status = "none"
             THEN /\ pay' = [pay EXCEPT ![o] = [pay[o] EXCEPT !.status = "PENDING"]]
                  /\ At(b, [ini[b] EXCEPT !.pc = "open"])
             ELSE At(b, IdleInitiation) /\ UNCHANGED pay
        /\ UNCHANGED <<ostatus, opened, credits, payout, pending, debits,
                       for, bank, hook, history>>

InitPendingCredit(b) ==
    /\ ini[b].pc = "open"
    /\ opened' = [opened EXCEPT ![ini[b].order] = opened[ini[b].order] + 1]
    /\ At(b, [ini[b] EXCEPT !.pc = "send"])
    /\ UNCHANGED <<ostatus, pay, credits, payout, pending, debits,
                   for, bank, hook, history>>

\* A fresh code; KWiK calls E-Kwanza with it.
InitSend(b, x) ==
    /\ ini[b].pc = "send"
    /\ for[x] = None
    /\ for' = [for EXCEPT ![x] = ini[b].order]
    /\ bank' = IF ini[b].method = "kwik" THEN [bank EXCEPT ![x] = "asked"] ELSE bank
    /\ At(b, [ini[b] EXCEPT !.pc = IF ini[b].method = "kwik" THEN "calling" ELSE "row",
                            !.code = x])
    /\ UNCHANGED <<tables, hook, history>>

CallReturns(b) ==
    /\ ini[b].pc = "calling"
    /\ At(b, [ini[b] EXCEPT !.pc = "row"])
    /\ UNCHANGED <<tables, for, bank, hook, history>>

\* An error or, after 1 to 15 seconds, a timeout: only a warning is logged,
\* whatever the bank does with the transfer.
CallFails(b) ==
    /\ ini[b].pc = "calling"
    /\ unanswered' = unanswered \cup {ini[b].code}
    /\ At(b, IdleInitiation)
    /\ UNCHANGED <<tables, for, bank, hook, faults>>

\* payout.create; a plain bank transfer ends here.
InitPayoutRow(b) ==
    LET plain == ini[b].method = "bank_transfer"
    IN  /\ ini[b].pc = "row"
        /\ payout' = [payout EXCEPT ![ini[b].code] =
                        IF plain THEN "PENDING" ELSE "PROCESSING"]
        /\ At(b, IF plain THEN IdleInitiation ELSE [ini[b] EXCEPT !.pc = "debit"])
        /\ UNCHANGED <<ostatus, pay, opened, credits, pending, debits,
                       for, bank, hook, history>>

\* Mutant of InitPendingDebit: the debit is left to the webhook.
InitNoPendingDebit(b) ==
    /\ ini[b].pc = "debit"
    /\ At(b, [ini[b] EXCEPT !.pc = "ref"])
    /\ UNCHANGED <<tables, for, bank, hook, history>>

InitPendingDebit(b) ==
    /\ ini[b].pc = "debit"
    /\ pending' = [pending EXCEPT ![ini[b].code] = pending[ini[b].code] + 1]
    /\ At(b, [ini[b] EXCEPT !.pc = "ref"])
    /\ UNCHANGED <<ostatus, pay, opened, credits, payout, debits,
                   for, bank, hook, history>>

\* Mutant of InitReference: the payment of a KWiK transfer counts as done.
InitReferencePaid(b) ==
    /\ ini[b].pc = "ref"
    /\ pay' = [pay EXCEPT ![ini[b].order] = [status |-> "PAID", ref |-> ini[b].code]]
    /\ At(b, IdleInitiation)
    /\ UNCHANGED <<ostatus, opened, credits, payout, pending, debits,
                   for, bank, hook, history>>

\* payment.update: the code of the transfer becomes the payment's reference.
InitReference(b) ==
    LET o == ini[b].order
    IN  /\ ini[b].pc = "ref"
        /\ pay' = [pay EXCEPT ![o] = [status |-> pay[o].status, ref |-> ini[b].code]]
        /\ At(b, IdleInitiation)
        /\ UNCHANGED <<ostatus, opened, credits, payout, pending, debits,
                       for, bank, hook, history>>

\* A charge is started for the same payment (Payments!InitAttempt): it
\* replaces the reference.
ChargeStarted(o) ==
    /\ ostatus[o] # "PAID"
    /\ pay[o].status \notin {"none", "PAID"}
    /\ pay' = [pay EXCEPT ![o] = [status |-> "PROCESSING", ref |-> None]]
    /\ UNCHANGED <<ostatus, opened, credits, payout, pending, debits,
                   for, bank, ini, hook, history>>

-----------------------------------------------------------------------------
(* E-Kwanza moves the money and notifies, as often as it likes.            *)

BankDecides(x, d) ==
    /\ bank[x] = "asked"
    /\ bank' = [bank EXCEPT ![x] = d]
    /\ UNCHANGED <<tables, for, ini, hook, history>>

Notified(x) == bank[x] \in {"moved", "refused"}
PaymentWith(x) == {o \in Orders : pay[o].status # "none" /\ pay[o].ref = x}

To(h, state) == hook' = [hook EXCEPT ![h] = state]
Answer(h) == To(h, IdleHook)

\* A payment first (one that is PAID already, or a code that nothing has, is
\* answered at once and changes nothing) ...
HookFindsPayment(h, x, o) ==
    /\ hook[h].pc = "idle"
    /\ Notified(x)
    /\ o \in PaymentWith(x)
    /\ bank[x] = "moved" => pay[o].status # "PAID"
    /\ To(h, [pc |-> IF bank[x] = "moved" THEN "pay" ELSE "fail", code |-> x, order |-> o])
    /\ UNCHANGED <<tables, for, bank, ini, history>>

\* Mutant of HookFindsPayout: the status is not looked at.
HookFindsPayoutBlindly(h, x) ==
    /\ hook[h].pc = "idle"
    /\ Notified(x)
    /\ PaymentWith(x) = {}
    /\ payout[x] # "none"
    /\ debits[x] < MaxDebits
    /\ To(h, [pc |-> "close", code |-> x, order |-> None])
    /\ UNCHANGED <<tables, for, bank, ini, history>>

\* ... then a payout.
HookFindsPayout(h, x) ==
    /\ hook[h].pc = "idle"
    /\ Notified(x)
    /\ PaymentWith(x) = {}
    /\ payout[x] # "none"
    /\ debits[x] < MaxDebits
    /\ To(h, [pc |-> IF bank[x] = "moved" THEN "close" ELSE "refuse",
              code |-> x, order |-> None])
    /\ UNCHANGED <<tables, for, bank, ini, history>>

HookPay(h) ==
    LET o == hook[h].order
    IN  /\ hook[h].pc = "pay"
        /\ pay' = [pay EXCEPT ![o] = [pay[o] EXCEPT !.status = "PAID"]]
        /\ To(h, [hook[h] EXCEPT !.pc = "order"])
        /\ UNCHANGED <<ostatus, opened, credits, payout, pending, debits,
                       for, bank, ini, history>>

HookOrder(h) ==
    /\ hook[h].pc = "order"
    /\ ostatus' = [ostatus EXCEPT ![hook[h].order] = "PAID"]
    /\ To(h, [hook[h] EXCEPT !.pc = "credit"])
    /\ UNCHANGED <<pay, opened, credits, payout, pending, debits,
                   for, bank, ini, history>>

HookCredit(h) ==
    LET o == hook[h].order
    IN  /\ hook[h].pc = "credit"
        /\ credits' = [credits EXCEPT ![o] = credits[o] + 1]
        /\ Answer(h)
        /\ UNCHANGED <<ostatus, pay, opened, payout, pending, debits,
                       for, bank, ini, history>>

HookFail(h) ==
    LET o == hook[h].order
    IN  /\ hook[h].pc = "fail"
        /\ pay' = [pay EXCEPT ![o] = [pay[o] EXCEPT !.status = "FAILED"]]
        /\ Answer(h)
        /\ UNCHANGED <<ostatus, opened, credits, payout, pending, debits,
                       for, bank, ini, history>>

\* Mutant of HookClose: the word of the answer, "settled", as the status.
HookCloseSettled(h) ==
    /\ hook[h].pc = "close"
    /\ payout' = [payout EXCEPT ![hook[h].code] = "settled"]
    /\ To(h, [hook[h] EXCEPT !.pc = "settle"])
    /\ UNCHANGED <<ostatus, pay, opened, credits, pending, debits,
                   for, bank, ini, history>>

HookClose(h) ==
    /\ hook[h].pc = "close"
    /\ payout' = [payout EXCEPT ![hook[h].code] = "PAID"]
    /\ To(h, [hook[h] EXCEPT !.pc = "settle"])
    /\ UNCHANGED <<ostatus, pay, opened, credits, pending, debits,
                   for, bank, ini, history>>

HookSettle(h) ==
    LET x == hook[h].code
    IN  /\ hook[h].pc = "settle"
        /\ debits' = [debits EXCEPT ![x] = debits[x] + 1]
        /\ Answer(h)
        /\ UNCHANGED <<ostatus, pay, opened, credits, payout, pending,
                       for, bank, ini, history>>

HookRefuse(h) ==
    /\ hook[h].pc = "refuse"
    /\ payout' = [payout EXCEPT ![hook[h].code] = "FAILED"]
    /\ Answer(h)
    /\ UNCHANGED <<ostatus, pay, opened, credits, pending, debits,
                   for, bank, ini, history>>

\* The process, or a database call, dies between two awaits.
Die ==
    /\ faults < MaxFaults
    /\ faults' = faults + 1
    /\ \/ \E b \in Buyers : ini[b].pc # "idle" /\ At(b, IdleInitiation) /\ UNCHANGED hook
       \/ \E h \in Hooks : hook[h].pc # "idle" /\ To(h, IdleHook) /\ UNCHANGED ini
    /\ UNCHANGED <<tables, for, bank, unanswered>>

-----------------------------------------------------------------------------
InitStep(b) ==
    \/ \E o \in Orders, m \in Methods : InitRead(b, o, m)
    \/ InitCreate(b)
    \/ InitPendingCredit(b)
    \/ \E x \in Transfers : InitSend(b, x)
    \/ CallReturns(b)
    \/ CallFails(b)
    \/ InitPayoutRow(b)
    \/ InitPendingDebit(b)
    \/ InitReference(b)

HookStep(h) ==
    \/ HookPay(h)
    \/ HookOrder(h)
    \/ HookCredit(h)
    \/ HookFail(h)
    \/ HookClose(h)
    \/ HookSettle(h)
    \/ HookRefuse(h)

Next ==
    \/ \E b \in Buyers : InitStep(b)
    \/ \E o \in Orders : ChargeStarted(o)
    \/ \E x \in Transfers :
          \/ \E d \in {"moved", "refused"} : BankDecides(x, d)
          \/ \E h \in Hooks : HookFindsPayout(h, x)
                              \/ \E o \in Orders : HookFindsPayment(h, x, o)
    \/ \E h \in Hooks : HookStep(h)
    \/ Die

Spec == Init /\ [][Next]_vars

-----------------------------------------------------------------------------
(* Properties that hold.                                                   *)

\* A request of x is about to write.
Recording(x, pcs) == \E b \in Buyers : ini[b].code = x /\ ini[b].pc \in pcs

\* No transfer goes unrecorded: money that was asked to move has a payout
\* and one pending debit, or the request that will write them is at work,
\* or its call failed, or something died (payments.service.ts:428-519).
TransfersRecorded ==
    \A x \in Transfers :
        bank[x] # "none" /\ x \notin unanswered /\ faults = 0 =>
          /\ payout[x] # "none" \/ Recording(x, {"calling", "row"})
          /\ pending[x] = 1 \/ Recording(x, {"calling", "row", "debit"})

\* A payment is opened in the ledger once, however many initiations race
\* for its creation; only a death leaves one without (lines 265-293).
OpenedOnce ==
    \A o \in Orders :
        /\ opened[o] <= 1
        /\ faults = 0 /\ pay[o].status # "none" =>
             opened[o] = 1 \/ \E b \in Buyers : ini[b].order = o /\ ini[b].pc = "open"

\* An order is confirmed on the strength of a transfer only if that very
\* transfer, made for it, went through (lines 726-851).
ConfirmedByTransfer ==
    \A o \in Orders :
        pay[o].status = "PAID" \/ ostatus[o] = "PAID" \/ credits[o] > 0 =>
          \E x \in Transfers : for[x] = o /\ bank[x] = "moved"

\* The books never run ahead of the bank: Disbursement.tla, with the rows
\* read as what they say and everything else hidden.
Standing(s) == CASE s = "none" -> "no" [] s = "PAID" -> "closed"
                 [] s = "FAILED" -> "failed" [] OTHER -> "open"

Bank == INSTANCE Disbursement WITH
           money <- [x \in Transfers |->
                       IF bank[x] \in {"none", "asked"} THEN "here" ELSE bank[x]],
           known <- [x \in Transfers |-> Standing(payout[x])],
           debits <- debits

\* Every step of requests, notifications and failures is a step of the
\* abstract books or none.
ImplementsDisbursement == Bank!Spec
=============================================================================
