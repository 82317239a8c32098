------------------------------ MODULE Payments ------------------------------
(***************************************************************************)
(* The payment of an order: payments.service.ts (iniciar, comprovativo,    *)
(* validarAdmin and the AppyPay, generic and E-Kwanza webhooks) with the   *)
(* routes of webhooks.controller.ts and admin-payments.controller.ts.      *)
(*                                                                         *)
(* None of these handlers opens a transaction: each await on the database  *)
(* is a step, and what a handler decides it decides on the payment it read *)
(* first.  A buyer starts attempts; each one is a charge at the provider,  *)
(* which the buyer pays or not; the provider then notifies the webhooks    *)
(* until it gets an answer of status 200, possibly more often than once.   *)
(***************************************************************************)
EXTENDS Naturals, FiniteSets

CONSTANTS
    Orders,       \* orders, each with at most one payment (orderId @unique)
    Attempts,     \* merchant transaction ids (externalReference)
    Confirmers,   \* webhook calls and admin validations served at one time
    Buyers,       \* buyer requests (init, receipt) served at one time
    Routes,       \* which of AllRoutes are in use
    Names,        \* which of AllNames the callers of webhooks use
    Words,        \* what callers of the generic webhook may say of each charge
    OrderMoves,   \* bound: statuses that others (Checkout.tla) write
    MaxCredits,   \* bound: no new notification once an order has as many
    MaxFaults,    \* bound: how many handlers die half-way
    None

\* "alias" is POST /webhooks/payment/appypay.  It is declared after
\* payment/:gateway (webhooks.controller.ts:57,118), which takes its calls.
AllRoutes == {"appypay", "generic", "alias", "ekwanza", "admin"}

\* How a call names the charge: by the merchant's id, by the provider's own
\* id, or by the merchant's id with that of the order next to it.
AllNames == {"merchant", "provider", "order"}

\* The status a call gives: one that is listed as success, one listed as
\* failure, any other ("pending", "expired", "declined"), or none.
AllWords == {"paid", "failed", "other", "missing"}

OrderStatus == {"AWAITING_PAYMENT", "PAID", "PREPARING", "SHIPPING",
                "COMPLETED", "CANCELLED"}

ASSUME NoneAssumption == None \notin Orders \cup Attempts
ASSUME RoutesAssumption ==
    /\ Routes \subseteq AllRoutes /\ OrderMoves \subseteq OrderStatus
    /\ Names \subseteq AllNames /\ Words \in [Attempts -> SUBSET AllWords]
ASSUME BoundsAssumption == MaxCredits \in Nat /\ MaxFaults \in Nat

VARIABLES
    ostatus,      \* order.status
    pay,          \* the row of the order's payment
    redis,        \* the idempotency keys, seven days long
    for,          \* the order an attempt was made for; None: not made yet
    charge,       \* the charge of an attempt, as the provider knows it
    calling,      \* attempts whose call to AppyPay runs in the background
    acked,        \* attempts whose outcome a webhook answered with 200
    conf,         \* local variables of the confirmations
    ini,          \* local variables of the buyer requests
    settled,      \* settled credits of the order in the wallet ledger
    recorded,     \* history: how often the payment was set to PAID
    orderPaid,    \* history: orders that were set to PAID
    validated,    \* history: orders whose payment an administrator validated
    faults        \* history: handlers that died half-way

tables == <<ostatus, pay, redis, settled>>
provider == <<for, charge, calling, acked>>
history == <<recorded, orderPaid, validated, faults>>
vars == <<tables, provider, conf, ini, history>>

PaymentStatus == {"none", "PENDING", "PROCESSING", "PAID", "FAILED"}

Payment ==
    [status: PaymentStatus,
     ref: Attempts \cup {None},       \* bridpayMerchantTxId, see Finds
     code: Attempts \cup {None},      \* providerTxId: that charge's own id
     processed: BOOLEAN]              \* webhookProcessedAt is set

Confirmation ==
    [pc: {"idle", "mark", "fail", "pay", "order", "credit"},
     route: AllRoutes \cup {None}, order: Orders \cup {None},
     ref: Attempts \cup {None}, name: AllNames \cup {None},
     final: BOOLEAN]                  \* the call tells the charge's outcome

BuyerRequest ==
    [pc: {"idle", "create", "attempt", "receipt"},
     order: Orders \cup {None}, gateway: BOOLEAN]

NoPayment == [status |-> "none", ref |-> None, code |-> None, processed |-> FALSE]
IdleConfirmation ==
    [pc |-> "idle", route |-> None, order |-> None, ref |-> None, name |-> None,
     final |-> FALSE]
IdleBuyer == [pc |-> "idle", order |-> None, gateway |-> FALSE]

PaymentsTypeOK ==
    /\ ostatus \in [Orders -> OrderStatus]
    /\ pay \in [Orders -> Payment]
    /\ redis \subseteq AllRoutes \X Attempts \X AllNames
    /\ for \in [Attempts -> Orders \cup {None}]
    /\ charge \in [Attempts -> {"sent", "open", "paid", "declined"}]
    /\ calling \subseteq Attempts
    /\ acked \subseteq Attempts
    /\ conf \in [Confirmers -> Confirmation]
    /\ ini \in [Buyers -> BuyerRequest]
    /\ settled \in [Orders -> Nat]
    /\ recorded \in [Orders -> Nat]
    /\ orderPaid \subseteq Orders
    /\ validated \subseteq Orders
    /\ faults \in Nat

Init ==
    /\ ostatus = [o \in Orders |-> "AWAITING_PAYMENT"]
    /\ pay = [o \in Orders |-> NoPayment]
    /\ redis = {}
    /\ for = [a \in Attempts |-> None]
    /\ charge = [a \in Attempts |-> "sent"]
    /\ calling = {}
    /\ acked = {}
    /\ conf = [h \in Confirmers |-> IdleConfirmation]
    /\ ini = [b \in Buyers |-> IdleBuyer]
    /\ settled = [o \in Orders |-> 0]
    /\ recorded = [o \in Orders |-> 0]
    /\ orderPaid = {}
    /\ validated = {}
    /\ faults = 0

-----------------------------------------------------------------------------
(* The buyer: POST /orders/:id/payment/init and .../receipt.               *)

\* All guards look at what is read here; nothing is read again.  A method
\* without gateway on a payment that exists changes nothing modelled here.
InitRead(b, o, g) ==
    /\ ini[b].pc = "idle"
    /\ ostatus[o] \notin {"CANCELLED", "PAID", "COMPLETED"}
    /\ pay[o].status # "PAID"
    /\ pay[o].status = "none" \/ g
    /\ ini' = [ini EXCEPT ![b] =
                 [pc |-> IF pay[o].status = "none" THEN "create" ELSE "attempt",
                  order |-> o, gateway |-> g]]
    /\ UNCHANGED <<tables, provider, conf, history>>

\* payment.create: orderId is unique, the second of two creations throws.
InitCreate(b) ==
    LET o == ini[b].order
    IN  /\ ini[b].pc = "create"
        /\ IF pay[o].status = "none"
             THEN /\ pay' = [pay EXCEPT ![o].status =
                               IF ini[b].gateway THEN "PROCESSING" ELSE "PENDING"]
                  /\ ini' = [ini EXCEPT ![b] = IF ini[b].gateway
                                THEN [ini[b] EXCEPT !.pc = "attempt"] ELSE IdleBuyer]
             ELSE ini' = [ini EXCEPT ![b] = IdleBuyer] /\ UNCHANGED pay
        /\ UNCHANGED <<ostatus, redis, settled, provider, conf, history>>

\* A fresh reference replaces the one before; webhookProcessedAt stays.  The
\* call to AppyPay starts in the background.
InitAttempt(b, a) ==
    LET o == ini[b].order
    IN  /\ ini[b].pc = "attempt"
        /\ for[a] = None
        /\ pay' = [pay EXCEPT ![o] = [status |-> "PROCESSING", ref |-> a,
                                      code |-> None, processed |-> pay[o].processed]]
        /\ for' = [for EXCEPT ![a] = o]
        /\ calling' = calling \cup {a}
        /\ ini' = [ini EXCEPT ![b] = IdleBuyer]
        /\ UNCHANGED <<ostatus, redis, settled, charge, acked, conf, history>>

ReceiptRead(b, o) ==
    /\ ini[b].pc = "idle"
    /\ pay[o].status \notin {"none", "PAID"}
    /\ ini' = [ini EXCEPT ![b] = [pc |-> "receipt", order |-> o, gateway |-> FALSE]]
    /\ UNCHANGED <<tables, provider, conf, history>>

\* Mutant of ReceiptWrite: an uploaded receipt is shown as a status of its own.
ReceiptStatus(b) ==
    /\ ini[b].pc = "receipt"
    /\ pay' = [pay EXCEPT ![ini[b].order].status = "RECEIPT"]
    /\ ini' = [ini EXCEPT ![b] = IdleBuyer]
    /\ UNCHANGED <<ostatus, redis, settled, provider, conf, history>>

ReceiptWrite(b) ==
    /\ ini[b].pc = "receipt"
    /\ pay' = [pay EXCEPT ![ini[b].order].status = "PROCESSING"]
    /\ ini' = [ini EXCEPT ![b] = IdleBuyer]
    /\ UNCHANGED <<ostatus, redis, settled, provider, conf, history>>

-----------------------------------------------------------------------------
(* The provider, and the answer to the call in the background.             *)

ChargeOpened(a) ==
    /\ for[a] # None
    /\ charge[a] = "sent"
    /\ charge' = [charge EXCEPT ![a] = "open"]
    /\ UNCHANGED <<tables, for, calling, acked, conf, ini, history>>

ChargeDecided(a, outcome) ==
    /\ charge[a] = "open"
    /\ charge' = [charge EXCEPT ![a] = outcome]
    /\ UNCHANGED <<tables, for, calling, acked, conf, ini, history>>

\* The answer arrives within 8 seconds: providerTxId is overwritten, also
\* when the payment belongs to a later attempt by now.
CallAnswered(a) ==
    /\ a \in calling
    /\ charge[a] # "sent"
    /\ calling' = calling \ {a}
    /\ pay' = [pay EXCEPT ![for[a]].code = a]
    /\ UNCHANGED <<ostatus, redis, settled, for, charge, acked, conf, ini, history>>

\* It does not, or it is an error: a note goes to providerDetails.
CallGivenUp(a) ==
    /\ a \in calling
    /\ calling' = calling \ {a}
    /\ UNCHANGED <<tables, for, charge, acked, conf, ini, history>>

\* iniciar with an IBAN: the payment gets the reference and the provider's
\* id of a transfer (Payouts.tla).
TransferRecorded(o) ==
    /\ pay[o].status # "none"
    /\ pay' = [pay EXCEPT ![o].code = None]
    /\ UNCHANGED <<ostatus, redis, settled, provider, conf, ini, history>>

-----------------------------------------------------------------------------
(* Webhooks.                                                               *)

\* The handlers that keep webhookProcessedAt and the Redis key.
Marks(k) == k \in {"appypay", "generic", "alias"}
Generic(k) == k \in {"generic", "alias"}
Key(k, a, n) == <<IF k = "alias" THEN "appypay" ELSE k, a,
                  IF n = "provider" THEN n ELSE "merchant">>

Decided(a) == charge[a] \in {"paid", "declined"}

\* What callers may say of a charge.  AppyPay and E-Kwanza give its state;
\* AppyPay calls it operationStatus, so that its payload has no status where
\* the generic handler gets it, as the alias; what others send to the
\* generic webhook, a success they do not list or a status they leave out
\* included, is a choice among Words[a].
Says(k, a) ==
    LET word == CASE charge[a] = "paid" -> "paid"
                  [] charge[a] = "declined" -> "failed"
                  [] OTHER -> "other"
        said == CASE k = "generic" -> {word, "other", "missing"} \cap Words[a]
                  [] k = "alias" -> {"missing"}
                  [] OTHER -> {word}
    IN  IF charge[a] = "sent" THEN {} ELSE said

\* A call of webhook k about charge a.  E-Kwanza names it in both ways; only
\* the generic handler looks for an order.
Sends(k, a, n, w) ==
    /\ w \in Says(k, a)
    /\ k = "ekwanza" => n = "merchant"
    /\ n = "order" => Generic(k)

\* What the handlers make of it; neither is "pending".  For the generic one
\* everything but six words is success (lines 1283-1319), for E-Kwanza
\* everything but three is a failure (lines 757-759).
Fails(k, w) == w = "failed" \/ (k = "ekwanza" /\ w = "other")

Succeeds(k, w) == w = "paid" \/ (Generic(k) /\ w # "failed")

\* Mutant of Finds: a filter on a field that is undefined, which Prisma
\* ignores, finds the payment of any order.
FindsAnything(k, a, n, o) == pay[o].status # "none"

\* findFirst by externalReference, bridpayMerchantTxId, providerTxId, and the
\* order.  init writes the first two together; a transfer (Payouts.tla) puts
\* its own code into the first, but each look-up goes on to the second.
Finds(k, a, n, o) ==
    /\ pay[o].status # "none"
    /\ \/ n # "provider" /\ pay[o].ref = a
       \/ (n = "provider" \/ k = "ekwanza") /\ pay[o].code = a
       \/ n = "order" /\ for[a] = o

\* Already processed, by Redis or by the database.
Seen(k, a, n, o) == Marks(k) /\ (Key(k, a, n) \in redis \/ pay[o].processed)

\* Mutant of AlreadyPaid: a payment that is only being processed counts.
AlreadyStarted(k, w, o) ==
    /\ pay[o].status \in {"PAID", "PROCESSING"}
    /\ Generic(k) \/ w = "paid"

\* Already paid: AppyPay and E-Kwanza ask for success too.
AlreadyPaid(k, w, o) ==
    /\ pay[o].status = "PAID"
    /\ Generic(k) \/ w = "paid"

Decision(k, w, o) ==
    IF AlreadyPaid(k, w, o) THEN "mark" ELSE IF Fails(k, w) THEN "fail" ELSE "pay"

Remember(k, a, n) ==
    redis' = IF Marks(k) THEN redis \cup {Key(k, a, n)} ELSE redis

\* The provider does not repeat an outcome that was answered with 200.
Acknowledge(a) == acked' = acked \cup {b \in {a} : Decided(b)}

\* A notification that is a repetition, or that E-Kwanza sends for a payment
\* which is paid or not known: answered at once.
AnswerAtOnce(k, a, n, w) ==
    /\ Sends(k, a, n, w)
    /\ \/ Marks(k) /\ Key(k, a, n) \in redis
       \/ \E o \in Orders : Finds(k, a, n, o) /\ Seen(k, a, n, o)
       \/ /\ k = "ekwanza"
          /\ \A o \in Orders : Finds(k, a, n, o) => AlreadyPaid(k, w, o)
    /\ Remember(k, a, n)
    /\ Acknowledge(a)
    /\ UNCHANGED <<ostatus, pay, settled, for, charge, calling, conf, ini, history>>

\* Neither success nor failure: answered, and nothing is written.
AnswerPending(k, a, n, w) ==
    /\ Sends(k, a, n, w)
    /\ ~Fails(k, w) /\ ~Succeeds(k, w)
    /\ \E o \in Orders : Finds(k, a, n, o) /\ ~Seen(k, a, n, o)
    /\ Acknowledge(a)
    /\ UNCHANGED <<tables, for, charge, calling, conf, ini, history>>

\* The payment is read and the branch chosen.
Take(h, k, a, n, w) ==
    /\ conf[h].pc = "idle"
    /\ Sends(k, a, n, w)
    /\ Fails(k, w) \/ Succeeds(k, w)
    /\ \E o \in Orders :
          /\ Finds(k, a, n, o)
          /\ ~Seen(k, a, n, o)
          /\ Marks(k) \/ ~AlreadyPaid(k, w, o)
          /\ settled[o] < MaxCredits
          /\ conf' = [conf EXCEPT ![h] =
                        [pc |-> Decision(k, w, o), route |-> k, order |-> o,
                         ref |-> a, name |-> n, final |-> Decided(a)]]

\* Mutant of Receive: the key is set before the work is done.
ReceiveAndRemember(h, k, a, n, w) ==
    /\ Take(h, k, a, n, w)
    /\ Remember(k, a, n)
    /\ UNCHANGED <<ostatus, pay, settled, provider, ini, history>>

\* Key and column are read in one step: a key is set after the column, which
\* nothing clears.
Receive(h, k, a, n, w) ==
    /\ Take(h, k, a, n, w)
    /\ UNCHANGED <<tables, provider, ini, history>>

\* A key expires, is evicted, or Redis is down when it is asked or told:
\* the handlers go on without it.
RedisForgets ==
    \E key \in redis :
        /\ redis' = redis \ {key}
        /\ UNCHANGED <<ostatus, pay, settled, provider, conf, ini, history>>

\* PATCH /admin/payments/:id/validar, up to the branch on the status.
AdminValidate(h, o) ==
    /\ conf[h].pc = "idle"
    /\ pay[o].status \notin {"none", "PAID"}
    /\ settled[o] < MaxCredits
    /\ conf' = [conf EXCEPT ![h] = [IdleConfirmation EXCEPT
                  !.pc = "pay", !.route = "admin", !.order = o]]
    /\ validated' = validated \cup {o}
    /\ UNCHANGED <<tables, provider, ini, recorded, orderPaid, faults>>

Finish(h) ==
    /\ conf' = [conf EXCEPT ![h] = IdleConfirmation]
    /\ acked' = IF conf[h].final THEN acked \cup {conf[h].ref} ELSE acked

\* payment.update of an outcome; the routes that leave marks set theirs.
Outcome(o, s, k) ==
    pay' = [pay EXCEPT ![o] = [pay[o] EXCEPT !.status = s,
                                             !.processed = pay[o].processed \/ Marks(k)]]

ConfirmPayment(h) ==
    LET o == conf[h].order
    IN  /\ conf[h].pc = "pay"
        /\ Outcome(o, "PAID", conf[h].route)
        /\ recorded' = [recorded EXCEPT ![o] = @ + 1]
        /\ conf' = [conf EXCEPT ![h].pc = "order"]
        /\ UNCHANGED <<ostatus, redis, settled, provider, ini, orderPaid, validated, faults>>

\* Whatever the status of the order is by now.
ConfirmOrder(h) ==
    LET o == conf[h].order
    IN  /\ conf[h].pc = "order"
        /\ ostatus' = [ostatus EXCEPT ![o] = "PAID"]
        /\ orderPaid' = orderPaid \cup {o}
        /\ conf' = [conf EXCEPT ![h].pc = "credit"]
        /\ UNCHANGED <<pay, redis, settled, provider, ini, recorded, validated, faults>>

\* Mutant of ConfirmCredit: the answer is sent before the credit is created,
\* and the credit is left to the queue.
CreditLeftToQueue(h) ==
    /\ conf[h].pc = "credit"
    /\ Remember(conf[h].route, conf[h].ref, conf[h].name)
    /\ Finish(h)
    /\ UNCHANGED <<ostatus, pay, settled, for, charge, calling, ini, history>>

\* walletTransaction.create, then the key, then (best effort) notification,
\* queue, realtime event and e-mail, then the answer.
ConfirmCredit(h) ==
    /\ conf[h].pc = "credit"
    /\ settled' = [settled EXCEPT ![conf[h].order] = @ + 1]
    /\ Remember(conf[h].route, conf[h].ref, conf[h].name)
    /\ Finish(h)
    /\ UNCHANGED <<ostatus, pay, for, charge, calling, ini, history>>

\* Whatever the status of the payment is by now.
ConfirmFailed(h) ==
    /\ conf[h].pc = "fail"
    /\ Outcome(conf[h].order, "FAILED", conf[h].route)
    /\ Remember(conf[h].route, conf[h].ref, conf[h].name)
    /\ Finish(h)
    /\ UNCHANGED <<ostatus, settled, for, charge, calling, ini, history>>

\* The payment was paid when it was read: only the marks are set.
ConfirmMarked(h) ==
    /\ conf[h].pc = "mark"
    /\ pay' = [pay EXCEPT ![conf[h].order].processed = TRUE]
    /\ Remember(conf[h].route, conf[h].ref, conf[h].name)
    /\ Finish(h)
    /\ UNCHANGED <<ostatus, settled, for, charge, calling, ini, history>>

\* The process, or a database call, dies between two awaits.
Die(h) ==
    /\ conf[h].pc # "idle"
    /\ faults < MaxFaults
    /\ faults' = faults + 1
    /\ conf' = [conf EXCEPT ![h] = IdleConfirmation]
    /\ UNCHANGED <<tables, provider, ini, recorded, orderPaid, validated>>

BuyerGone(b) ==
    /\ ini[b].pc # "idle"
    /\ ini' = [ini EXCEPT ![b] = IdleBuyer]
    /\ UNCHANGED <<tables, provider, conf, history>>

\* Cancellations and administrators write the order's status at any time.
OrderMoved(o, s) ==
    /\ ostatus[o] # s
    /\ ostatus' = [ostatus EXCEPT ![o] = s]
    /\ UNCHANGED <<pay, redis, settled, provider, conf, ini, history>>

-----------------------------------------------------------------------------
BuyerStep(b) ==
    \/ \E o \in Orders : ReceiptRead(b, o) \/ \E g \in BOOLEAN : InitRead(b, o, g)
    \/ InitCreate(b)
    \/ \E a \in Attempts : InitAttempt(b, a)
    \/ ReceiptWrite(b)
    \/ BuyerGone(b)

ProviderStep(a) ==
    \/ ChargeOpened(a)
    \/ \E outcome \in {"paid", "declined"} : ChargeDecided(a, outcome)
    \/ CallAnswered(a)
    \/ CallGivenUp(a)

Webhooks == Routes \ {"admin"}

ConfirmStep(h) ==
    \/ ConfirmPayment(h)
    \/ ConfirmOrder(h)
    \/ ConfirmCredit(h)
    \/ ConfirmFailed(h)
    \/ ConfirmMarked(h)

NotifyStep(a) ==
    \E k \in Webhooks, n \in Names, w \in AllWords :
        \/ AnswerAtOnce(k, a, n, w)
        \/ AnswerPending(k, a, n, w)
        \/ \E h \in Confirmers : Receive(h, k, a, n, w)

Next ==
    \/ \E b \in Buyers : BuyerStep(b)
    \/ \E a \in Attempts : ProviderStep(a) \/ NotifyStep(a)
    \/ \E h \in Confirmers : \/ ConfirmStep(h)
                             \/ Die(h)
                             \/ "admin" \in Routes /\ \E o \in Orders : AdminValidate(h, o)
    \/ \E o \in Orders : TransferRecorded(o)
    \/ \E o \in Orders, s \in OrderMoves : OrderMoved(o, s)
    \/ RedisForgets

Spec == Init /\ [][Next]_vars

\* Fairness: a handler that started goes on, and the provider repeats a
\* notification until one is answered; buyers, administrators and the
\* outcome of a charge owe nothing.
Repeat(a) ==
    /\ Decided(a)
    /\ a \notin acked
    /\ NotifyStep(a)

FairSpec ==
    /\ Spec
    /\ \A h \in Confirmers : WF_vars(ConfirmStep(h))
    /\ \A a \in Attempts : SF_vars(Repeat(a))

-----------------------------------------------------------------------------
(* Properties that hold.                                                   *)

\* Some webhook in use takes a notification of the charge for success.
TakenForPaid(a) == \E k \in Webhooks : \E w \in Says(k, a) : Succeeds(k, w)

\* Nothing is confirmed without cause: when a payment was set to PAID, its
\* order to PAID or a credit was settled, then an administrator validated
\* it, or there is a charge made for that very order of which a webhook in
\* use is told what it takes for success.  On AppyPay's and E-Kwanza's own
\* routes and with the words the API contract lists that is a paid charge;
\* the generic handler takes any other word, and none, for success
\* (payments.service.ts:655, 794, 1028, 1283-1320; docs/API_CONTRACT.md:269).
Prompted ==
    \A o \in Orders :
        recorded[o] > 0 \/ settled[o] > 0 \/ o \in orderPaid =>
          o \in validated \/ \E a \in Attempts : for[a] = o /\ TakenForPaid(a)

\* The books balance: while no handler has died, each time a payment was set
\* to PAID its order has a settled credit, or the handler that will create
\* it is at work and has the order still to do (lines 1028-1061).
Crediting(o) == {h \in Confirmers : conf[h].order = o /\ conf[h].pc \in {"order", "credit"}}

BooksBalance ==
    \A o \in Orders :
        /\ settled[o] + Cardinality(Crediting(o)) <= recorded[o]
        /\ faults = 0 => settled[o] + Cardinality(Crediting(o)) = recorded[o]
        /\ settled[o] > 0 => o \in orderPaid

\* The order had no other attempt: nothing replaced the reference, and no
\* outcome of another charge marked the payment as processed.
OnlyAttempt(a) == \A b \in Attempts : for[b] = for[a] => b = a
Recorded(a) == \E o \in Orders : for[a] = o /\ recorded[o] > 0
Settled(a) == \E o \in Orders : for[a] = o /\ settled[o] > 0

\* A notification of success that was answered with 200 will not come again:
\* the payment of an order with one attempt has been recorded by then
\* (lines 966-976, 992-997, 1028-1066).
AckedMeansRecorded ==
    \A a \in Attempts :
        a \in acked /\ charge[a] = "paid" /\ OnlyAttempt(a) => Recorded(a)

\* The charge of an order with one attempt, once paid, is recorded in the
\* end and, unless handlers died, credited: repetitions make up for a
\* handler that dies before it has written the payment.
ChargeConfirmed ==
    \A a \in Attempts :
        charge[a] = "paid" ~>
          \/ Recorded(a) /\ (Settled(a) \/ faults > 0)
          \/ ~OnlyAttempt(a)

-----------------------------------------------------------------------------
(* A property that does not hold.                                          *)

\* What the contract promises: a second call with the same reference does
\* not process the payment again (docs/API_CONTRACT.md:271), so that it gets
\* one settled credit.  Two calls that overlap both pass the checks before
\* one of them has written (lines 992-997 and 1028, 1251-1268 and 1320).
SettledOnce == \A o \in Orders : settled[o] <= 1
=============================================================================
