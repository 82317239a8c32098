--------------------------- MODULE PaymentsProofs ---------------------------
(* Theorems about Payments.tla, for every value of its constants.          *)
EXTENDS Payments, FiniteSetTheorems, TLAPS

-----------------------------------------------------------------------------
(* Type correctness.                                                       *)

\* A handler under way knows its order, and the charge if it leaves marks.
Addressed ==
    /\ \A h \in Confirmers :
          conf[h].pc # "idle" =>
            /\ conf[h].order \in Orders
            /\ conf[h].route \in Routes
            /\ Marks(conf[h].route) \/ conf[h].final => conf[h].ref \in Attempts
            /\ Marks(conf[h].route) => conf[h].name \in AllNames
    /\ \A b \in Buyers : ini[b].pc # "idle" => ini[b].order \in Orders
    /\ \A a \in calling : for[a] \in Orders

Safe == PaymentsTypeOK /\ Addressed

LEMMA InitSafe == Init => Safe
  BY DEF Init, Safe, PaymentsTypeOK, Addressed, OrderStatus, Payment, PaymentStatus, NoPayment,
         Confirmation, IdleConfirmation, BuyerRequest, IdleBuyer

\* The rows that handlers write, and the local variables they go on with.
LEMMA PayTypes ==
  ASSUME Safe, NEW o \in Orders
  PROVE  /\ pay[o] \in Payment
         /\ \A p \in Payment : [pay EXCEPT ![o] = p] \in [Orders -> Payment]
  BY DEF Safe, PaymentsTypeOK

\* The same for one field of the row of one order.
LEMMA FieldTypes ==
  ASSUME Safe, NEW o \in Orders, NEW s \in PaymentStatus, NEW m \in BOOLEAN
  PROVE  /\ [pay EXCEPT ![o].status = s] \in [Orders -> Payment]
         /\ [pay EXCEPT ![o].processed = m] \in [Orders -> Payment]
         /\ [pay EXCEPT ![o] = [pay[o] EXCEPT !.status = s, !.processed = m]]
               \in [Orders -> Payment]
<1> DEFINE p == pay[o]
           s1 == [p EXCEPT !.status = s]
           s2 == [p EXCEPT !.processed = m]
           s3 == [p EXCEPT !.status = s, !.processed = m]
<1>1. p \in Payment
  BY PayTypes
<1>2. s1 \in Payment /\ s2 \in Payment /\ s3 \in Payment
  <2> HIDE DEF p
  <2> QED  BY <1>1 DEF Payment
<1>3. /\ [pay EXCEPT ![o].status = s] = [pay EXCEPT ![o] = s1]
      /\ [pay EXCEPT ![o].processed = m] = [pay EXCEPT ![o] = s2]
  OBVIOUS
<1>4. [pay EXCEPT ![o] = [pay[o] EXCEPT !.status = s, !.processed = m]] = [pay EXCEPT ![o] = s3]
  OBVIOUS
<1> HIDE DEF s1, s2, s2, s3
<1> QED  BY <1>2, <1>3, <1>4, PayTypes

LEMMA CodeTypes ==
  ASSUME Safe, NEW o \in Orders, NEW a \in Attempts \cup {None}
  PROVE  [pay EXCEPT ![o].code = a] \in [Orders -> Payment]
<1> DEFINE p == pay[o]
           q == [p EXCEPT !.code = a]
<1>1. p \in Payment
  BY PayTypes
<1>2. q \in Payment
  <2> HIDE DEF p
  <2> QED  BY <1>1 DEF Payment
<1>3. [pay EXCEPT ![o].code = a] = [pay EXCEPT ![o] = q]
  OBVIOUS
<1> HIDE DEF q
<1> QED  BY <1>2, <1>3, PayTypes

LEMMA OutcomeTypes ==
  ASSUME Safe, NEW o \in Orders, NEW s \in PaymentStatus, NEW k, Outcome(o, s, k)
  PROVE  pay' \in [Orders -> Payment]
<1> DEFINE m == pay[o].processed \/ Marks(k)
<1>1. m \in BOOLEAN
  OBVIOUS
<1>2. pay' = [pay EXCEPT ![o] = [pay[o] EXCEPT !.status = s, !.processed = m]]
  BY DEF Outcome
<1> HIDE DEF m
<1> QED  BY <1>1, <1>2, FieldTypes

LEMMA IdleTypes ==
  /\ IdleConfirmation \in Confirmation /\ IdleConfirmation.pc = "idle"
  /\ IdleBuyer \in BuyerRequest /\ IdleBuyer.pc = "idle"
  BY DEF IdleConfirmation, Confirmation, IdleBuyer, BuyerRequest

LEMMA GoesOn ==
  ASSUME Safe, NEW h \in Confirmers, NEW s \in {"order", "credit"},
         conf' = [conf EXCEPT ![h].pc = s]
  PROVE  /\ conf' \in [Confirmers -> Confirmation]
         /\ conf'[h].pc = s
         /\ \A g \in Confirmers : /\ conf'[g].order = conf[g].order
                                  /\ conf'[g].route = conf[g].route
                                  /\ conf'[g].ref = conf[g].ref
                                  /\ conf'[g].name = conf[g].name
                                  /\ conf'[g].final = conf[g].final
                                  /\ g # h => conf'[g] = conf[g]
<1> DEFINE c == conf[h]
           d == [c EXCEPT !.pc = s]
<1>1. c \in Confirmation
  BY DEF Safe, PaymentsTypeOK
<1>2. /\ d \in Confirmation /\ d.pc = s /\ d.order = c.order /\ d.route = c.route
      /\ d.ref = c.ref /\ d.name = c.name /\ d.final = c.final
  <2> HIDE DEF c
  <2> QED  BY <1>1 DEF Confirmation
<1>3. conf' = [conf EXCEPT ![h] = d]
  OBVIOUS
<1> HIDE DEF d
<1> QED  BY <1>2, <1>3 DEF Safe, PaymentsTypeOK

LEMMA BuyerSafe ==
  ASSUME Safe, NEW b \in Buyers, BuyerStep(b)
  PROVE  Safe'
<1>1. ASSUME NEW o \in Orders, ReceiptRead(b, o)
      PROVE  Safe'
  BY <1>1 DEF ReceiptRead, Safe, PaymentsTypeOK, Addressed, BuyerRequest,
              tables, provider, history
<1>2. ASSUME NEW o \in Orders, NEW g \in BOOLEAN, InitRead(b, o, g)
      PROVE  Safe'
  BY <1>2 DEF InitRead, Safe, PaymentsTypeOK, Addressed, BuyerRequest,
              tables, provider, history
<1>3. CASE InitCreate(b)
  <2> DEFINE o == ini[b].order
             first == IF ini[b].gateway THEN "PROCESSING" ELSE "PENDING"
             next == IF ini[b].gateway THEN [ini[b] EXCEPT !.pc = "attempt"] ELSE IdleBuyer
  <2>1. o \in Orders /\ ini[b] \in BuyerRequest
    BY <1>3 DEF InitCreate, Safe, PaymentsTypeOK, Addressed
  <2>2. first \in PaymentStatus
    BY DEF PaymentStatus
  <2>3. pay' = [pay EXCEPT ![o].status = first] \/ pay' = pay
    BY <1>3 DEF InitCreate
  <2>4. pay' \in [Orders -> Payment]
    <3> HIDE DEF first, o
    <3>1. [pay EXCEPT ![o].status = first] \in [Orders -> Payment]
      BY <2>1, <2>2, FieldTypes
    <3> QED  BY <2>3, <3>1 DEF Safe, PaymentsTypeOK
  <2>5. next \in BuyerRequest /\ (next.pc # "idle" => next.order = o)
    <3> DEFINE i == ini[b]
    <3>1. i \in BuyerRequest
      BY <2>1
    <3> HIDE DEF i
    <3>2. [i EXCEPT !.pc = "attempt"] \in BuyerRequest
          /\ [i EXCEPT !.pc = "attempt"].order = i.order
      BY <3>1 DEF BuyerRequest
    <3> QED  BY <3>2, IdleTypes DEF i
  <2>6. ini' = [ini EXCEPT ![b] = next] \/ ini' = [ini EXCEPT ![b] = IdleBuyer]
    BY <1>3 DEF InitCreate
  <2>7. ini' \in [Buyers -> BuyerRequest] /\ \A c \in Buyers :
          ini'[c].pc # "idle" => ini'[c].order \in Orders
    <3> HIDE DEF next, o
    <3> QED  BY <2>1, <2>5, <2>6, IdleTypes DEF Safe, PaymentsTypeOK, Addressed
  <2> QED
    BY <1>3, <2>4, <2>7 DEF InitCreate, Safe, PaymentsTypeOK, Addressed, provider, history
<1>4. ASSUME NEW a \in Attempts, InitAttempt(b, a)
      PROVE  Safe'
  <2> DEFINE o == ini[b].order
             new == [status |-> "PROCESSING", ref |-> a, code |-> None,
                     processed |-> pay[o].processed]
  <2>1. o \in Orders
    BY <1>4 DEF InitAttempt, Safe, Addressed
  <2>2. pay' \in [Orders -> Payment]
    <3>1. pay[o].processed \in BOOLEAN
      BY <2>1, PayTypes DEF Payment
    <3>2. new \in Payment
      BY <3>1 DEF Payment, PaymentStatus
    <3>3. pay' = [pay EXCEPT ![o] = new]
      BY <1>4 DEF InitAttempt
    <3> HIDE DEF new
    <3> QED  BY <2>1, <3>2, <3>3, PayTypes
  <2>3. ini' \in [Buyers -> BuyerRequest] /\ \A c \in Buyers :
          ini'[c].pc # "idle" => ini'[c].order \in Orders
    BY <1>4, <2>1, IdleTypes DEF InitAttempt, Safe, PaymentsTypeOK, Addressed
  <2> QED
    BY <1>4, <2>1, <2>2, <2>3 DEF InitAttempt, Safe, PaymentsTypeOK, Addressed, history
<1>5. CASE ReceiptWrite(b)
  <2>1. ini[b].order \in Orders
    BY <1>5 DEF ReceiptWrite, Safe, Addressed
  <2>2. pay' \in [Orders -> Payment]
    BY <1>5, <2>1, FieldTypes DEF ReceiptWrite, PaymentStatus
  <2>3. ini' \in [Buyers -> BuyerRequest] /\ \A c \in Buyers :
          ini'[c].pc # "idle" => ini'[c].order \in Orders
    BY <1>5, IdleTypes DEF ReceiptWrite, Safe, PaymentsTypeOK, Addressed
  <2> QED
    BY <1>5, <2>2, <2>3 DEF ReceiptWrite, Safe, PaymentsTypeOK, Addressed, provider, history
<1>6. CASE BuyerGone(b)
  BY <1>6, IdleTypes DEF BuyerGone, Safe, PaymentsTypeOK, Addressed, tables, provider, history
<1> QED  BY <1>1, <1>2, <1>3, <1>4, <1>5, <1>6 DEF BuyerStep

LEMMA ProviderSafe ==
  ASSUME Safe, NEW a \in Attempts, ProviderStep(a)
  PROVE  Safe'
<1>1. CASE ChargeOpened(a)
  BY <1>1 DEF ChargeOpened, Safe, PaymentsTypeOK, Addressed, tables, history
<1>2. ASSUME NEW outcome \in {"paid", "declined"}, ChargeDecided(a, outcome)
      PROVE  Safe'
  BY <1>2 DEF ChargeDecided, Safe, PaymentsTypeOK, Addressed, tables, history
<1>3. CASE CallAnswered(a)
  <2>1. for[a] \in Orders
    BY <1>3 DEF CallAnswered, Safe, Addressed
  <2>2. pay' \in [Orders -> Payment]
    BY <1>3, <2>1, CodeTypes DEF CallAnswered
  <2> QED  BY <1>3, <2>2 DEF CallAnswered, Safe, PaymentsTypeOK, Addressed, history
<1>4. CASE CallGivenUp(a)
  BY <1>4 DEF CallGivenUp, Safe, PaymentsTypeOK, Addressed, tables, history
<1> QED  BY <1>1, <1>2, <1>3, <1>4 DEF ProviderStep

\* The key of a charge that was notified or confirmed.
LEMMA RememberSafe ==
  ASSUME Safe, NEW k \in AllRoutes, NEW r, NEW n,
         Marks(k) => r \in Attempts /\ n \in AllNames, Remember(k, r, n)
  PROVE  redis' \subseteq AllRoutes \X Attempts \X AllNames
  BY DEF Remember, Key, Marks, AllRoutes, AllNames, Safe, PaymentsTypeOK

LEMMA TakeSafe ==
  ASSUME Safe, NEW h \in Confirmers, NEW k \in Webhooks, NEW a \in Attempts,
         NEW n \in Names, NEW w \in AllWords, Receive(h, k, a, n, w)
  PROVE  Safe'
<1> DEFINE new(o) == [pc |-> Decision(k, w, o), route |-> k, order |-> o,
                      ref |-> a, name |-> n, final |-> Decided(a)]
<1>1. PICK o \in Orders : conf' = [conf EXCEPT ![h] = new(o)]
  BY DEF Receive, Take
<1>2. Decision(k, w, o) \in {"mark", "fail", "pay"} /\ Decided(a) \in BOOLEAN
  BY DEF Decision, Decided
<1>3. k \in AllRoutes /\ k \in Routes /\ n \in AllNames
  BY RoutesAssumption DEF Webhooks
<1>4. /\ new(o) \in Confirmation /\ new(o).order = o /\ new(o).route = k
      /\ new(o).ref = a /\ new(o).name = n
  BY <1>2, <1>3 DEF Confirmation
<1> HIDE DEF new
<1> QED
  BY <1>1, <1>3, <1>4 DEF Receive, Safe, PaymentsTypeOK, Addressed, tables, provider, history

LEMMA AnswerSafe ==
  ASSUME Safe, NEW k \in Webhooks, NEW a \in Attempts, NEW n \in Names,
         NEW w \in AllWords, AnswerAtOnce(k, a, n, w)
  PROVE  Safe'
<1>1. k \in AllRoutes /\ n \in AllNames
  BY RoutesAssumption DEF Webhooks
<1>2. redis' \subseteq AllRoutes \X Attempts \X AllNames
  BY <1>1, RememberSafe DEF AnswerAtOnce
<1> QED
  BY <1>2 DEF AnswerAtOnce, Acknowledge, Safe, PaymentsTypeOK, Addressed, history

\* What is neither success nor failure changes nothing: only AppyPay's
\* webhook answers so, and only while the charge is open.
LEMMA PendingStutters ==
  ASSUME NEW k \in Webhooks, NEW a \in Attempts, NEW n \in Names, NEW w \in AllWords,
         AnswerPending(k, a, n, w)
  PROVE  UNCHANGED vars
<1>1. ~ Generic(k) /\ w # "failed" /\ w # "paid" /\ w \in Says(k, a)
  BY DEF AnswerPending, Sends, Fails, Succeeds, Generic
<1>2. ~ Decided(a)
  BY <1>1 DEF Says, Generic, Decided
<1>3. acked' = acked
  BY <1>2 DEF AnswerPending, Acknowledge
<1> QED  BY <1>3 DEF AnswerPending, vars, tables, provider

\* What a notification of the charge a does.
LEMMA NotifyCases ==
  ASSUME NEW a \in Attempts, NotifyStep(a)
  PROVE  \/ UNCHANGED vars
         \/ \E k \in Webhooks, n \in Names, w \in AllWords :
               AnswerAtOnce(k, a, n, w) \/ \E h \in Confirmers : Receive(h, k, a, n, w)
  BY PendingStutters DEF NotifyStep

LEMMA NotifySafe ==
  ASSUME Safe, NEW a \in Attempts, NotifyStep(a)
  PROVE  Safe'
<1>1. CASE UNCHANGED vars
  BY <1>1 DEF vars, tables, provider, history, Safe, PaymentsTypeOK, Addressed
<1> QED  BY <1>1, NotifyCases, TakeSafe, AnswerSafe

\* The end of a handler.
LEMMA FinishSafe ==
  ASSUME Safe, NEW h \in Confirmers, conf[h].pc # "idle", Finish(h)
  PROVE  /\ conf' \in [Confirmers -> Confirmation]
         /\ acked' \subseteq Attempts
         /\ \A g \in Confirmers : conf'[g] = IF g = h THEN IdleConfirmation ELSE conf[g]
<1>1. conf[h].final => conf[h].ref \in Attempts
  BY DEF Safe, Addressed
<1> QED  BY <1>1, IdleTypes DEF Finish, Safe, PaymentsTypeOK

LEMMA ConfirmSafe ==
  ASSUME Safe, NEW h \in Confirmers, ConfirmStep(h)
  PROVE  Safe'
<1> DEFINE o == conf[h].order
<1>1. conf[h].pc # "idle"
  BY DEF ConfirmStep, ConfirmPayment, ConfirmOrder, ConfirmCredit, ConfirmFailed,
         ConfirmMarked
<1>2. /\ o \in Orders /\ conf[h].route \in AllRoutes
      /\ Marks(conf[h].route) => conf[h].ref \in Attempts /\ conf[h].name \in AllNames
  BY <1>1, RoutesAssumption DEF Safe, Addressed
<1>3. Remember(conf[h].route, conf[h].ref, conf[h].name) =>
        redis' \subseteq AllRoutes \X Attempts \X AllNames
  BY <1>2, RememberSafe
<1>4. CASE ConfirmPayment(h)
  <2>1. pay' \in [Orders -> Payment]
    BY <1>2, <1>4, OutcomeTypes DEF ConfirmPayment, PaymentStatus
  <2>2. /\ conf' \in [Confirmers -> Confirmation]
        /\ \A g \in Confirmers : /\ conf'[g].order = conf[g].order
                                 /\ conf'[g].route = conf[g].route
                                 /\ conf'[g].ref = conf[g].ref
                                 /\ conf'[g].name = conf[g].name
                                 /\ conf'[g].final = conf[g].final
                                 /\ g # h => conf'[g] = conf[g]
    BY <1>4, GoesOn DEF ConfirmPayment
  <2>3. recorded' \in [Orders -> Nat]
    BY <1>2, <1>4 DEF ConfirmPayment, Safe, PaymentsTypeOK
  <2> QED
    BY <1>1, <1>4, <2>1, <2>2, <2>3
       DEF ConfirmPayment, Safe, PaymentsTypeOK, Addressed, provider
<1>5. CASE ConfirmOrder(h)
  <2>1. /\ conf' \in [Confirmers -> Confirmation]
        /\ \A g \in Confirmers : /\ conf'[g].order = conf[g].order
                                 /\ conf'[g].route = conf[g].route
                                 /\ conf'[g].ref = conf[g].ref
                                 /\ conf'[g].name = conf[g].name
                                 /\ conf'[g].final = conf[g].final
                                 /\ g # h => conf'[g] = conf[g]
    BY <1>5, GoesOn DEF ConfirmOrder
  <2> QED
    BY <1>1, <1>2, <1>5, <2>1
       DEF ConfirmOrder, Safe, PaymentsTypeOK, Addressed, provider, OrderStatus
<1>6. CASE ConfirmCredit(h)
  <2>1. settled' \in [Orders -> Nat]
    BY <1>2, <1>6 DEF ConfirmCredit, Safe, PaymentsTypeOK
  <2> QED
    BY <1>1, <1>3, <1>6, <2>1, FinishSafe, IdleTypes
       DEF ConfirmCredit, Safe, PaymentsTypeOK, Addressed, history
<1>7. CASE ConfirmFailed(h)
  <2>1. pay' \in [Orders -> Payment]
    BY <1>2, <1>7, OutcomeTypes DEF ConfirmFailed, PaymentStatus
  <2> QED
    BY <1>1, <1>3, <1>7, <2>1, FinishSafe, IdleTypes
       DEF ConfirmFailed, Safe, PaymentsTypeOK, Addressed, history
<1>8. CASE ConfirmMarked(h)
  <2>1. pay' \in [Orders -> Payment]
    <3>1. "PAID" \in PaymentStatus
      BY DEF PaymentStatus
    <3>2. [pay EXCEPT ![o].processed = TRUE] \in [Orders -> Payment]
      BY <1>2, <3>1, FieldTypes
    <3> QED  BY <1>8, <3>2 DEF ConfirmMarked
  <2> QED
    BY <1>1, <1>3, <1>8, <2>1, FinishSafe, IdleTypes
       DEF ConfirmMarked, Safe, PaymentsTypeOK, Addressed, history
<1> QED  BY <1>4, <1>5, <1>6, <1>7, <1>8 DEF ConfirmStep

LEMMA OtherSafe ==
  ASSUME Safe,
         \/ \E h \in Confirmers : Die(h)
         \/ "admin" \in Routes /\ \E h \in Confirmers, o \in Orders : AdminValidate(h, o)
         \/ \E o \in Orders, s \in OrderMoves : OrderMoved(o, s)
         \/ \E o \in Orders : TransferRecorded(o)
         \/ RedisForgets
  PROVE  Safe'
<1>1. ASSUME NEW h \in Confirmers, Die(h)
      PROVE  Safe'
  BY <1>1, IdleTypes DEF Die, Safe, PaymentsTypeOK, Addressed, tables, provider
<1>2. ASSUME "admin" \in Routes, NEW h \in Confirmers, NEW o \in Orders, AdminValidate(h, o)
      PROVE  Safe'
  <2> DEFINE new == [IdleConfirmation EXCEPT !.pc = "pay", !.route = "admin", !.order = o]
  <2>1. /\ new \in Confirmation /\ ~Marks(new.route) /\ new.order = o
        /\ new.route = "admin" /\ ~ new.final
    BY DEF Confirmation, AllRoutes, Marks, IdleConfirmation
  <2>2. conf' = [conf EXCEPT ![h] = new]
    BY <1>2 DEF AdminValidate
  <2> HIDE DEF new
  <2> QED
    BY <1>2, <2>1, <2>2
       DEF AdminValidate, Safe, PaymentsTypeOK, Addressed, tables, provider
<1>3. ASSUME NEW o \in Orders, NEW s \in OrderMoves, OrderMoved(o, s)
      PROVE  Safe'
  BY <1>3, RoutesAssumption DEF OrderMoved, Safe, PaymentsTypeOK, Addressed, provider, history
<1>4. CASE RedisForgets
  BY <1>4 DEF RedisForgets, Safe, PaymentsTypeOK, Addressed, provider, history
<1>5. ASSUME NEW o \in Orders, TransferRecorded(o)
      PROVE  Safe'
  <2>1. pay' \in [Orders -> Payment]
    BY <1>5, CodeTypes DEF TransferRecorded
  <2> QED
    BY <1>5, <2>1
       DEF TransferRecorded, Safe, PaymentsTypeOK, Addressed, provider, history
<1> QED  BY <1>1, <1>2, <1>3, <1>4, <1>5

LEMMA StepSafe == Safe /\ [Next]_vars => Safe'
<1> SUFFICES ASSUME Safe, [Next]_vars PROVE Safe'
  OBVIOUS
<1>1. CASE UNCHANGED vars
  BY <1>1 DEF vars, tables, provider, history, Safe, PaymentsTypeOK, Addressed
<1> QED
  BY <1>1, BuyerSafe, ProviderSafe, NotifySafe, ConfirmSafe, OtherSafe DEF Next

\* Payments, charges, and the local variables of handlers keep their types.
THEOREM PaymentsTyped == Spec => []PaymentsTypeOK
<1>1. Safe => PaymentsTypeOK
  BY DEF Safe
<1> QED  BY <1>1, InitSafe, StepSafe, PTL DEF Spec

-----------------------------------------------------------------------------
(* Nothing is confirmed without cause.                                     *)

Cause(o) == o \in validated \/ \E a \in Attempts : for[a] = o /\ TakenForPaid(a)

\* A reference or a provider id is the one of a charge made for that order.
Linked ==
    \A o \in Orders, a \in Attempts : pay[o].ref = a \/ pay[o].code = a => for[a] = o

\* A handler that confirms an order has the cause on record.
Justified ==
    \A h \in Confirmers :
        conf[h].pc \in {"pay", "order", "credit"} => Cause(conf[h].order)

Sound == Safe /\ Linked /\ Justified /\ Prompted

\* What a cause consists of stays: validations, and what is said of charges.
CausesStay ==
    /\ validated \subseteq validated'
    /\ \A a \in Attempts : for[a] # None => for'[a] = for[a]
    /\ \A a \in Attempts : TakenForPaid(a) => TakenForPaid(a)'

\* The actions of the confirmations, with the handler that takes them.
ConfirmNext(h) ==
    \/ ConfirmStep(h)
    \/ Die(h)
    \/ "admin" \in Routes /\ \E o \in Orders : AdminValidate(h, o)

\* What others do to an order or its payment.
OrderChanged(o) == TransferRecorded(o) \/ \E s \in OrderMoves : OrderMoved(o, s)

\* The state of a charge only moves on, and what is said of an open charge may
\* be said of a decided one as well.
Onward(a) ==
    \/ charge'[a] = charge[a]
    \/ charge[a] = "sent" /\ charge'[a] = "open"
    \/ charge[a] = "open" /\ charge'[a] \in {"paid", "declined"}

LEMMA TakenStays ==
  ASSUME NEW a \in Attempts, Onward(a), TakenForPaid(a)
  PROVE  TakenForPaid(a)'
<1>1. PICK k \in Webhooks : \E w \in Says(k, a) : Succeeds(k, w)
  BY DEF TakenForPaid
<1>2. PICK w \in Says(k, a) : Succeeds(k, w)
  BY <1>1
<1>3. w \in Says(k, a)'
  <2>1. CASE charge'[a] = charge[a]
    BY <1>2, <2>1 DEF Says
  <2>2. CASE charge[a] = "sent"
    BY <1>2, <2>2 DEF Says
  <2>3. CASE charge[a] = "open" /\ charge'[a] \in {"paid", "declined"}
    <3>1. CASE k = "generic"
      BY <1>2, <2>3, <3>1 DEF Says
    <3>2. CASE k = "alias"
      BY <1>2, <2>3, <3>2 DEF Says
    <3>3. CASE k \notin {"generic", "alias"}
      BY <1>2, <2>3, <3>3 DEF Says, Succeeds, Generic
    <3> QED  BY <3>1, <3>2, <3>3
  <2> QED  BY <2>1, <2>2, <2>3 DEF Onward
<1> QED  BY <1>2, <1>3 DEF TakenForPaid

\* No order is lost, no validation, and every charge moves on.
Further ==
    /\ validated \subseteq validated'
    /\ \A a \in Attempts : for[a] # None => for'[a] = for[a]
    /\ \A a \in Attempts : Onward(a)

LEMMA FurtherStep ==
  ASSUME Safe, [Next]_vars
  PROVE  Further
<1>1. ASSUME NEW b \in Buyers, BuyerStep(b) PROVE Further
  BY <1>1 DEF BuyerStep, ReceiptRead, InitRead, InitCreate, InitAttempt, ReceiptWrite,
              BuyerGone, Further, Onward, provider, history, Safe, PaymentsTypeOK
<1>2. ASSUME NEW a \in Attempts, ProviderStep(a) PROVE Further
  BY <1>2 DEF ProviderStep, ChargeOpened, ChargeDecided, CallAnswered, CallGivenUp,
              Further, Onward, history, Safe, PaymentsTypeOK
<1>3. CASE UNCHANGED vars
  BY <1>3 DEF vars, Further, Onward, provider, history
<1>4. ASSUME NEW a \in Attempts, NotifyStep(a) PROVE Further
  BY <1>3, <1>4, NotifyCases DEF AnswerAtOnce, Receive, Further, Onward, provider, history
<1>5. ASSUME NEW h \in Confirmers, ConfirmNext(h) PROVE Further
  BY <1>5 DEF ConfirmNext, ConfirmStep, ConfirmPayment, ConfirmOrder, ConfirmCredit,
              ConfirmFailed, ConfirmMarked, Finish, Die, AdminValidate, Further,
              Onward, provider, history
<1>6. ASSUME NEW o \in Orders, OrderChanged(o) PROVE Further
  BY <1>6 DEF OrderChanged, OrderMoved, TransferRecorded, Further, Onward, provider, history
<1>7. CASE RedisForgets
  BY <1>7 DEF RedisForgets, Further, Onward, provider, history
<1> QED
  BY <1>1, <1>2, <1>3, <1>4, <1>5, <1>6, <1>7 DEF Next, ConfirmNext, OrderChanged

LEMMA CausesStayStep ==
  ASSUME Safe, [Next]_vars
  PROVE  CausesStay
  BY FurtherStep, TakenStays DEF Further, CausesStay

LEMMA CauseStays ==
  ASSUME CausesStay, NEW o \in Orders, Cause(o)
  PROVE  Cause(o)'
<1>1. CASE o \in validated
  BY <1>1 DEF CausesStay, Cause
<1>2. ASSUME NEW a \in Attempts, for[a] = o, TakenForPaid(a) PROVE Cause(o)'
  <2>1. for'[a] = o /\ TakenForPaid(a)'
    BY <1>2, NoneAssumption DEF CausesStay
  <2> QED  BY <2>1 DEF Cause
<1> QED  BY <1>1, <1>2 DEF Cause

\* Statuses and marks are written without a change of the reference or the id.
SameCharge ==
    \A o \in Orders : pay'[o].ref = pay[o].ref /\ pay'[o].code = pay[o].code

LEMMA SameChargeWrites ==
  ASSUME Safe, NEW o \in Orders, NEW s,
         \/ pay' = [pay EXCEPT ![o].status = s]
         \/ pay' = [pay EXCEPT ![o].processed = TRUE]
         \/ \E k : Outcome(o, s, k)
  PROVE  SameCharge
<1> DEFINE p == pay[o]
           same(q) == q.ref = p.ref /\ q.code = p.code
<1>1. p \in Payment
  BY PayTypes
<1>2. ASSUME NEW m
      PROVE  /\ same([p EXCEPT !.status = s])
             /\ same([p EXCEPT !.processed = m])
             /\ same([p EXCEPT !.status = s, !.processed = m])
  <2> HIDE DEF p
  <2> QED  BY <1>1 DEF Payment
<1>3. PICK q : pay' = [pay EXCEPT ![o] = q] /\ same(q)
  <2>1. CASE pay' = [pay EXCEPT ![o].status = s]
    BY <1>2, <2>1
  <2>2. CASE pay' = [pay EXCEPT ![o].processed = TRUE]
    BY <1>2, <2>2
  <2>3. ASSUME NEW k, Outcome(o, s, k)
        PROVE  \E r : pay' = [pay EXCEPT ![o] = r] /\ same(r)
    <3> DEFINE m == pay[o].processed \/ Marks(k)
               new == [p EXCEPT !.status = s, !.processed = m]
    <3>1. same(new)
      BY <1>2
    <3>2. pay' = [pay EXCEPT ![o] = new]
      BY <2>3 DEF Outcome
    <3> HIDE DEF new, same
    <3> QED  BY <3>1, <3>2
  <2> QED  BY <2>1, <2>2, <2>3
<1> QED  BY <1>3 DEF SameCharge, Safe, PaymentsTypeOK

LEMMA LinkedStep ==
  ASSUME Safe, Linked, [Next]_vars
  PROVE  Linked'
<1>1. CASE SameCharge
  <2>1. \A a \in Attempts : for[a] # None => for'[a] = for[a]
    BY CausesStayStep DEF CausesStay
  <2> QED  BY <1>1, <2>1, NoneAssumption DEF SameCharge, Linked
<1>2. ASSUME pay' = pay PROVE SameCharge
  BY <1>2 DEF SameCharge
<1>3. ASSUME NEW b \in Buyers, InitCreate(b) \/ ReceiptWrite(b) PROVE SameCharge
  <2>1. ini[b].order \in Orders
    BY <1>3 DEF InitCreate, ReceiptWrite, Safe, Addressed
  <2> QED  BY <1>2, <1>3, <2>1, SameChargeWrites DEF InitCreate, ReceiptWrite
<1>4. ASSUME NEW b \in Buyers, NEW a \in Attempts, InitAttempt(b, a) PROVE Linked'
  <2>1. ini[b].order \in Orders
    BY <1>4 DEF InitAttempt, Safe, Addressed
  <2> QED
    BY <1>4, <2>1, NoneAssumption DEF InitAttempt, Linked, Safe, PaymentsTypeOK
<1>5. ASSUME NEW b \in Buyers, BuyerStep(b) PROVE SameCharge \/ Linked'
  BY <1>2, <1>3, <1>4, <1>5
     DEF BuyerStep, ReceiptRead, InitRead, BuyerGone, tables
<1>6. ASSUME NEW a \in Attempts, CallAnswered(a) PROVE Linked'
  <2>1. for[a] \in Orders
    BY <1>6 DEF CallAnswered, Safe, Addressed
  <2>2. \A o \in Orders : /\ pay'[o].ref = pay[o].ref
                          /\ pay'[o].code = IF o = for[a] THEN a ELSE pay[o].code
    <3> DEFINE p == pay[for[a]]
               q == [p EXCEPT !.code = a]
    <3>1. p \in Payment
      BY <2>1, PayTypes
    <3>2. q.ref = p.ref /\ q.code = a
      <4> HIDE DEF p
      <4> QED  BY <3>1 DEF Payment
    <3>3. pay' = [pay EXCEPT ![for[a]] = q]
      BY <1>6 DEF CallAnswered
    <3> HIDE DEF q
    <3> QED  BY <2>1, <3>2, <3>3 DEF Safe, PaymentsTypeOK
  <2> QED  BY <1>6, <2>1, <2>2 DEF CallAnswered, Linked
<1>7. ASSUME NEW a \in Attempts, ProviderStep(a) PROVE SameCharge \/ Linked'
  BY <1>2, <1>6, <1>7 DEF ProviderStep, ChargeOpened, ChargeDecided, CallGivenUp, tables
<1>8. ASSUME NEW a \in Attempts, NotifyStep(a) PROVE SameCharge
  BY <1>2, <1>8, NotifyCases DEF AnswerAtOnce, Receive, vars, tables
<1>9. ASSUME NEW h \in Confirmers, ConfirmPayment(h) \/ ConfirmFailed(h) \/ ConfirmMarked(h)
      PROVE  SameCharge
  <2>1. conf[h].order \in Orders
    BY <1>9 DEF ConfirmPayment, ConfirmFailed, ConfirmMarked, Safe, Addressed
  <2> QED
    BY <1>9, <2>1, SameChargeWrites DEF ConfirmPayment, ConfirmFailed, ConfirmMarked
<1>10. ASSUME NEW h \in Confirmers, ConfirmNext(h) PROVE SameCharge
  BY <1>2, <1>9, <1>10
     DEF ConfirmNext, ConfirmStep, ConfirmOrder, ConfirmCredit, Die, AdminValidate, tables
<1>11. ASSUME NEW o \in Orders, OrderChanged(o) PROVE SameCharge \/ Linked'
  <2>1. ASSUME NEW s \in OrderMoves, OrderMoved(o, s) PROVE SameCharge
    BY <1>2, <2>1 DEF OrderMoved
  <2>2. ASSUME TransferRecorded(o) PROVE Linked'
    <3>1. /\ for' = for
          /\ \A x \in Orders : /\ pay'[x].ref = pay[x].ref
                               /\ pay'[x].code \in {pay[x].code, None}
      <4> DEFINE p == pay[o]
                 q == [p EXCEPT !.code = None]
      <4>1. q.ref = p.ref /\ q.code = None
        <5>1. p \in Payment
          BY PayTypes
        <5> HIDE DEF p
        <5> QED  BY <5>1 DEF Payment
      <4>2. pay' = [pay EXCEPT ![o] = q] /\ for' = for
        BY <2>2 DEF TransferRecorded, provider
      <4> HIDE DEF q
      <4> QED  BY <4>1, <4>2 DEF Safe, PaymentsTypeOK
    <3> QED  BY <3>1, NoneAssumption DEF Linked
  <2> QED  BY <1>11, <2>1, <2>2 DEF OrderChanged
<1>12. CASE RedisForgets \/ UNCHANGED vars
  BY <1>1, <1>2, <1>12 DEF RedisForgets, vars, tables
<1> QED
  BY <1>1, <1>5, <1>7, <1>8, <1>10, <1>11, <1>12 DEF Next, ConfirmNext, OrderChanged

\* A notification that is not taken for a failure is taken for a success, of a
\* charge for the order whose payment it finds.
LEMMA ReceiveCause ==
  ASSUME Linked, NEW k \in Webhooks, NEW a \in Attempts, NEW n \in Names, NEW w \in AllWords,
         NEW o \in Orders, Sends(k, a, n, w), Fails(k, w) \/ Succeeds(k, w),
         Finds(k, a, n, o), Decision(k, w, o) = "pay"
  PROVE  Cause(o)
<1>1. Succeeds(k, w) /\ w \in Says(k, a)
  BY DEF Decision, Sends
<1>2. TakenForPaid(a)
  BY <1>1 DEF TakenForPaid
<1>3. for[a] = o
  BY DEF Finds, Linked
<1> QED  BY <1>2, <1>3 DEF Cause

\* Each handler that confirms after the step had its order and cause before,
\* or gets an order with a cause in this very step.
LEMMA ConfirmingStep ==
  ASSUME Sound, [Next]_vars, NEW h \in Confirmers,
         conf'[h].pc \in {"pay", "order", "credit"}
  PROVE  /\ conf'[h].order \in Orders
         /\ Cause(conf'[h].order) \/ conf'[h].order \in validated'
<1> DEFINE Goal == /\ conf'[h].order \in Orders
                   /\ Cause(conf'[h].order) \/ conf'[h].order \in validated'
           busy == {"pay", "order", "credit"}
<1>1. CASE conf[h].pc \in busy /\ conf'[h].order = conf[h].order
  BY <1>1 DEF Sound, Justified, Safe, Addressed
<1>2. ASSUME conf' = conf PROVE Goal
  BY <1>1, <1>2
<1>3. ASSUME NEW g \in Confirmers, conf' = [conf EXCEPT ![g] = IdleConfirmation] PROVE Goal
  BY <1>1, <1>3, IdleTypes DEF Sound, Safe, PaymentsTypeOK
<1>4. ASSUME NEW g \in Confirmers, ConfirmPayment(g) \/ ConfirmOrder(g) PROVE Goal
  BY <1>1, <1>4 DEF ConfirmPayment, ConfirmOrder, Sound, Safe, PaymentsTypeOK, Confirmation
<1>5. ASSUME NEW g \in Confirmers, ConfirmNext(g) PROVE Goal
  <2>1. ASSUME NEW o \in Orders, AdminValidate(g, o) PROVE Goal
    BY <1>1, <2>1 DEF AdminValidate, Sound, Safe, PaymentsTypeOK
  <2> QED
    BY <1>3, <1>4, <1>5, <2>1
       DEF ConfirmNext, ConfirmStep, ConfirmCredit, ConfirmFailed, ConfirmMarked, Finish, Die
<1>6. ASSUME NEW a \in Attempts, NEW k \in Webhooks, NEW n \in Names, NEW w \in AllWords,
             NEW g \in Confirmers, Receive(g, k, a, n, w)
      PROVE  Goal
  <2> DEFINE new(o) == [pc |-> Decision(k, w, o), route |-> k, order |-> o,
                        ref |-> a, name |-> n, final |-> Decided(a)]
  <2>1. PICK o \in Orders :
          /\ Finds(k, a, n, o)
          /\ conf' = [conf EXCEPT ![g] = new(o)]
    BY <1>6 DEF Receive, Take
  <2>2. Decision(k, w, o) = "pay" => Cause(o)
    BY <1>6, <2>1, ReceiveCause DEF Receive, Take, Sound
  <2>3. Decision(k, w, o) \in {"mark", "fail", "pay"}
    BY DEF Decision
  <2>4. new(o).pc = Decision(k, w, o) /\ new(o).order = o
    OBVIOUS
  <2> HIDE DEF new
  <2> QED
    BY <1>1, <2>1, <2>2, <2>3, <2>4 DEF Sound, Safe, PaymentsTypeOK
<1>7. ASSUME NEW a \in Attempts, NotifyStep(a) PROVE Goal
  BY <1>2, <1>6, <1>7, NotifyCases DEF AnswerAtOnce, vars
<1> QED
  BY <1>2, <1>5, <1>7
     DEF Next, ConfirmNext, vars, BuyerStep, ReceiptRead, InitRead, InitCreate, InitAttempt,
         ReceiptWrite, BuyerGone, ProviderStep, ChargeOpened, ChargeDecided, CallAnswered,
         CallGivenUp, OrderMoved, TransferRecorded, RedisForgets

LEMMA JustifiedStep ==
  ASSUME Sound, [Next]_vars
  PROVE  Justified'
<1>1. CausesStay
  BY CausesStayStep DEF Sound
<1>2. ASSUME NEW h \in Confirmers, conf'[h].pc \in {"pay", "order", "credit"},
             NEW o \in Orders, o = conf'[h].order
      PROVE  Cause(o)'
  BY <1>1, <1>2, ConfirmingStep, CauseStays DEF Cause
<1>3. ASSUME NEW h \in Confirmers, conf'[h].pc \in {"pay", "order", "credit"}
      PROVE  \E o \in Orders : o = conf'[h].order
  BY <1>3, ConfirmingStep
<1> QED  BY <1>2, <1>3 DEF Justified, Cause

LEMMA PromptedStep ==
  ASSUME Sound, [Next]_vars
  PROVE  Prompted'
<1>1. CausesStay
  BY CausesStayStep DEF Sound
<1>2. ASSUME NEW o \in Orders,
             recorded'[o] > 0 \/ settled'[o] > 0 \/ o \in orderPaid'
      PROVE  Cause(o)
  <2>1. CASE recorded[o] > 0 \/ settled[o] > 0 \/ o \in orderPaid
    BY <2>1 DEF Sound, Prompted, Cause
  <2>2. ASSUME UNCHANGED <<recorded, settled, orderPaid>> PROVE Cause(o)
    BY <1>2, <2>1, <2>2
  <2>3. ASSUME NEW h \in Confirmers,
               ConfirmPayment(h) \/ ConfirmOrder(h) \/ ConfirmCredit(h)
        PROVE  Cause(o)
    <3>1. conf[h].order \in Orders /\ Cause(conf[h].order)
      BY <2>3 DEF ConfirmPayment, ConfirmOrder, ConfirmCredit, Sound, Justified, Safe, Addressed
    <3>2. CASE o = conf[h].order
      BY <3>1, <3>2
    <3>3. ASSUME o # conf[h].order
          PROVE  /\ recorded'[o] = recorded[o] /\ settled'[o] = settled[o]
                 /\ o \in orderPaid' => o \in orderPaid
      BY <2>3, <3>3 DEF ConfirmPayment, ConfirmOrder, ConfirmCredit, history,
                        Sound, Safe, PaymentsTypeOK
    <3> QED  BY <1>2, <2>1, <3>2, <3>3
  <2>4. ASSUME NEW h \in Confirmers, ConfirmNext(h) PROVE Cause(o)
    BY <2>2, <2>3, <2>4 DEF ConfirmNext, ConfirmStep, ConfirmFailed, ConfirmMarked, Die,
                            AdminValidate, tables, history
  <2>5. ASSUME NEW a \in Attempts, NotifyStep(a) PROVE Cause(o)
    BY <2>2, <2>5, NotifyCases DEF AnswerAtOnce, Receive, vars, tables, history
  <2> QED
    BY <2>2, <2>4, <2>5
       DEF Next, ConfirmNext, vars, tables, history, BuyerStep, ReceiptRead, InitRead,
           InitCreate, InitAttempt, ReceiptWrite, BuyerGone, ProviderStep, ChargeOpened,
           ChargeDecided, CallAnswered, CallGivenUp, OrderMoved, TransferRecorded,
           RedisForgets
<1>3. ASSUME NEW o \in Orders, Cause(o) PROVE Cause(o)'
  BY <1>1, <1>3, CauseStays
<1>4. ASSUME NEW o \in Orders, Cause(o)'
      PROVE  o \in validated' \/ \E a \in Attempts : for'[a] = o /\ TakenForPaid(a)'
  BY <1>4 DEF Cause
<1> QED  BY <1>2, <1>3, <1>4 DEF Prompted

\* Prompted, for every number of orders, attempts and calls at one time, on
\* every set of routes and whatever the callers of the generic webhook say: a
\* payment is recorded, its order set to PAID and a credit settled only after a
\* validation, or for a charge of that very order of which some webhook is told
\* what it takes for a success.
THEOREM ConfirmationsPrompted == Spec => []Prompted
<1>1. Init => Sound
  <2> SUFFICES ASSUME Init PROVE Sound
    OBVIOUS
  <2>1. Safe
    BY InitSafe
  <2>2. Linked /\ Justified
    BY NoneAssumption DEF Init, Linked, Justified, NoPayment, IdleConfirmation
  <2>3. Prompted
    BY DEF Init, Prompted
  <2> QED  BY <2>1, <2>2, <2>3 DEF Sound
<1>2. Sound /\ [Next]_vars => Sound'
  BY StepSafe, LinkedStep, JustifiedStep, PromptedStep DEF Sound
<1>3. Sound => Prompted
  BY DEF Sound
<1> QED  BY <1>1, <1>2, <1>3, PTL DEF Spec

\* The generic webhook is told the listed words only, and AppyPay's payloads
\* do not get to it (docs/API_CONTRACT.md:269).
Listed == "alias" \notin Routes /\ \A a \in Attempts : Words[a] \subseteq {"paid", "failed"}

\* What the API contract promises for such callers: an order, its payment or
\* its credit is confirmed only after a validation or once a charge made for
\* that very order was paid.
Earned ==
    \A o \in Orders :
        recorded[o] > 0 \/ settled[o] > 0 \/ o \in orderPaid =>
          o \in validated \/ \E a \in Attempts : for[a] = o /\ charge[a] = "paid"

\* Earned, which the handlers keep only as far as their callers are Listed.
THEOREM ConfirmationsEarned ==
  ASSUME Listed
  PROVE  Spec => []Earned
<1>1. ASSUME NEW a \in Attempts, TakenForPaid(a) PROVE charge[a] = "paid"
  <2>1. PICK k \in Webhooks : \E w \in Says(k, a) : Succeeds(k, w)
    BY <1>1 DEF TakenForPaid
  <2>2. PICK w \in Says(k, a) : Succeeds(k, w)
    BY <2>1
  <2>3. k # "alias" /\ Words[a] \subseteq {"paid", "failed"}
    BY DEF Listed, Webhooks
  <2> QED  BY <2>2, <2>3 DEF Says, Succeeds, Generic
<1>2. Prompted => Earned
  BY <1>1 DEF Prompted, Earned
<1> QED  BY <1>2, ConfirmationsPrompted, PTL

-----------------------------------------------------------------------------
(* The books balance.                                                      *)

\* The handlers that recorded a payment of o and have its credit still to do.
CreditingIn(c, o) == {h \in Confirmers : c[h].order = o /\ c[h].pc \in {"order", "credit"}}

Balanced(c, o, s, r, f) ==
    /\ IsFiniteSet(CreditingIn(c, o))
    /\ s + Cardinality(CreditingIn(c, o)) <= r
    /\ f = 0 => s + Cardinality(CreditingIn(c, o)) = r

\* The credit comes after the status of the order.
PaidFirst ==
    /\ \A o \in Orders : settled[o] > 0 => o \in orderPaid
    /\ \A h \in Confirmers : conf[h].pc = "credit" => conf[h].order \in orderPaid

Books ==
    /\ Safe
    /\ \A o \in Orders : Balanced(conf, o, settled[o], recorded[o], faults)
    /\ PaidFirst

LEMMA BooksMeaning == Books => BooksBalance
<1> SUFFICES ASSUME Books, NEW o \in Orders
             PROVE  /\ settled[o] + Cardinality(Crediting(o)) <= recorded[o]
                    /\ faults = 0 => settled[o] + Cardinality(Crediting(o)) = recorded[o]
                    /\ settled[o] > 0 => o \in orderPaid
  BY DEF BooksBalance
<1>1. Crediting(o) = CreditingIn(conf, o)
  BY DEF Crediting, CreditingIn
<1> QED  BY <1>1 DEF Books, Balanced, PaidFirst

LEMMA BooksInit == Init => Books
<1> SUFFICES ASSUME Init PROVE Books
  OBVIOUS
<1>1. \A o \in Orders : CreditingIn(conf, o) = {}
  BY DEF Init, CreditingIn, IdleConfirmation
<1>2. \A o \in Orders : settled[o] = 0 /\ recorded[o] = 0
  BY DEF Init
<1>3. IsFiniteSet({}) /\ Cardinality({}) = 0
  BY FS_EmptySet
<1>4. PaidFirst
  BY <1>2 DEF Init, PaidFirst, IdleConfirmation
<1> QED  BY <1>1, <1>2, <1>3, <1>4, InitSafe DEF Books, Balanced

\* A step that neither records nor credits: the handlers under way are the
\* same, or one of them died.
LEMMA BooksKept ==
  ASSUME Books, NEW o \in Orders,
         settled'[o] = settled[o], recorded'[o] = recorded[o],
         \/ faults' = faults /\ CreditingIn(conf', o) = CreditingIn(conf, o)
         \/ faults' # 0 /\ CreditingIn(conf', o) \subseteq CreditingIn(conf, o)
  PROVE  Balanced(conf', o, settled'[o], recorded'[o], faults')
<1> DEFINE c == CreditingIn(conf, o)
           d == CreditingIn(conf', o)
<1>1. IsFiniteSet(c) /\ IsFiniteSet(d) /\ Cardinality(d) <= Cardinality(c)
  BY FS_Subset DEF Books, Balanced
<1>2. Cardinality(c) \in Nat /\ Cardinality(d) \in Nat
  BY <1>1, FS_CardinalityType
<1>3. settled[o] \in Nat /\ recorded[o] \in Nat
  BY DEF Books, Safe, PaymentsTypeOK
<1>4. /\ settled[o] + Cardinality(c) <= recorded[o]
      /\ faults = 0 => settled[o] + Cardinality(c) = recorded[o]
  BY DEF Books, Balanced
<1>5. (faults' = faults /\ d = c) \/ faults' # 0
  OBVIOUS
<1> HIDE DEF c, d
<1>6. settled[o] + Cardinality(d) <= recorded[o]
  BY <1>1, <1>2, <1>3, <1>4
<1>7. faults' = 0 => settled[o] + Cardinality(d) = recorded[o]
  BY <1>4, <1>5
<1> QED  BY <1>1, <1>6, <1>7 DEF Balanced, d

LEMMA BooksRecord ==
  ASSUME Books, NEW h \in Confirmers, ConfirmPayment(h)
  PROVE  Books'
<1> DEFINE p == conf[h].order
<1>1. p \in Orders /\ conf[h].pc = "pay"
  BY DEF ConfirmPayment, Books, Safe, Addressed
<1>2. /\ conf' = [conf EXCEPT ![h].pc = "order"]
      /\ recorded' = [recorded EXCEPT ![p] = @ + 1]
      /\ settled' = settled /\ faults' = faults /\ orderPaid' = orderPaid
  BY DEF ConfirmPayment
<1>3. \A g \in Confirmers : /\ g # h => conf'[g] = conf[g]
                            /\ conf'[h].pc = "order" /\ conf'[h].order = p
  BY <1>2 DEF Books, Safe, PaymentsTypeOK, Confirmation
<1>4. /\ recorded'[p] = recorded[p] + 1
      /\ \A o \in Orders : o # p => recorded'[o] = recorded[o]
  BY <1>1, <1>2 DEF Books, Safe, PaymentsTypeOK
<1> HIDE DEF p
<1>5. ASSUME NEW o \in Orders
      PROVE  Balanced(conf', o, settled'[o], recorded'[o], faults')
  <2>1. CASE o # p
    <3>1. CreditingIn(conf', o) = CreditingIn(conf, o)
      BY <1>1, <1>3, <2>1 DEF CreditingIn, p
    <3> QED  BY <1>2, <1>4, <2>1, <3>1, BooksKept
  <2>2. CASE o = p
    <3> DEFINE c == CreditingIn(conf, p)
    <3>1. h \notin c /\ CreditingIn(conf', p) = c \cup {h}
      BY <1>1, <1>3 DEF CreditingIn
    <3>2. IsFiniteSet(c)
      BY <1>1 DEF Books, Balanced
    <3>3. IsFiniteSet(c \cup {h}) /\ Cardinality(c \cup {h}) = Cardinality(c) + 1
          /\ Cardinality(c) \in Nat
      BY <3>1, <3>2, FS_AddElement, FS_CardinalityType
    <3>4. settled[p] \in Nat /\ recorded[p] \in Nat
      BY <1>1 DEF Books, Safe, PaymentsTypeOK
    <3>5. /\ settled[p] + Cardinality(c) <= recorded[p]
          /\ faults = 0 => settled[p] + Cardinality(c) = recorded[p]
      BY <1>1 DEF Books, Balanced
    <3> HIDE DEF c
    <3>6. /\ settled[p] + Cardinality(c \cup {h}) <= recorded[p] + 1
          /\ faults = 0 => settled[p] + Cardinality(c \cup {h}) = recorded[p] + 1
      BY <3>3, <3>4, <3>5
    <3> QED  BY <1>2, <1>4, <2>2, <3>1, <3>3, <3>6 DEF Balanced
  <2> QED  BY <2>1, <2>2
<1>6. PaidFirst'
  BY <1>2, <1>3 DEF Books, PaidFirst
<1>7. Safe'
  BY ConfirmSafe DEF Books, ConfirmStep
<1> QED  BY <1>5, <1>6, <1>7 DEF Books

LEMMA BooksCredit ==
  ASSUME Books, NEW h \in Confirmers, ConfirmCredit(h)
  PROVE  Books'
<1> DEFINE p == conf[h].order
<1>1. p \in Orders /\ conf[h].pc = "credit" /\ p \in orderPaid
  BY DEF ConfirmCredit, Books, Safe, Addressed, PaidFirst
<1>2. /\ conf' = [conf EXCEPT ![h] = IdleConfirmation]
      /\ settled' = [settled EXCEPT ![p] = @ + 1]
      /\ recorded' = recorded /\ faults' = faults /\ orderPaid' = orderPaid
  BY DEF ConfirmCredit, Finish, history
<1>3. \A g \in Confirmers : /\ g # h => conf'[g] = conf[g]
                            /\ conf'[h].pc = "idle"
  BY <1>2, IdleTypes DEF Books, Safe, PaymentsTypeOK
<1>4. /\ settled'[p] = settled[p] + 1
      /\ \A o \in Orders : o # p => settled'[o] = settled[o]
  BY <1>1, <1>2 DEF Books, Safe, PaymentsTypeOK
<1> HIDE DEF p
<1>5. ASSUME NEW o \in Orders
      PROVE  Balanced(conf', o, settled'[o], recorded'[o], faults')
  <2>1. CASE o # p
    <3>1. CreditingIn(conf', o) = CreditingIn(conf, o)
      BY <1>1, <1>3, <2>1 DEF CreditingIn, p
    <3> QED  BY <1>2, <1>4, <2>1, <3>1, BooksKept
  <2>2. CASE o = p
    <3> DEFINE c == CreditingIn(conf, p)
    <3>1. h \in c /\ CreditingIn(conf', p) = c \ {h}
      BY <1>1, <1>3 DEF CreditingIn, p
    <3>2. IsFiniteSet(c)
      BY <1>1 DEF Books, Balanced
    <3>3. IsFiniteSet(c \ {h}) /\ Cardinality(c \ {h}) = Cardinality(c) - 1
          /\ Cardinality(c) \in Nat
      BY <3>1, <3>2, FS_RemoveElement, FS_CardinalityType
    <3>4. settled[p] \in Nat /\ recorded[p] \in Nat
      BY <1>1 DEF Books, Safe, PaymentsTypeOK
    <3>5. /\ settled[p] + Cardinality(c) <= recorded[p]
          /\ faults = 0 => settled[p] + Cardinality(c) = recorded[p]
      BY <1>1 DEF Books, Balanced
    <3> HIDE DEF c
    <3>6. /\ (settled[p] + 1) + Cardinality(c \ {h}) <= recorded[p]
          /\ faults = 0 => (settled[p] + 1) + Cardinality(c \ {h}) = recorded[p]
      BY <3>3, <3>4, <3>5
    <3> QED  BY <1>2, <1>4, <2>2, <3>1, <3>3, <3>6 DEF Balanced
  <2> QED  BY <2>1, <2>2
<1>6. PaidFirst'
  BY <1>1, <1>2, <1>3, <1>4 DEF Books, PaidFirst
<1>7. Safe'
  BY ConfirmSafe DEF Books, ConfirmStep
<1> QED  BY <1>5, <1>6, <1>7 DEF Books

\* Every other step leaves both figures alone, starts a handler before its
\* payment, or ends one.
LEMMA BooksElsewhere ==
  ASSUME Books, Safe', settled' = settled, recorded' = recorded,
         orderPaid \subseteq orderPaid',
         \/ faults' = faults /\ \A h \in Confirmers :
              \/ conf'[h] = conf[h]
              \/ {conf[h].pc, conf'[h].pc} \cap {"order", "credit"} = {}
              \/ /\ conf[h].pc = "order" /\ conf'[h].pc = "credit"
                 /\ conf'[h].order = conf[h].order /\ conf[h].order \in orderPaid'
         \/ faults' # 0 /\ \A h \in Confirmers : conf'[h] = conf[h] \/ conf'[h].pc = "idle"
  PROVE  Books'
<1>1. ASSUME NEW o \in Orders
      PROVE  Balanced(conf', o, settled'[o], recorded'[o], faults')
  <2>1. \/ faults' = faults /\ CreditingIn(conf', o) = CreditingIn(conf, o)
        \/ faults' # 0 /\ CreditingIn(conf', o) \subseteq CreditingIn(conf, o)
    BY DEF CreditingIn
  <2> QED  BY <2>1, BooksKept
<1>2. PaidFirst'
  BY DEF Books, PaidFirst
<1> QED  BY <1>1, <1>2 DEF Books

LEMMA BooksStep ==
  ASSUME Books, [Next]_vars
  PROVE  Books'
<1>1. Safe'
  BY StepSafe DEF Books
<1>2. ASSUME UNCHANGED <<conf, settled, recorded, faults, orderPaid>> PROVE Books'
  BY <1>1, <1>2, BooksElsewhere
<1>3. ASSUME NEW h \in Confirmers, ConfirmOrder(h) PROVE Books'
  <2>1. /\ conf[h].pc = "order" /\ conf' = [conf EXCEPT ![h].pc = "credit"]
        /\ orderPaid' = orderPaid \cup {conf[h].order}
        /\ UNCHANGED <<settled, recorded, faults>>
    BY <1>3 DEF ConfirmOrder
  <2>2. /\ conf'[h].pc = "credit" /\ conf'[h].order = conf[h].order
        /\ \A g \in Confirmers : g # h => conf'[g] = conf[g]
    BY <2>1 DEF Books, Safe, PaymentsTypeOK, Confirmation
  <2> QED  BY <1>1, <2>1, <2>2, BooksElsewhere
<1>4. ASSUME NEW h \in Confirmers, ConfirmFailed(h) \/ ConfirmMarked(h) PROVE Books'
  <2>1. /\ conf[h].pc \in {"fail", "mark"} /\ conf' = [conf EXCEPT ![h] = IdleConfirmation]
        /\ UNCHANGED <<settled, recorded, faults, orderPaid>>
    BY <1>4 DEF ConfirmFailed, ConfirmMarked, Finish, history
  <2>2. /\ conf'[h].pc = "idle"
        /\ \A g \in Confirmers : g # h => conf'[g] = conf[g]
    BY <2>1, IdleTypes DEF Books, Safe, PaymentsTypeOK
  <2>3. \A g \in Confirmers : \/ conf'[g] = conf[g]
                              \/ {conf[g].pc, conf'[g].pc} \cap {"order", "credit"} = {}
    BY <2>1, <2>2
  <2> QED  BY <1>1, <2>1, <2>3, BooksElsewhere
<1>5. ASSUME NEW h \in Confirmers, Die(h) PROVE Books'
  <2>1. /\ conf' = [conf EXCEPT ![h] = IdleConfirmation] /\ faults' = faults + 1
        /\ UNCHANGED <<settled, recorded, orderPaid>>
    BY <1>5 DEF Die, tables
  <2>2. faults' # 0 /\ \A g \in Confirmers : conf'[g] = conf[g] \/ conf'[g].pc = "idle"
    BY <2>1, IdleTypes DEF Books, Safe, PaymentsTypeOK
  <2> QED  BY <1>1, <2>1, <2>2, BooksElsewhere
<1>6. ASSUME NEW h \in Confirmers, NEW o \in Orders, AdminValidate(h, o) PROVE Books'
  <2>1. /\ conf[h].pc = "idle" /\ UNCHANGED <<settled, recorded, faults, orderPaid>>
        /\ \A g \in Confirmers : g # h => conf'[g] = conf[g]
        /\ conf'[h].pc = "pay"
    BY <1>6 DEF AdminValidate, IdleConfirmation, tables, Books, Safe, PaymentsTypeOK
  <2>2. \A g \in Confirmers : \/ conf'[g] = conf[g]
                              \/ {conf[g].pc, conf'[g].pc} \cap {"order", "credit"} = {}
    BY <2>1
  <2> QED  BY <1>1, <2>1, <2>2, BooksElsewhere
<1>7. ASSUME NEW a \in Attempts, NEW k \in Webhooks, NEW n \in Names, NEW w \in AllWords,
             NEW h \in Confirmers, Receive(h, k, a, n, w)
      PROVE  Books'
  <2> DEFINE new(o) == [pc |-> Decision(k, w, o), route |-> k, order |-> o,
                        ref |-> a, name |-> n, final |-> Decided(a)]
  <2>1. PICK o \in Orders : conf' = [conf EXCEPT ![h] = new(o)]
    BY <1>7 DEF Receive, Take
  <2>2. /\ conf[h].pc = "idle" /\ UNCHANGED <<settled, recorded, faults, orderPaid>>
    BY <1>7 DEF Receive, Take, tables, history
  <2>3. new(o).pc \in {"mark", "fail", "pay"}
    BY DEF Decision
  <2> HIDE DEF new
  <2>4. /\ \A g \in Confirmers : g # h => conf'[g] = conf[g]
        /\ conf'[h].pc \in {"mark", "fail", "pay"}
    BY <2>1, <2>3 DEF Books, Safe, PaymentsTypeOK
  <2>5. \A g \in Confirmers : \/ conf'[g] = conf[g]
                              \/ {conf[g].pc, conf'[g].pc} \cap {"order", "credit"} = {}
    BY <2>2, <2>4
  <2> QED  BY <1>1, <2>2, <2>5, BooksElsewhere
<1>8. ASSUME NEW h \in Confirmers, ConfirmNext(h) PROVE Books'
  BY <1>3, <1>4, <1>5, <1>6, <1>8, BooksRecord, BooksCredit DEF ConfirmNext, ConfirmStep
<1>9. ASSUME NEW a \in Attempts, NotifyStep(a) PROVE Books'
  BY <1>2, <1>7, <1>9, NotifyCases DEF AnswerAtOnce, vars, tables, history
<1> QED
  BY <1>2, <1>8, <1>9
     DEF Next, ConfirmNext, vars, tables, history, BuyerStep, ReceiptRead, InitRead,
         InitCreate, InitAttempt, ReceiptWrite, BuyerGone, ProviderStep, ChargeOpened,
         ChargeDecided, CallAnswered, CallGivenUp, OrderMoved, TransferRecorded, RedisForgets

\* BooksBalance, for every number of orders, attempts, routes and calls at
\* one time: each time a payment was set to PAID its order has a settled
\* credit or the handler that will create it is at work, handlers that died
\* apart (payments.service.ts:1028-1061).
THEOREM PaymentsBalance == Spec => []BooksBalance
  BY BooksInit, BooksStep, BooksMeaning, PTL DEF Spec

-----------------------------------------------------------------------------
(* What a step writes to the row of a payment.                             *)

LEMMA RowFields ==
  ASSUME NEW p \in Payment, NEW s, NEW m, NEW a
  PROVE  /\ [p EXCEPT !.status = s].status = s
         /\ [p EXCEPT !.status = s].ref = p.ref
         /\ [p EXCEPT !.status = s].processed = p.processed
         /\ [p EXCEPT !.processed = m].status = p.status
         /\ [p EXCEPT !.processed = m].ref = p.ref
         /\ [p EXCEPT !.processed = m].processed = m
         /\ [p EXCEPT !.status = s, !.processed = m].status = s
         /\ [p EXCEPT !.status = s, !.processed = m].ref = p.ref
         /\ [p EXCEPT !.status = s, !.processed = m].processed = m
         /\ [p EXCEPT !.code = a].status = p.status
         /\ [p EXCEPT !.code = a].ref = p.ref
         /\ [p EXCEPT !.code = a].processed = p.processed
  BY DEF Payment

\* The row of o gets a status, a mark and a reference; no other row changes.
Writes(o, s, m, r) ==
    /\ pay'[o].status = s /\ pay'[o].processed = m /\ pay'[o].ref = r
    /\ \A x \in Orders \ {o} : pay'[x] = pay[x]

LEMMA RowWrite ==
  ASSUME Safe, NEW o \in Orders, NEW q, pay' = [pay EXCEPT ![o] = q]
  PROVE  Writes(o, q.status, q.processed, q.ref)
  BY DEF Writes, Safe, PaymentsTypeOK

LEMMA StatusWrite ==
  ASSUME Safe, NEW o \in Orders, NEW s, pay' = [pay EXCEPT ![o].status = s]
  PROVE  Writes(o, s, pay[o].processed, pay[o].ref)
<1> DEFINE p == pay[o]
           q == [p EXCEPT !.status = s]
<1>1. p \in Payment
  BY PayTypes
<1>2. q.status = s /\ q.ref = p.ref /\ q.processed = p.processed
  <2> HIDE DEF p
  <2> QED  BY <1>1, RowFields
<1>3. pay' = [pay EXCEPT ![o] = q]
  OBVIOUS
<1> HIDE DEF q
<1>4. Writes(o, q.status, q.processed, q.ref)
  BY <1>3, RowWrite
<1> QED  BY <1>2, <1>4

LEMMA MarkWrite ==
  ASSUME Safe, NEW o \in Orders, pay' = [pay EXCEPT ![o].processed = TRUE]
  PROVE  Writes(o, pay[o].status, TRUE, pay[o].ref)
<1> DEFINE p == pay[o]
           q == [p EXCEPT !.processed = TRUE]
<1>1. p \in Payment
  BY PayTypes
<1>2. q.status = p.status /\ q.ref = p.ref /\ q.processed = TRUE
  <2> HIDE DEF p
  <2> QED  BY <1>1, RowFields
<1>3. pay' = [pay EXCEPT ![o] = q]
  OBVIOUS
<1> HIDE DEF q
<1>4. Writes(o, q.status, q.processed, q.ref)
  BY <1>3, RowWrite
<1> QED  BY <1>2, <1>4

LEMMA CodeWrite ==
  ASSUME Safe, NEW o \in Orders, NEW a, pay' = [pay EXCEPT ![o].code = a]
  PROVE  Writes(o, pay[o].status, pay[o].processed, pay[o].ref)
<1> DEFINE p == pay[o]
           q == [p EXCEPT !.code = a]
<1>1. p \in Payment
  BY PayTypes
<1>2. q.status = p.status /\ q.ref = p.ref /\ q.processed = p.processed
  <2> HIDE DEF p
  <2> QED  BY <1>1, RowFields
<1>3. pay' = [pay EXCEPT ![o] = q]
  OBVIOUS
<1> HIDE DEF q
<1>4. Writes(o, q.status, q.processed, q.ref)
  BY <1>3, RowWrite
<1> QED  BY <1>2, <1>4

LEMMA OutcomeWrite ==
  ASSUME Safe, NEW o \in Orders, NEW s, NEW k, Outcome(o, s, k)
  PROVE  Writes(o, s, pay[o].processed \/ Marks(k), pay[o].ref)
<1> DEFINE p == pay[o]
           m == pay[o].processed \/ Marks(k)
           q == [p EXCEPT !.status = s, !.processed = m]
<1>1. p \in Payment
  BY PayTypes
<1>2. q.status = s /\ q.ref = p.ref /\ q.processed = m
  <2> HIDE DEF p, m
  <2> QED  BY <1>1, RowFields
<1>3. pay' = [pay EXCEPT ![o] = q]
  BY DEF Outcome
<1> HIDE DEF q, m
<1>4. Writes(o, q.status, q.processed, q.ref)
  BY <1>3, RowWrite
<1>5. Writes(o, s, m, pay[o].ref)
  BY <1>2, <1>4
<1> QED  BY <1>5 DEF m

LEMMA AttemptWrite ==
  ASSUME Safe, NEW b \in Buyers, NEW a \in Attempts, InitAttempt(b, a)
  PROVE  /\ ini[b].order \in Orders
         /\ Writes(ini[b].order, "PROCESSING", pay[ini[b].order].processed, a)
<1> DEFINE o == ini[b].order
           q == [status |-> "PROCESSING", ref |-> a, code |-> None,
                 processed |-> pay[o].processed]
<1>1. o \in Orders
  BY DEF InitAttempt, Safe, Addressed
<1>2. pay' = [pay EXCEPT ![o] = q]
  BY DEF InitAttempt
<1>3. q.status = "PROCESSING" /\ q.processed = pay[o].processed /\ q.ref = a
  OBVIOUS
<1> HIDE DEF q
<1>4. Writes(o, q.status, q.processed, q.ref)
  BY <1>1, <1>2, RowWrite
<1> QED  BY <1>1, <1>3, <1>4

\* A step that changes no reference, mark, handler or record.  It may change
\* a status, but not to PAID, and decide a charge that was made.
Plain ==
    /\ \A o \in Orders : /\ pay'[o].ref = pay[o].ref
                         /\ pay'[o].processed = pay[o].processed
                         /\ pay'[o].status = "PAID" => pay[o].status = "PAID"
                         /\ pay[o].status # "none" => pay'[o].status # "none"
    /\ \A a \in Attempts : \/ charge'[a] = charge[a]
                           \/ /\ charge[a] # "declined"
                              /\ charge[a] = "sent" => for[a] # None
    /\ redis' \subseteq redis
    /\ UNCHANGED <<for, acked, conf, recorded, settled>>

LEMMA PlainBuyer ==
  ASSUME Safe, NEW b \in Buyers, BuyerStep(b), ~ \E a \in Attempts : InitAttempt(b, a)
  PROVE  Plain
<1>1. ASSUME pay' = pay, UNCHANGED <<charge, redis, for, acked, conf, recorded, settled>>
      PROVE  Plain
  BY <1>1 DEF Plain
<1>2. CASE \/ \E o \in Orders : ReceiptRead(b, o) \/ \E g \in BOOLEAN : InitRead(b, o, g)
           \/ BuyerGone(b)
  BY <1>1, <1>2 DEF ReceiptRead, InitRead, BuyerGone, tables, provider, history
<1>3. CASE InitCreate(b) \/ ReceiptWrite(b)
  <2>1. UNCHANGED <<charge, redis, for, acked, conf, recorded, settled>>
    BY <1>3 DEF InitCreate, ReceiptWrite, provider, history
  <2>2. ini[b].order \in Orders
    BY <1>3 DEF InitCreate, ReceiptWrite, Safe, Addressed
  <2>3. \/ pay' = pay
        \/ \E s \in {"PROCESSING", "PENDING"} : pay' = [pay EXCEPT ![ini[b].order].status = s]
    BY <1>3 DEF InitCreate, ReceiptWrite
  <2>4. ASSUME NEW s \in {"PROCESSING", "PENDING"},
               pay' = [pay EXCEPT ![ini[b].order].status = s]
        PROVE  Plain
    <3>1. Writes(ini[b].order, s, pay[ini[b].order].processed, pay[ini[b].order].ref)
      BY <2>2, <2>4, StatusWrite
    <3> QED  BY <2>1, <3>1 DEF Plain, Writes
  <2> QED  BY <1>1, <2>1, <2>3, <2>4
<1> QED  BY <1>2, <1>3 DEF BuyerStep

LEMMA PlainProvider ==
  ASSUME Safe, NEW a \in Attempts, ProviderStep(a)
  PROVE  Plain
<1>1. CASE ChargeOpened(a) \/ \E outcome \in {"paid", "declined"} : ChargeDecided(a, outcome)
  BY <1>1 DEF ChargeOpened, ChargeDecided, Plain, tables, history, Safe, PaymentsTypeOK
<1>2. CASE CallAnswered(a)
  <2>1. for[a] \in Orders
    BY <1>2 DEF CallAnswered, Safe, Addressed
  <2>2. Writes(for[a], pay[for[a]].status, pay[for[a]].processed, pay[for[a]].ref)
    BY <1>2, <2>1, CodeWrite DEF CallAnswered
  <2> QED  BY <1>2, <2>2 DEF CallAnswered, Plain, Writes, history
<1>3. CASE CallGivenUp(a)
  BY <1>3 DEF CallGivenUp, Plain, tables, history
<1> QED  BY <1>1, <1>2, <1>3 DEF ProviderStep

LEMMA PlainOther ==
  ASSUME Safe,
         \/ \E o \in Orders : OrderChanged(o)
         \/ RedisForgets
         \/ UNCHANGED vars
  PROVE  Plain
<1>1. CASE RedisForgets \/ UNCHANGED vars
  BY <1>1 DEF RedisForgets, vars, Plain, tables, provider, history
<1>2. ASSUME NEW o \in Orders, NEW s \in OrderMoves, OrderMoved(o, s) PROVE Plain
  BY <1>2 DEF OrderMoved, Plain, provider, history
<1>3. ASSUME NEW o \in Orders, TransferRecorded(o) PROVE Plain
  <2>1. Writes(o, pay[o].status, pay[o].processed, pay[o].ref)
    BY <1>3, CodeWrite DEF TransferRecorded
  <2> QED  BY <1>3, <2>1 DEF TransferRecorded, Plain, Writes, provider, history
<1> QED  BY <1>1, <1>2, <1>3 DEF OrderChanged

-----------------------------------------------------------------------------
(* What was answered with 200.                                             *)

\* What the answer to a notification rests on.
Known(a) == recorded[for[a]] > 0 \/ charge[a] = "declined"

\* Only a charge that was made is notified.
Made == \A a \in Attempts : charge[a] # "sent" \/ a \in acked => for[a] \in Orders

\* The payment of an order with one attempt keeps the reference of that one.
Current ==
    \A a \in Attempts, o \in Orders :
        for[a] = o /\ OnlyAttempt(a) => pay[o].ref = a /\ pay[o].status # "none"

PaidRecorded == \A o \in Orders : pay[o].status = "PAID" => recorded[o] > 0

\* What a handler will leave behind: a mark, or a notification answered.
Answers(c) == Marks(c.route) \/ c.final \/ c.pc = "mark"

\* A handler works for the order of its charge.  It records before it goes on
\* to the order and the credit; where it leaves something behind, it fails a
\* payment for a declined charge only.
HandlingAt(c) ==
    /\ c.pc # "idle" /\ c.ref \in Attempts => for[c.ref] = c.order
    /\ c.pc \in {"order", "credit", "mark"} => recorded[c.order] > 0
    /\ c.pc = "mark" => Marks(c.route)
    /\ c.pc = "fail" /\ Answers(c) => charge[c.ref] = "declined"

Handling == \A h \in Confirmers : HandlingAt(conf[h])

\* The mark was left by a charge of that order.  If there was no other one,
\* the payment was recorded or that charge was declined.
Witnessed(o) ==
    \E a \in Attempts : for[a] = o /\ (OnlyAttempt(a) => Known(a))

Processed == \A o \in Orders : pay[o].processed => Witnessed(o)

AckedKnown == \A a \in acked : OnlyAttempt(a) => Known(a)

\* A key may be set for an open charge that was taken for paid.
Keys ==
    \A x \in redis :
        /\ x[2] \in Attempts
        /\ for[x[2]] \in Orders
        /\ OnlyAttempt(x[2]) => Known(x[2])

Answered == Made /\ AckedKnown /\ Keys
Acks ==
    Safe /\ Linked /\ Answered /\ Current /\ PaidRecorded /\ Handling /\ Processed

LEMMA AcksInit == Init => Acks
<1> SUFFICES ASSUME Init PROVE Acks
  OBVIOUS
<1>1. Safe
  BY InitSafe
<1>2. Linked /\ Answered /\ Current /\ PaidRecorded /\ Processed
  BY NoneAssumption
     DEF Init, Linked, Answered, Made, AckedKnown, Keys, Current, PaidRecorded, Processed,
         NoPayment
<1>3. Handling
  BY IdleTypes DEF Init, Handling, HandlingAt
<1> QED  BY <1>1, <1>2, <1>3 DEF Acks

LEMMA AcksMeaning ==
  ASSUME Acks PROVE AckedMeansRecorded
<1> SUFFICES ASSUME NEW a \in Attempts, a \in acked, charge[a] = "paid", OnlyAttempt(a)
             PROVE  Recorded(a)
  BY DEF AckedMeansRecorded
<1>1. for[a] \in Orders /\ Known(a)
  BY DEF Acks, Answered, Made, AckedKnown
<1> QED  BY <1>1 DEF Known, Recorded

\* What was made, recorded or declined stays so, and a charge that is the only
\* one of its order was the only one before.
Forward ==
    /\ \A o \in Orders : recorded[o] > 0 => recorded'[o] > 0
    /\ \A a \in Attempts : charge[a] = "declined" => charge'[a] = "declined"
    /\ \A a \in Attempts : for[a] \in Orders => for'[a] = for[a]
    /\ \A a \in Attempts :
          for[a] \in Orders =>
            /\ OnlyAttempt(a)' => OnlyAttempt(a)
            /\ Known(a) => Known(a)'

LEMMA ForwardFrom ==
  ASSUME Safe,
         \A o \in Orders : recorded[o] > 0 => recorded'[o] > 0,
         \A a \in Attempts : charge[a] = "declined" => charge'[a] = "declined",
         \A a \in Attempts : for[a] # None => for'[a] = for[a]
  PROVE  Forward
<1>1. ASSUME NEW a \in Attempts, for[a] \in Orders
      PROVE  /\ for'[a] = for[a]
             /\ OnlyAttempt(a)' => OnlyAttempt(a)
             /\ Known(a) => Known(a)'
  <2>1. for[a] # None
    BY <1>1, NoneAssumption
  <2>2. for'[a] = for[a]
    BY <2>1
  <2>3. \A b \in Attempts : for[b] = for[a] => for'[b] = for'[a]
    BY <2>1
  <2> QED  BY <1>1, <2>2, <2>3 DEF OnlyAttempt, Known
<1> QED  BY <1>1 DEF Forward

LEMMA WitnessStays ==
  ASSUME Forward, NEW o \in Orders, Witnessed(o)
  PROVE  Witnessed(o)'
<1>1. PICK a \in Attempts : for[a] = o /\ (OnlyAttempt(a) => Known(a))
  BY DEF Witnessed
<1>2. for'[a] = o /\ (OnlyAttempt(a)' => Known(a)')
  BY <1>1 DEF Forward
<1> QED  BY <1>2 DEF Witnessed

\* A handler that does not move stays right.
LEMMA HandlingStays ==
  ASSUME Safe, Forward, NEW h \in Confirmers, HandlingAt(conf[h]), conf'[h] = conf[h]
  PROVE  HandlingAt(conf[h])'
<1>1. /\ conf[h].pc # "idle" => conf[h].order \in Orders
      /\ conf[h].pc = "fail" /\ Answers(conf[h]) => conf[h].ref \in Attempts
  BY DEF Safe, Addressed, Answers
<1> QED  BY <1>1 DEF Forward, HandlingAt, Answers

\* A step that answers nothing.
LEMMA NoAnswer ==
  ASSUME Forward, Answered, acked' = acked, redis' \subseteq redis,
         acked \subseteq Attempts,
         \A a \in Attempts : charge'[a] # "sent" => charge[a] # "sent" \/ for[a] \in Orders
  PROVE  Answered'
<1>1. \A a \in acked : for[a] \in Orders
  BY DEF Answered, Made
<1>2. Made'
  BY <1>1 DEF Answered, Made, Forward
<1>3. AckedKnown'
  BY <1>1 DEF Answered, AckedKnown, Forward
<1>4. Keys'
  BY DEF Answered, Keys, Forward
<1> QED  BY <1>2, <1>3, <1>4 DEF Answered

\* A step that answers the notification of a charge, or sets its key.
LEMMA OneAnswer ==
  ASSUME Forward, Answered, NEW a \in Attempts,
         acked \subseteq Attempts, acked' \subseteq acked \cup {a},
         for[a] \in Orders, OnlyAttempt(a) => Known(a),
         charge' = charge, \A x \in redis' : x \in redis \/ x[2] = a
  PROVE  Answered'
<1>1. \A b \in acked' : b \in Attempts /\ for[b] \in Orders
  BY DEF Answered, Made
<1>2. Made'
  BY <1>1 DEF Answered, Made, Forward
<1>3. AckedKnown'
  BY <1>1 DEF Answered, AckedKnown, Forward
<1>4. Keys'
  BY DEF Answered, Keys, Forward
<1> QED  BY <1>2, <1>3, <1>4 DEF Answered

\* A step that writes no reference: no attempt is made.
LEMMA SameAttempts ==
  ASSUME Current, for' = for,
         \A o \in Orders : /\ pay'[o].ref = pay[o].ref
                           /\ pay[o].status # "none" => pay'[o].status # "none"
  PROVE  Current'
  BY DEF Current, OnlyAttempt

LEMMA ForwardStep ==
  ASSUME Safe, [Next]_vars
  PROVE  Forward
<1> DEFINE Kept == \A o \in Orders : recorded[o] > 0 => recorded'[o] > 0
<1>1. Further
  BY FurtherStep
<1>2. ASSUME NEW h \in Confirmers, ConfirmNext(h) PROVE Kept
  <2>1. CASE ConfirmPayment(h)
    <3>1. conf[h].order \in Orders
      BY <2>1 DEF ConfirmPayment, Safe, Addressed
    <3>2. recorded' = [recorded EXCEPT ![conf[h].order] = @ + 1]
      BY <2>1 DEF ConfirmPayment
    <3> QED  BY <3>1, <3>2 DEF Safe, PaymentsTypeOK
  <2>2. CASE ~ ConfirmPayment(h)
    BY <1>2, <2>2
       DEF ConfirmNext, ConfirmStep, ConfirmOrder, ConfirmCredit, ConfirmFailed,
           ConfirmMarked, Die, AdminValidate, history
  <2> QED  BY <2>1, <2>2
<1>3. ASSUME NEW a \in Attempts, NotifyStep(a) PROVE Kept
  BY <1>3, NotifyCases DEF AnswerAtOnce, Receive, vars, history
<1>4. Kept
  BY <1>2, <1>3
     DEF Next, ConfirmNext, vars, history, BuyerStep, ReceiptRead, InitRead, InitCreate,
         InitAttempt, ReceiptWrite, BuyerGone, ProviderStep, ChargeOpened, ChargeDecided,
         CallAnswered, CallGivenUp, OrderMoved, TransferRecorded, RedisForgets
<1>5. \A a \in Attempts : charge[a] = "declined" => charge'[a] = "declined"
  BY <1>1 DEF Further, Onward
<1> QED  BY <1>1, <1>4, <1>5, ForwardFrom DEF Further

\* The parts that one step changes, apart from Safe and Linked.
Parts == Answered /\ Current /\ PaidRecorded /\ Handling /\ Processed

LEMMA AcksPlain ==
  ASSUME Acks, Forward, Plain
  PROVE  Parts'
<1>1. acked \subseteq Attempts
  BY DEF Acks, Safe, PaymentsTypeOK
<1>2. \A a \in Attempts : for[a] # None => for[a] \in Orders
  BY DEF Acks, Safe, PaymentsTypeOK
<1>3. Answered'
  <2>1. \A a \in Attempts : charge'[a] # "sent" => charge[a] # "sent" \/ for[a] \in Orders
    BY <1>2 DEF Plain
  <2>2. acked' = acked /\ redis' \subseteq redis
    BY DEF Plain
  <2> QED  BY <1>1, <2>1, <2>2, NoAnswer DEF Acks
<1>4. Current'
  BY SameAttempts DEF Acks, Plain
<1>5. PaidRecorded'
  BY DEF Acks, PaidRecorded, Plain
<1>6. Handling'
  <2> SUFFICES ASSUME NEW h \in Confirmers PROVE HandlingAt(conf[h])'
    BY DEF Handling
  <2>1. HandlingAt(conf[h]) /\ conf'[h] = conf[h]
    BY DEF Acks, Handling, Plain
  <2> QED  BY <2>1, HandlingStays DEF Acks
<1>7. Processed'
  <2> SUFFICES ASSUME NEW o \in Orders, pay'[o].processed PROVE Witnessed(o)'
    BY DEF Processed
  <2>1. Witnessed(o)
    BY DEF Acks, Processed, Plain
  <2> QED  BY <2>1, WitnessStays
<1> QED  BY <1>3, <1>4, <1>5, <1>6, <1>7 DEF Parts

LEMMA AcksAttempt ==
  ASSUME Acks, Forward, NEW b \in Buyers, NEW a \in Attempts, InitAttempt(b, a)
  PROVE  Parts'
<1> DEFINE o == ini[b].order
<1>1. o \in Orders /\ Writes(o, "PROCESSING", pay[o].processed, a)
  BY AttemptWrite DEF Acks
<1>2. /\ for[a] = None /\ for' = [for EXCEPT ![a] = o]
      /\ UNCHANGED <<redis, charge, acked, conf, recorded>>
  BY DEF InitAttempt, history
<1>3. for'[a] = o /\ \A x \in Attempts \ {a} : for'[x] = for[x]
  BY <1>2 DEF Acks, Safe, PaymentsTypeOK
<1>4. Answered'
  BY <1>2, NoAnswer DEF Acks, Safe, PaymentsTypeOK
<1>5. Current'
  <2> SUFFICES ASSUME NEW x \in Attempts, NEW p \in Orders,
                      for'[x] = p, OnlyAttempt(x)'
               PROVE  pay'[p].ref = x /\ pay'[p].status # "none"
    BY DEF Current
  <2>1. CASE x = a
    BY <1>1, <1>3, <2>1 DEF Writes
  <2>2. CASE x # a
    <3>1. p # o
      BY <1>3, <2>2 DEF OnlyAttempt
    <3>2. for[x] = p /\ OnlyAttempt(x)
      BY <1>3, <2>2 DEF Forward
    <3>3. pay'[p] = pay[p]
      BY <1>1, <3>1 DEF Writes
    <3> QED  BY <3>2, <3>3 DEF Acks, Current
  <2> QED  BY <2>1, <2>2
<1>6. PaidRecorded'
  <2> SUFFICES ASSUME NEW p \in Orders, pay'[p].status = "PAID" PROVE recorded'[p] > 0
    BY DEF PaidRecorded
  <2>1. p # o
    BY <1>1 DEF Writes
  <2> QED  BY <1>1, <1>2, <2>1 DEF Writes, Acks, PaidRecorded
<1>7. Handling'
  <2> SUFFICES ASSUME NEW h \in Confirmers PROVE HandlingAt(conf[h])'
    BY DEF Handling
  <2> QED  BY <1>2, HandlingStays DEF Acks, Handling
<1>8. Processed'
  <2> SUFFICES ASSUME NEW p \in Orders, pay'[p].processed PROVE Witnessed(p)'
    BY DEF Processed
  <2>1. pay[p].processed
    BY <1>1 DEF Writes
  <2> QED  BY <2>1, WitnessStays DEF Acks, Processed
<1> QED  BY <1>4, <1>5, <1>6, <1>7, <1>8 DEF Parts

\* A notification that is answered at once is of a charge that was recorded or
\* declined: the key, the mark or the status of the payment says so.
LEMMA AcksAtOnce ==
  ASSUME Acks, Forward, NEW k \in Webhooks, NEW a \in Attempts, NEW n \in Names,
         NEW w \in AllWords, AnswerAtOnce(k, a, n, w)
  PROVE  Parts'
<1> DEFINE o == for[a]
<1>0. Sends(k, a, n, w)
  BY DEF AnswerAtOnce
<1>1. o \in Orders
  <2>1. charge[a] # "sent"
    BY <1>0 DEF Sends, Says
  <2> QED  BY <2>1 DEF Acks, Answered, Made
<1>2. OnlyAttempt(a) => Known(a)
  <2> SUFFICES ASSUME OnlyAttempt(a) PROVE Known(a)
    OBVIOUS
  <2>1. CASE Key(k, a, n) \in redis
    <3>1. Key(k, a, n)[2] = a
      BY DEF Key
    <3> QED  BY <2>1, <3>1 DEF Acks, Answered, Keys
  <2>2. ASSUME NEW p \in Orders, Finds(k, a, n, p), pay[p].processed PROVE Known(a)
    <3>1. o = p
      BY <2>2 DEF Finds, Acks, Linked
    <3>2. PICK x \in Attempts : for[x] = p /\ (OnlyAttempt(x) => Known(x))
      BY <2>2 DEF Acks, Processed, Witnessed
    <3>3. x = a
      BY <3>1, <3>2 DEF OnlyAttempt
    <3> QED  BY <3>2, <3>3
  <2>3. CASE k = "ekwanza" /\ \A p \in Orders : Finds(k, a, n, p) => AlreadyPaid(k, w, p)
    <3>1. n = "merchant"
      BY <1>0, <2>3 DEF Sends
    <3>2. Finds(k, a, n, o)
      BY <1>1, <3>1 DEF Acks, Current, Finds
    <3>3. recorded[o] > 0
      BY <1>1, <2>3, <3>2 DEF AlreadyPaid, Acks, PaidRecorded
    <3> QED  BY <3>3 DEF Known
  <2> QED  BY <2>1, <2>2, <2>3 DEF AnswerAtOnce, Seen
<1>3. /\ UNCHANGED <<pay, for, charge, conf, recorded>>
      /\ acked' \subseteq acked \cup {a}
      /\ \A x \in redis' : x \in redis \/ x[2] = a
  BY DEF AnswerAtOnce, history, Acknowledge, Remember, Key
<1>4. Answered'
  BY <1>1, <1>2, <1>3, OneAnswer DEF Acks, Safe, PaymentsTypeOK
<1>5. Current'
  BY <1>3, SameAttempts DEF Acks
<1>6. PaidRecorded'
  BY <1>3 DEF Acks, PaidRecorded
<1>7. Handling'
  <2> SUFFICES ASSUME NEW h \in Confirmers PROVE HandlingAt(conf[h])'
    BY DEF Handling
  <2> QED  BY <1>3, HandlingStays DEF Acks, Handling
<1>8. Processed'
  <2> SUFFICES ASSUME NEW p \in Orders, pay'[p].processed PROVE Witnessed(p)'
    BY DEF Processed
  <2> QED  BY <1>3, WitnessStays DEF Acks, Processed
<1> QED  BY <1>4, <1>5, <1>6, <1>7, <1>8 DEF Parts

\* A handler starts, or goes on without an effect on the payment or an answer.
LEMMA AcksHandler ==
  ASSUME Acks, Forward, NEW h \in Confirmers,
         UNCHANGED <<pay, redis, for, charge, acked, recorded>>,
         \A g \in Confirmers : g # h => conf'[g] = conf[g],
         HandlingAt(conf[h])'
  PROVE  Parts'
<1>1. Answered'
  BY NoAnswer DEF Acks, Safe, PaymentsTypeOK
<1>2. Current'
  BY SameAttempts DEF Acks
<1>3. PaidRecorded'
  BY DEF Acks, PaidRecorded
<1>4. Handling'
  <2> SUFFICES ASSUME NEW g \in Confirmers PROVE HandlingAt(conf[g])'
    BY DEF Handling
  <2>1. CASE g # h
    BY <2>1, HandlingStays DEF Acks, Handling
  <2> QED  BY <2>1
<1>5. Processed'
  <2> SUFFICES ASSUME NEW p \in Orders, pay'[p].processed PROVE Witnessed(p)'
    BY DEF Processed
  <2> QED  BY WitnessStays DEF Acks, Processed
<1> QED  BY <1>1, <1>2, <1>3, <1>4, <1>5 DEF Parts

LEMMA AcksReceive ==
  ASSUME Acks, Forward, NEW k \in Webhooks, NEW a \in Attempts, NEW n \in Names,
         NEW w \in AllWords, NEW h \in Confirmers, Receive(h, k, a, n, w)
  PROVE  Parts'
<1> DEFINE new(o) == [pc |-> Decision(k, w, o), route |-> k, order |-> o,
                      ref |-> a, name |-> n, final |-> Decided(a)]
<1>1. PICK o \in Orders :
        /\ Finds(k, a, n, o)
        /\ Marks(k) \/ ~AlreadyPaid(k, w, o)
        /\ conf' = [conf EXCEPT ![h] = new(o)]
  BY DEF Receive, Take
<1>2. /\ conf'[h] = new(o)
      /\ \A g \in Confirmers : g # h => conf'[g] = conf[g]
  <2> HIDE DEF new
  <2> QED  BY <1>1 DEF Acks, Safe, PaymentsTypeOK
<1>3. UNCHANGED <<pay, redis, for, charge, acked, recorded>> /\ w \in Says(k, a)
  BY DEF Receive, Take, Sends, tables, provider, history
<1>4. for[a] = o
  BY <1>1 DEF Finds, Acks, Linked
<1>5. Decision(k, w, o) = "mark" => recorded[o] > 0 /\ Marks(k)
  BY <1>1 DEF Decision, AlreadyPaid, Acks, PaidRecorded
<1>6. Decision(k, w, o) = "fail" /\ (Marks(k) \/ Decided(a)) => charge[a] = "declined"
  <2> SUFFICES ASSUME Fails(k, w), Marks(k) \/ Decided(a) PROVE charge[a] = "declined"
    BY DEF Decision
  <2>1. w = "failed" => charge[a] = "declined"
    BY <1>3 DEF Says
  <2>2. CASE k = "ekwanza" /\ w = "other"
    BY <1>3, <2>2 DEF Says, Marks, Decided
  <2> QED  BY <2>1, <2>2 DEF Fails
<1>7. Decision(k, w, o) \in {"mark", "fail", "pay"}
  BY DEF Decision
<1>8. HandlingAt(conf[h])'
  <2>1. /\ new(o).pc = Decision(k, w, o) /\ new(o).route = k /\ new(o).order = o
        /\ new(o).ref = a /\ new(o).final = Decided(a)
    OBVIOUS
  <2> DEFINE d == Decision(k, w, o)
             t == Decided(a)
  <2> HIDE DEF d, new, t
  <2>2. /\ conf'[h].pc = d /\ conf'[h].route = k /\ conf'[h].order = o
        /\ conf'[h].ref = a /\ conf'[h].final = t
    BY <1>2, <2>1 DEF d, t
  <2>3. d = "mark" => recorded'[o] > 0 /\ Marks(k)
    BY <1>3, <1>5 DEF d
  <2>4. d = "fail" /\ (Marks(k) \/ t) => charge'[a] = "declined"
    BY <1>3, <1>6 DEF d, t
  <2>5. d \in {"mark", "fail", "pay"} /\ for'[a] = o
    BY <1>3, <1>4, <1>7 DEF d
  <2> QED  BY <2>2, <2>3, <2>4, <2>5 DEF HandlingAt, Answers
<1> QED  BY <1>2, <1>3, <1>8, AcksHandler

LEMMA AcksOther ==
  ASSUME Acks, Forward, NEW h \in Confirmers,
         \/ \E o \in Orders : AdminValidate(h, o)
         \/ ConfirmOrder(h)
         \/ Die(h)
  PROVE  Parts'
<1>1. UNCHANGED <<pay, redis, for, charge, acked, recorded>>
  BY DEF AdminValidate, ConfirmOrder, Die, tables, provider, history
<1>2. \A g \in Confirmers : g # h => conf'[g] = conf[g]
  BY DEF AdminValidate, ConfirmOrder, Die, Acks, Safe, PaymentsTypeOK
<1>3. HandlingAt(conf[h])'
  <2>1. ASSUME NEW o \in Orders, AdminValidate(h, o) PROVE HandlingAt(conf[h])'
    <3>1. conf'[h].pc = "pay" /\ conf'[h].ref = None
      BY <2>1 DEF AdminValidate, IdleConfirmation, Acks, Safe, PaymentsTypeOK
    <3> QED  BY <3>1, NoneAssumption DEF HandlingAt
  <2>2. CASE ConfirmOrder(h)
    <3>1. /\ conf[h].pc = "order" /\ conf'[h].pc = "credit"
          /\ conf'[h].order = conf[h].order /\ conf'[h].ref = conf[h].ref
      BY <2>2, GoesOn DEF ConfirmOrder, Acks
    <3> QED  BY <1>1, <3>1 DEF HandlingAt, Acks, Handling
  <2>3. CASE Die(h)
    <3>1. conf'[h].pc = "idle"
      BY <2>3, IdleTypes DEF Die, Acks, Safe, PaymentsTypeOK
    <3> QED  BY <3>1 DEF HandlingAt
  <2> QED  BY <2>1, <2>2, <2>3
<1> QED  BY <1>1, <1>2, <1>3, AcksHandler

LEMMA AcksPayment ==
  ASSUME Acks, Forward, NEW h \in Confirmers, ConfirmPayment(h)
  PROVE  Parts'
<1> DEFINE o == conf[h].order
           k == conf[h].route
           a == conf[h].ref
<1>1. /\ o \in Orders /\ conf[h] \in Confirmation /\ conf[h].pc = "pay"
      /\ Marks(k) => a \in Attempts /\ for[a] = o
  BY DEF ConfirmPayment, Acks, Safe, PaymentsTypeOK, Addressed, Handling, HandlingAt
<1>2. /\ Outcome(o, "PAID", k)
      /\ recorded' = [recorded EXCEPT ![o] = @ + 1]
      /\ conf' = [conf EXCEPT ![h].pc = "order"]
      /\ UNCHANGED <<redis, for, charge, acked>>
  BY DEF ConfirmPayment, provider
<1>3. Writes(o, "PAID", pay[o].processed \/ Marks(k), pay[o].ref)
  BY <1>1, <1>2, OutcomeWrite DEF Acks
<1>4. recorded'[o] > 0
  BY <1>1, <1>2 DEF Acks, Safe, PaymentsTypeOK
<1>5. /\ conf'[h].pc = "order" /\ conf'[h].order = o /\ conf'[h].ref = a
      /\ \A g \in Confirmers : g # h => conf'[g] = conf[g]
  BY <1>2, GoesOn DEF Acks
<1>7. Answered'
  BY <1>2, NoAnswer DEF Acks, Safe, PaymentsTypeOK
<1>8. Current'
  <2>1. \A p \in Orders : /\ pay'[p].ref = pay[p].ref
                          /\ pay[p].status # "none" => pay'[p].status # "none"
    BY <1>3 DEF Writes
  <2> QED  BY <1>2, <2>1, SameAttempts DEF Acks
<1>9. PaidRecorded'
  <2> SUFFICES ASSUME NEW p \in Orders, pay'[p].status = "PAID" PROVE recorded'[p] > 0
    BY DEF PaidRecorded
  <2>1. CASE p # o
    BY <1>3, <2>1 DEF Writes, Acks, PaidRecorded, Forward
  <2> QED  BY <1>4, <2>1
<1>10. Handling'
  <2> SUFFICES ASSUME NEW g \in Confirmers PROVE HandlingAt(conf[g])'
    BY DEF Handling
  <2>1. CASE g # h
    BY <1>5, <2>1, HandlingStays DEF Acks, Handling
  <2>2. HandlingAt(conf[h])'
    <3>1. a \in Attempts => for[a] = o
      BY <1>1 DEF Acks, Handling, HandlingAt
    <3> QED  BY <1>2, <1>4, <1>5, <3>1 DEF HandlingAt
  <2> QED  BY <2>1, <2>2
<1>11. Processed'
  <2> SUFFICES ASSUME NEW p \in Orders, pay'[p].processed PROVE Witnessed(p)'
    BY DEF Processed
  <2>1. CASE pay[p].processed
    BY <2>1, WitnessStays DEF Acks, Processed
  <2>2. CASE ~ pay[p].processed
    <3>1. p = o /\ Marks(k)
      BY <1>3, <2>2 DEF Writes
    <3>2. a \in Attempts /\ for'[a] = p /\ recorded'[for'[a]] > 0
      BY <1>1, <1>2, <1>4, <3>1
    <3> QED  BY <3>2 DEF Witnessed, Known
  <2> QED  BY <2>1, <2>2
<1> QED  BY <1>7, <1>8, <1>9, <1>10, <1>11 DEF Parts

\* The last step of a handler: what it read, or did, stands behind the answer.
LEMMA AcksFinish ==
  ASSUME Acks, Forward, NEW h \in Confirmers,
         ConfirmCredit(h) \/ ConfirmFailed(h) \/ ConfirmMarked(h)
  PROVE  Parts'
<1> DEFINE o == conf[h].order
           k == conf[h].route
           a == conf[h].ref
           left == Answers(conf[h])
<1>1. /\ o \in Orders /\ conf[h].pc \in {"credit", "fail", "mark"}
      /\ Marks(k) \/ conf[h].final => a \in Attempts
      /\ conf[h].pc = "mark" => Marks(k)
      /\ a \in Attempts => for[a] = o
  BY DEF ConfirmCredit, ConfirmFailed, ConfirmMarked, Acks, Safe, Addressed, Handling,
         HandlingAt
<1>2. /\ Remember(k, a, conf[h].name) /\ Finish(h)
      /\ UNCHANGED <<for, charge, recorded>>
  BY DEF ConfirmCredit, ConfirmFailed, ConfirmMarked, history
<1>3. left => a \in Attempts /\ Known(a)
  BY <1>1 DEF Answers, Known, Acks, Handling, HandlingAt
<1>4. /\ conf'[h].pc = "idle"
      /\ \A g \in Confirmers : g # h => conf'[g] = conf[g]
  BY <1>2, IdleTypes DEF Finish, Acks, Safe, PaymentsTypeOK
<1>5. Answered'
  <2>1. CASE left
    <3>1. \A x \in redis' : x \in redis \/ x[2] = a
      BY <1>2 DEF Remember, Key
    <3>2. acked' \subseteq acked \cup {a}
      BY <1>2 DEF Finish
    <3>3. a \in Attempts /\ Known(a) /\ for[a] \in Orders
      BY <1>1, <1>3, <2>1
    <3> HIDE DEF a
    <3> QED  BY <1>2, <3>1, <3>2, <3>3, OneAnswer DEF Acks, Safe, PaymentsTypeOK
  <2>2. CASE ~ left
    <3>1. redis' = redis /\ acked' = acked
      BY <1>2, <2>2 DEF Answers, Remember, Finish
    <3> QED  BY <1>2, <3>1, NoAnswer DEF Acks, Safe, PaymentsTypeOK
  <2> QED  BY <2>1, <2>2
<1>6. \A p \in Orders : /\ pay'[p].ref = pay[p].ref
                        /\ pay[p].status # "none" => pay'[p].status # "none"
                        /\ pay'[p].status = "PAID" => pay[p].status = "PAID"
                        /\ pay'[p].processed => pay[p].processed \/ (p = o /\ left)
  <2>1. CASE ConfirmCredit(h)
    BY <2>1 DEF ConfirmCredit
  <2>2. CASE ConfirmFailed(h)
    <3>1. Writes(o, "FAILED", pay[o].processed \/ Marks(k), pay[o].ref)
      BY <1>1, <2>2, OutcomeWrite DEF ConfirmFailed, Acks
    <3> QED  BY <3>1 DEF Writes, Answers
  <2>3. CASE ConfirmMarked(h)
    <3>1. Writes(o, pay[o].status, TRUE, pay[o].ref)
      BY <1>1, <2>3, MarkWrite DEF ConfirmMarked, Acks
    <3>2. left
      BY <2>3 DEF ConfirmMarked, Answers
    <3> QED  BY <3>1, <3>2 DEF Writes
  <2> QED  BY <2>1, <2>2, <2>3
<1>7. Current'
  BY <1>2, <1>6, SameAttempts DEF Acks
<1>8. PaidRecorded'
  BY <1>2, <1>6 DEF Acks, PaidRecorded
<1>9. Handling'
  <2> SUFFICES ASSUME NEW g \in Confirmers PROVE HandlingAt(conf[g])'
    BY DEF Handling
  <2>1. CASE g # h
    BY <1>4, <2>1, HandlingStays DEF Acks, Handling
  <2>2. HandlingAt(conf[h])'
    BY <1>4 DEF HandlingAt
  <2> QED  BY <2>1, <2>2
<1>10. Processed'
  <2> SUFFICES ASSUME NEW p \in Orders, pay'[p].processed PROVE Witnessed(p)'
    BY DEF Processed
  <2>1. CASE pay[p].processed
    BY <2>1, WitnessStays DEF Acks, Processed
  <2>2. CASE p = o /\ left
    <3>1. Witnessed(p)
      BY <1>1, <1>3, <2>2 DEF Witnessed
    <3> QED  BY <3>1, WitnessStays
  <2> QED  BY <1>6, <2>1, <2>2
<1> QED  BY <1>5, <1>7, <1>8, <1>9, <1>10 DEF Parts

LEMMA AcksStep ==
  ASSUME Acks, [Next]_vars
  PROVE  Acks'
<1>1. Safe' /\ Linked' /\ Forward
  BY StepSafe, LinkedStep, ForwardStep DEF Acks
<1>2. ASSUME NEW b \in Buyers, BuyerStep(b) PROVE Parts'
  BY <1>1, <1>2, AcksPlain, AcksAttempt, PlainBuyer DEF Acks
<1>3. ASSUME NEW a \in Attempts, ProviderStep(a) PROVE Parts'
  BY <1>1, <1>3, AcksPlain, PlainProvider DEF Acks
<1>4. ASSUME NEW h \in Confirmers, ConfirmNext(h) PROVE Parts'
  BY <1>1, <1>4, AcksOther, AcksPayment, AcksFinish DEF ConfirmNext, ConfirmStep
<1>5. ASSUME \/ \E o \in Orders : OrderChanged(o)
             \/ RedisForgets
             \/ UNCHANGED vars
      PROVE  Parts'
  <2>1. Plain
    BY <1>5, PlainOther DEF Acks
  <2> QED  BY <1>1, <2>1, AcksPlain
<1>6. ASSUME NEW a \in Attempts, NotifyStep(a) PROVE Parts'
  <2>1. ASSUME NEW k \in Webhooks, NEW n \in Names, NEW w \in AllWords,
               AnswerAtOnce(k, a, n, w)
        PROVE  Parts'
    BY <1>1, <2>1, AcksAtOnce
  <2>2. ASSUME NEW k \in Webhooks, NEW n \in Names, NEW w \in AllWords,
               NEW h \in Confirmers, Receive(h, k, a, n, w)
        PROVE  Parts'
    BY <1>1, <2>2, AcksReceive
  <2> QED  BY <1>5, <1>6, <2>1, <2>2, NotifyCases
<1>7. Parts'
  BY <1>2, <1>3, <1>4, <1>5, <1>6 DEF Next, ConfirmNext, OrderChanged
<1> QED  BY <1>1, <1>7 DEF Acks, Parts

\* AckedMeansRecorded, for every number of orders, attempts and handlers, on
\* every set of routes and wherever handlers die: a notification of success
\* that got the answer 200 is of a payment that has been recorded, if the order
\* had no other attempt (payments.service.ts:966-976, 992-997, 1028-1066).
THEOREM AnswersHold == Spec => []AckedMeansRecorded
  BY AcksInit, AcksStep, AcksMeaning, PTL DEF Spec
=============================================================================
