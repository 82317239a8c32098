--------------------------- MODULE PayoutsProofs ----------------------------
(* Theorems about Payouts.tla, for every value of its constants: the books *)
(* implement Disbursement.tla, and orders are confirmed by transfers that  *)
(* went through.                                                           *)
EXTENDS Payouts, TLAPS

-----------------------------------------------------------------------------
(* The inductive invariant.                                                *)

\* A code that was not generated yet means nothing to anybody.
Fresh == \A x \in Transfers : for[x] = None => bank[x] = "none" /\ payout[x] = "none"

\* The reference of a payment is a code generated for its order.
References == \A o \in Orders : pay[o].ref # None => for[pay[o].ref] = o

\* No two requests send the same transfer.
OneEach == \A b, c \in Buyers : ini[b].code # None /\ ini[b].code = ini[c].code => b = c

\* What a request may rely on, given the codes f and the payouts p.
Fit(q, f, p) ==
    /\ q.pc # "idle" => q.order \in Orders
    /\ q.pc \in {"idle", "create", "open", "send"} => q.code = None
    /\ q.pc \in {"calling", "row", "debit", "ref"} =>
         q.code \in Transfers /\ f[q.code] = q.order
    /\ q.pc \in {"calling", "row"} => p[q.code] = "none"

\* What a notification may rely on; k is what the bank did.
Reports(q, f, k, p) ==
    /\ q.pc \in {"pay", "order", "credit"} =>
         /\ q.order \in Orders /\ q.code \in Transfers
         /\ f[q.code] = q.order /\ k[q.code] = "moved"
    /\ q.pc = "fail" => q.order \in Orders
    /\ q.pc \in {"close", "settle"} =>
         q.code \in Transfers /\ k[q.code] = "moved" /\ p[q.code] # "none"
    /\ q.pc = "settle" => p[q.code] = "PAID"
    /\ q.pc = "refuse" =>
         q.code \in Transfers /\ k[q.code] = "refused" /\ p[q.code] # "none"

RequestsFit == \A b \in Buyers : Fit(ini[b], for, payout)
HooksReport == \A h \in Hooks : Reports(hook[h], for, bank, payout)

Inv == PayoutsTypeOK /\ Fresh /\ References /\ OneEach /\ RequestsFit /\ HooksReport
         /\ ConfirmedByTransfer

\* The columns that the types of all tables are made of.
LEMMA Types ==
  ASSUME Inv
  PROVE  /\ ostatus \in [Orders -> {"AWAITING_PAYMENT", "PAID"}]
         /\ pay \in [Orders -> Payment]
         /\ opened \in [Orders -> Nat] /\ credits \in [Orders -> Nat]
         /\ for \in [Transfers -> Orders \cup {None}]
         /\ bank \in [Transfers -> {"none", "asked", "moved", "refused"}]
         /\ payout \in [Transfers -> PaymentStatus]
         /\ pending \in [Transfers -> Nat] /\ debits \in [Transfers -> Nat]
         /\ ini \in [Buyers -> Initiation]
         /\ hook \in [Hooks -> Notification]
  BY DEF Inv, PayoutsTypeOK

LEMMA IdleFits ==
  /\ IdleInitiation \in Initiation /\ IdleHook \in Notification
  /\ \A f, p : Fit(IdleInitiation, f, p)
  /\ \A f, k, p : Reports(IdleHook, f, k, p)
  BY DEF IdleInitiation, IdleHook, Initiation, Notification, Fit, Reports

LEMMA InitInv == Init => Inv
<1> SUFFICES ASSUME Init PROVE Inv
  OBVIOUS
<1>1. PayoutsTypeOK
  <2>1. pay \in [Orders -> Payment]
    BY DEF Init, Payment, PaymentStatus
  <2>2. payout \in [Transfers -> PaymentStatus]
    BY DEF Init, PaymentStatus
  <2>3. ini \in [Buyers -> Initiation] /\ hook \in [Hooks -> Notification]
    BY IdleFits DEF Init
  <2> QED  BY <2>1, <2>2, <2>3 DEF Init, PayoutsTypeOK
<1>2. Fresh /\ References /\ ConfirmedByTransfer
  BY DEF Init, Fresh, References, ConfirmedByTransfer
<1>3. OneEach
  BY DEF Init, OneEach, IdleInitiation
<1>4. RequestsFit /\ HooksReport
  BY IdleFits DEF Init, RequestsFit, HooksReport
<1> QED  BY <1>1, <1>2, <1>3, <1>4 DEF Inv

-----------------------------------------------------------------------------
(* How requests and notifications keep what they rely on.                  *)

\* Codes stay, what the bank did stays, payouts stay and are settled once
\* the bank has moved the money.
Later(f, f2, k, k2, p, p2) ==
    \A x \in Transfers :
        /\ f[x] # None => f2[x] = f[x]
        /\ k[x] \in {"moved", "refused"} => k2[x] = k[x]
        /\ p[x] # "none" => p2[x] # "none"
        /\ p[x] = "PAID" /\ k[x] = "moved" => p2[x] = "PAID"

LEMMA ReportsLater ==
  ASSUME NEW q \in Notification, NEW f, NEW f2, NEW k, NEW k2, NEW p, NEW p2,
         Reports(q, f, k, p), Later(f, f2, k, k2, p, p2)
  PROVE  Reports(q, f2, k2, p2)
  BY PayoutsAssumption DEF Reports, Later, Notification

LEMMA FitLater ==
  ASSUME NEW q \in Initiation, NEW f, NEW f2, NEW k, NEW k2, NEW p, NEW p2,
         Fit(q, f, p), Later(f, f2, k, k2, p, p2),
         q.pc \in {"calling", "row"} => p2[q.code] = p[q.code]
  PROVE  Fit(q, f2, p2)
  BY PayoutsAssumption DEF Fit, Later, Initiation

Onwards == Later(for, for', bank, bank', payout, payout')

\* Nothing moved that requests and notifications look at.
LEMMA Quiet ==
  ASSUME UNCHANGED <<for, bank, payout>>
  PROVE  Onwards
  BY DEF Onwards, Later

\* A step of one request; another request of the same code is itself.
LEMMA RequestStep ==
  ASSUME Inv, NEW b \in Buyers, NEW q \in Initiation, At(b, q), Onwards,
         Fit(q, for', payout'), UNCHANGED hook,
         q.code # None => q.code = ini[b].code \/ for[q.code] = None,
         \A c \in Buyers \ {b} : ini[c].pc \in {"calling", "row"} =>
            payout'[ini[c].code] = payout[ini[c].code]
  PROVE  /\ OneEach' /\ RequestsFit' /\ HooksReport'
         /\ ini' \in [Buyers -> Initiation] /\ hook' \in [Hooks -> Notification]
<1>1. ini' = [ini EXCEPT ![b] = q] /\ ini \in [Buyers -> Initiation]
  BY Types DEF At
<1>2. ini' \in [Buyers -> Initiation] /\ hook' \in [Hooks -> Notification]
  BY <1>1, Types
<1>3. RequestsFit'
  <2> SUFFICES ASSUME NEW c \in Buyers PROVE Fit(ini'[c], for', payout')
    BY DEF RequestsFit
  <2>1. CASE c = b
    BY <2>1, <1>1
  <2>2. CASE c # b
    <3>1. ini'[c] = ini[c] /\ ini[c] \in Initiation /\ Fit(ini[c], for, payout)
      BY <2>2, <1>1 DEF Inv, RequestsFit
    <3> QED  BY <2>2, <3>1, FitLater DEF Onwards
  <2> QED  BY <2>1, <2>2
<1>4. HooksReport'
  <2> SUFFICES ASSUME NEW h \in Hooks PROVE Reports(hook[h], for', bank', payout')
    BY DEF HooksReport
  <2>1. hook[h] \in Notification /\ Reports(hook[h], for, bank, payout)
    BY Types DEF Inv, HooksReport
  <2> QED  BY <2>1, ReportsLater DEF Onwards
<1>5. OneEach'
  <2>1. ASSUME NEW c \in Buyers \ {b}, q.code # None, ini[c].code = q.code
        PROVE  FALSE
    <3>1. CASE q.code = ini[b].code
      BY <2>1, <3>1 DEF Inv, OneEach
    <3>2. CASE for[q.code] = None
      <4>1. Fit(ini[c], for, payout) /\ ini[c] \in Initiation
        BY Types DEF Inv, RequestsFit
      <4> QED  BY <2>1, <3>2, <4>1, PayoutsAssumption DEF Fit, Initiation
    <3> QED  BY <2>1, <3>1, <3>2
  <2>2. \A c \in Buyers : ini'[c] = IF c = b THEN q ELSE ini[c]
    BY <1>1
  <2> QED  BY <2>1, <2>2 DEF Inv, OneEach
<1> QED  BY <1>2, <1>3, <1>4, <1>5

\* A step of one notification.
LEMMA HookStepFits ==
  ASSUME Inv, NEW h \in Hooks, NEW q \in Notification, To(h, q), Onwards,
         Reports(q, for', bank', payout'), UNCHANGED ini,
         \A x \in Transfers : payout[x] = "none" => payout'[x] = "none"
  PROVE  /\ OneEach' /\ RequestsFit' /\ HooksReport'
         /\ ini' \in [Buyers -> Initiation] /\ hook' \in [Hooks -> Notification]
<1>1. hook' = [hook EXCEPT ![h] = q] /\ hook \in [Hooks -> Notification]
  BY Types DEF To
<1>2. ini' \in [Buyers -> Initiation] /\ hook' \in [Hooks -> Notification]
  BY <1>1, Types
<1>3. RequestsFit'
  <2> SUFFICES ASSUME NEW c \in Buyers PROVE Fit(ini[c], for', payout')
    BY DEF RequestsFit
  <2>1. ini[c] \in Initiation /\ Fit(ini[c], for, payout)
    BY Types DEF Inv, RequestsFit
  <2>2. ini[c].pc \in {"calling", "row"} => payout'[ini[c].code] = payout[ini[c].code]
    BY <2>1 DEF Fit
  <2> QED  BY <2>1, <2>2, FitLater DEF Onwards
<1>4. HooksReport'
  <2> SUFFICES ASSUME NEW g \in Hooks PROVE Reports(hook'[g], for', bank', payout')
    BY DEF HooksReport
  <2>1. CASE g = h
    BY <2>1, <1>1
  <2>2. CASE g # h
    <3>1. hook'[g] = hook[g] /\ hook[g] \in Notification
          /\ Reports(hook[g], for, bank, payout)
      BY <2>2, <1>1 DEF Inv, HooksReport
    <3> QED  BY <3>1, ReportsLater DEF Onwards
  <2> QED  BY <2>1, <2>2
<1>5. OneEach'
  BY DEF Inv, OneEach
<1> QED  BY <1>2, <1>3, <1>4, <1>5

-----------------------------------------------------------------------------
(* Requests.                                                               *)

\* A step that touches neither payments nor what confirms an order.
LEMMA Unconfirming ==
  ASSUME Inv, UNCHANGED <<pay, ostatus, credits>>, Onwards
  PROVE  References' /\ ConfirmedByTransfer'
<1>1. References'
  <2> SUFFICES ASSUME NEW o \in Orders, pay[o].ref # None PROVE for'[pay[o].ref] = o
    BY DEF References
  <2>1. pay[o].ref \in Transfers /\ for[pay[o].ref] = o
    BY Types DEF Inv, References, Payment
  <2> QED  BY <2>1, PayoutsAssumption DEF Onwards, Later
<1>2. ConfirmedByTransfer'
  <2> SUFFICES ASSUME NEW o \in Orders,
                      pay[o].status = "PAID" \/ ostatus[o] = "PAID" \/ credits[o] > 0
               PROVE  \E x \in Transfers : for'[x] = o /\ bank'[x] = "moved"
    BY DEF ConfirmedByTransfer
  <2>1. PICK x \in Transfers : for[x] = o /\ bank[x] = "moved"
    BY DEF Inv, ConfirmedByTransfer
  <2>2. for'[x] = o /\ bank'[x] = "moved"
    BY <2>1, PayoutsAssumption DEF Onwards, Later
  <2> QED  BY <2>2
<1> QED  BY <1>1, <1>2

LEMMA InitReadInv ==
  ASSUME Inv, NEW b \in Buyers, NEW o \in Orders, NEW m \in Methods, InitRead(b, o, m)
  PROVE  Inv'
<1> DEFINE q == [pc |-> IF pay[o].status = "none" THEN "create" ELSE "send",
                 order |-> o, method |-> m, code |-> None]
<1>1. q \in Initiation /\ Fit(q, for, payout) /\ q.code = None
  BY PayoutsAssumption DEF Initiation, Fit
<1>2. At(b, q) /\ UNCHANGED <<tables, for, bank, hook, history>>
  BY DEF InitRead
<1> HIDE DEF q
<1>3. Onwards
  BY <1>2, Quiet DEF tables
<1>4. OneEach' /\ RequestsFit' /\ HooksReport' /\ ini' \in [Buyers -> Initiation]
  BY <1>1, <1>2, <1>3, RequestStep DEF tables
<1> QED  BY <1>2, <1>3, <1>4, Unconfirming DEF tables, history, Inv, Fresh, PayoutsTypeOK

LEMMA InitCreateInv ==
  ASSUME Inv, NEW b \in Buyers, InitCreate(b)
  PROVE  Inv'
<1> DEFINE o == ini[b].order
<1> DEFINE q == IF pay[o].status = "none" THEN [ini[b] EXCEPT !.pc = "open"]
                ELSE IdleInitiation
<1>1. ini[b] \in Initiation /\ Fit(ini[b], for, payout) /\ ini[b].pc = "create"
  BY Types DEF Inv, RequestsFit, InitCreate
<1>2. o \in Orders /\ ini[b].code = None
  BY <1>1 DEF Fit
<1>3. q \in Initiation /\ Fit(q, for, payout) /\ q.code = None
  BY <1>1, <1>2, IdleFits DEF Initiation, Fit, IdleInitiation
<1>4. At(b, q) /\ UNCHANGED <<ostatus, opened, credits, payout, pending, debits,
                              for, bank, hook, history>>
  BY DEF InitCreate
<1>5. pay' = IF pay[o].status = "none"
               THEN [pay EXCEPT ![o] = [pay[o] EXCEPT !.status = "PENDING"]] ELSE pay
  BY DEF InitCreate
<1> HIDE DEF q, o
<1>6. /\ pay' \in [Orders -> Payment]
      /\ \A p \in Orders : pay'[p].ref = pay[p].ref
      /\ \A p \in Orders : pay'[p].status = "PAID" => pay[p].status = "PAID"
  <2>1. pay \in [Orders -> Payment] /\ pay[o] \in Payment
    BY <1>2, Types
  <2>2. ASSUME NEW d \in Payment
        PROVE  /\ [d EXCEPT !.status = "PENDING"] \in Payment
               /\ [d EXCEPT !.status = "PENDING"].ref = d.ref
               /\ [d EXCEPT !.status = "PENDING"].status = "PENDING"
    BY DEF Payment, PaymentStatus
  <2>3. CASE pay[o].status = "none"
    BY <1>5, <2>1, <2>2, <2>3
  <2> QED  BY <1>5, <2>1, <2>3
<1>7. Onwards
  BY <1>4, Quiet
<1>8. OneEach' /\ RequestsFit' /\ HooksReport' /\ ini' \in [Buyers -> Initiation]
  BY <1>3, <1>4, <1>7, RequestStep
<1>9. References' /\ ConfirmedByTransfer'
  BY <1>4, <1>6 DEF Inv, References, ConfirmedByTransfer
<1> QED  BY <1>4, <1>6, <1>8, <1>9 DEF Inv, Fresh, PayoutsTypeOK, history

LEMMA InitPendingCreditInv ==
  ASSUME Inv, NEW b \in Buyers, InitPendingCredit(b)
  PROVE  Inv'
<1> DEFINE q == [ini[b] EXCEPT !.pc = "send"]
<1>1. ini[b] \in Initiation /\ Fit(ini[b], for, payout) /\ ini[b].pc = "open"
  BY Types DEF Inv, RequestsFit, InitPendingCredit
<1>2. q \in Initiation /\ Fit(q, for, payout) /\ q.code = None
  BY <1>1 DEF Initiation, Fit
<1>3. At(b, q) /\ UNCHANGED <<ostatus, pay, credits, payout, pending, debits,
                              for, bank, hook, history>>
  BY DEF InitPendingCredit
<1> HIDE DEF q
<1>4. opened' \in [Orders -> Nat]
  BY <1>1, Types DEF InitPendingCredit, Fit
<1>5. Onwards
  BY <1>3, Quiet
<1>6. OneEach' /\ RequestsFit' /\ HooksReport' /\ ini' \in [Buyers -> Initiation]
  BY <1>2, <1>3, <1>5, RequestStep
<1> QED  BY <1>3, <1>4, <1>5, <1>6, Unconfirming DEF Inv, Fresh, PayoutsTypeOK, history

LEMMA InitSendInv ==
  ASSUME Inv, NEW b \in Buyers, NEW x \in Transfers, InitSend(b, x)
  PROVE  Inv'
<1> DEFINE q == [ini[b] EXCEPT !.pc = IF ini[b].method = "kwik" THEN "calling" ELSE "row",
                               !.code = x]
<1>1. ini[b] \in Initiation /\ Fit(ini[b], for, payout) /\ ini[b].pc = "send"
  BY Types DEF Inv, RequestsFit, InitSend
<1>2. for[x] = None /\ bank[x] = "none" /\ payout[x] = "none"
  BY DEF InitSend, Inv, Fresh
<1>3. /\ q \in Initiation /\ q.code = x /\ q.pc \in {"calling", "row"}
      /\ q.order = ini[b].order /\ q.order \in Orders
  BY <1>1 DEF Initiation, Fit
<1>4. At(b, q) /\ UNCHANGED <<tables, hook, history>>
  BY DEF InitSend
<1> HIDE DEF q
<1>5. /\ for' = [for EXCEPT ![x] = ini[b].order]
      /\ \A y \in Transfers : y # x => bank'[y] = bank[y]
      /\ for' \in [Transfers -> Orders \cup {None}]
      /\ bank' \in [Transfers -> {"none", "asked", "moved", "refused"}]
  BY <1>3, Types DEF InitSend
<1>6. Onwards
  BY <1>2, <1>4, <1>5, Types DEF Onwards, Later, tables
<1>7. Fit(q, for', payout')
  BY <1>2, <1>3, <1>4, <1>5, Types DEF Fit, tables
<1>8. OneEach' /\ RequestsFit' /\ HooksReport' /\ ini' \in [Buyers -> Initiation]
  BY <1>2, <1>3, <1>4, <1>6, <1>7, RequestStep DEF tables
<1>9. Fresh'
  BY <1>3, <1>4, <1>5, Types, PayoutsAssumption DEF Fresh, Inv, tables
<1> QED  BY <1>4, <1>5, <1>6, <1>8, <1>9, Unconfirming DEF Inv, PayoutsTypeOK, tables, history

\* The call of E-Kwanza ends in either way.
LEMMA CallInv ==
  ASSUME Inv, NEW b \in Buyers, CallReturns(b) \/ CallFails(b)
  PROVE  Inv'
<1> DEFINE q == IF CallReturns(b) THEN [ini[b] EXCEPT !.pc = "row"] ELSE IdleInitiation
<1>1. ini[b] \in Initiation /\ Fit(ini[b], for, payout) /\ ini[b].pc = "calling"
  BY Types DEF Inv, RequestsFit, CallReturns, CallFails
<1>2. q \in Initiation /\ Fit(q, for, payout) /\ (q.code = None \/ q.code = ini[b].code)
  <2>1. LET d == [ini[b] EXCEPT !.pc = "row"]
        IN  d \in Initiation /\ Fit(d, for, payout) /\ d.code = ini[b].code
    BY <1>1 DEF Initiation, Fit
  <2> QED  BY <2>1, IdleFits DEF IdleInitiation
<1>3. At(b, q) /\ UNCHANGED <<tables, for, bank, hook, faults>>
  BY DEF CallReturns, CallFails, history
<1>4. unanswered' \subseteq Transfers
  BY <1>1 DEF CallReturns, CallFails, history, Inv, PayoutsTypeOK, Fit
<1> HIDE DEF q
<1>5. Onwards
  BY <1>3, Quiet DEF tables
<1>6. OneEach' /\ RequestsFit' /\ HooksReport' /\ ini' \in [Buyers -> Initiation]
  BY <1>2, <1>3, <1>5, RequestStep DEF tables
<1> QED  BY <1>3, <1>4, <1>5, <1>6, Unconfirming DEF tables, Inv, Fresh, PayoutsTypeOK

LEMMA InitPayoutRowInv ==
  ASSUME Inv, NEW b \in Buyers, InitPayoutRow(b)
  PROVE  Inv'
<1> DEFINE x == ini[b].code
           plain == ini[b].method = "bank_transfer"
           q == IF plain THEN IdleInitiation ELSE [ini[b] EXCEPT !.pc = "debit"]
           s == IF plain THEN "PENDING" ELSE "PROCESSING"
<1>1. ini[b] \in Initiation /\ Fit(ini[b], for, payout) /\ ini[b].pc = "row"
  BY Types DEF Inv, RequestsFit, InitPayoutRow
<1>2. x \in Transfers /\ payout[x] = "none" /\ for[x] \in Orders /\ for[x] # None
  BY <1>1, PayoutsAssumption DEF Fit
<1>3. /\ At(b, q) /\ payout' = [payout EXCEPT ![x] = s]
      /\ UNCHANGED <<ostatus, pay, opened, credits, pending, debits,
                     for, bank, hook, history>>
  BY DEF InitPayoutRow
<1>4. s \in PaymentStatus /\ s # "none" /\ s # "PAID"
  BY DEF PaymentStatus
<1>5. \A p : /\ q \in Initiation /\ Fit(q, for, p)
             /\ q.code = None \/ q.code = ini[b].code
  <2>1. LET d == [ini[b] EXCEPT !.pc = "debit"]
        IN  d \in Initiation /\ d.code = ini[b].code /\ \A p : Fit(d, for, p)
    BY <1>1 DEF Initiation, Fit
  <2> QED  BY <2>1, IdleFits DEF IdleInitiation
<1> HIDE DEF q, s
<1>6. payout' \in [Transfers -> PaymentStatus]
  BY <1>3, <1>4, Types
<1>7. Onwards
  BY <1>2, <1>3, <1>4, Types DEF Onwards, Later
<1>8. ASSUME NEW c \in Buyers \ {b}, ini[c].pc \in {"calling", "row"}
      PROVE  payout'[ini[c].code] = payout[ini[c].code]
  <2>1. ini[c].code # x
    BY <1>2, PayoutsAssumption DEF Inv, OneEach
  <2>2. ini[c].code \in Transfers
    BY <1>8 DEF Inv, RequestsFit, Fit
  <2> QED  BY <1>3, <2>1, <2>2, Types
<1>9. OneEach' /\ RequestsFit' /\ HooksReport' /\ ini' \in [Buyers -> Initiation]
  BY <1>3, <1>5, <1>7, <1>8, RequestStep
<1>10. Fresh'
  BY <1>2, <1>3, Types DEF Fresh, Inv
<1> QED  BY <1>3, <1>6, <1>7, <1>9, <1>10, Unconfirming DEF Inv, PayoutsTypeOK, history

LEMMA InitPendingDebitInv ==
  ASSUME Inv, NEW b \in Buyers, InitPendingDebit(b)
  PROVE  Inv'
<1> DEFINE q == [ini[b] EXCEPT !.pc = "ref"]
<1>1. ini[b] \in Initiation /\ Fit(ini[b], for, payout) /\ ini[b].pc = "debit"
  BY Types DEF Inv, RequestsFit, InitPendingDebit
<1>2. q \in Initiation /\ Fit(q, for, payout) /\ q.code = ini[b].code
  BY <1>1 DEF Initiation, Fit
<1>3. At(b, q) /\ UNCHANGED <<ostatus, pay, opened, credits, payout, debits,
                              for, bank, hook, history>>
  BY DEF InitPendingDebit
<1> HIDE DEF q
<1>4. pending' \in [Transfers -> Nat]
  BY <1>1, Types DEF InitPendingDebit, Fit
<1>5. Onwards
  BY <1>3, Quiet
<1>6. OneEach' /\ RequestsFit' /\ HooksReport' /\ ini' \in [Buyers -> Initiation]
  BY <1>2, <1>3, <1>5, RequestStep
<1> QED  BY <1>3, <1>4, <1>5, <1>6, Unconfirming DEF Inv, Fresh, PayoutsTypeOK, history

LEMMA InitReferenceInv ==
  ASSUME Inv, NEW b \in Buyers, InitReference(b)
  PROVE  Inv'
<1> DEFINE o == ini[b].order
           x == ini[b].code
<1>1. ini[b] \in Initiation /\ Fit(ini[b], for, payout) /\ ini[b].pc = "ref"
  BY Types DEF Inv, RequestsFit, InitReference
<1>2. o \in Orders /\ x \in Transfers /\ for[x] = o
  BY <1>1 DEF Fit
<1>3. /\ At(b, IdleInitiation)
      /\ pay' = [pay EXCEPT ![o] = [status |-> pay[o].status, ref |-> x]]
      /\ UNCHANGED <<ostatus, opened, credits, payout, pending, debits,
                     for, bank, hook, history>>
  BY DEF InitReference
<1>4. pay[o].status \in PaymentStatus
  BY <1>2, Types DEF Payment
<1> HIDE DEF o, x
<1>5. /\ pay' \in [Orders -> Payment]
      /\ \A p \in Orders : pay'[p].ref = (IF p = o THEN x ELSE pay[p].ref)
      /\ \A p \in Orders : pay'[p].status = pay[p].status
  BY <1>2, <1>3, <1>4, Types DEF Payment
<1>6. Onwards
  BY <1>3, Quiet
<1>7. OneEach' /\ RequestsFit' /\ HooksReport' /\ ini' \in [Buyers -> Initiation]
  <2>1. IdleInitiation.code = None
    BY DEF IdleInitiation
  <2> QED  BY <1>3, <1>6, <2>1, IdleFits, RequestStep
<1>8. References' /\ ConfirmedByTransfer'
  BY <1>2, <1>3, <1>5 DEF Inv, References, ConfirmedByTransfer
<1> QED  BY <1>3, <1>5, <1>7, <1>8 DEF Inv, Fresh, PayoutsTypeOK, history

-----------------------------------------------------------------------------
(* Notifications, charges, the bank and failures.                          *)

LEMMA HookFindsInv ==
  ASSUME Inv, NEW h \in Hooks, NEW x \in Transfers,
         HookFindsPayout(h, x) \/ \E o \in Orders : HookFindsPayment(h, x, o)
  PROVE  Inv'
<1>1. PICK q \in Notification :
        /\ To(h, q) /\ Reports(q, for, bank, payout)
        /\ UNCHANGED <<tables, for, bank, ini, history>>
  <2>1. CASE HookFindsPayout(h, x)
    <3> DEFINE q == [pc |-> IF bank[x] = "moved" THEN "close" ELSE "refuse",
                     code |-> x, order |-> None]
    <3>1. q \in Notification /\ Reports(q, for, bank, payout)
      BY <2>1 DEF HookFindsPayout, Notified, Notification, Reports
    <3>2. To(h, q) /\ UNCHANGED <<tables, for, bank, ini, history>>
      BY <2>1 DEF HookFindsPayout
    <3> QED  BY <3>1, <3>2
  <2>2. ASSUME NEW o \in Orders, HookFindsPayment(h, x, o)
        PROVE  \E q \in Notification :
                 /\ To(h, q) /\ Reports(q, for, bank, payout)
                 /\ UNCHANGED <<tables, for, bank, ini, history>>
    <3> DEFINE q == [pc |-> IF bank[x] = "moved" THEN "pay" ELSE "fail",
                     code |-> x, order |-> o]
    <3>1. for[x] = o
      BY <2>2, PayoutsAssumption DEF HookFindsPayment, PaymentWith, Inv, References
    <3>2. q \in Notification /\ Reports(q, for, bank, payout)
      BY <3>1 DEF Notification, Reports
    <3>3. To(h, q) /\ UNCHANGED <<tables, for, bank, ini, history>>
      BY <2>2 DEF HookFindsPayment
    <3> QED  BY <3>2, <3>3
  <2> QED  BY <2>1, <2>2
<1>2. Onwards
  BY <1>1, Quiet DEF tables
<1>3. OneEach' /\ RequestsFit' /\ HooksReport' /\ hook' \in [Hooks -> Notification]
  BY <1>1, <1>2, HookStepFits DEF tables
<1> QED  BY <1>1, <1>2, <1>3, Unconfirming DEF tables, history, Inv, Fresh, PayoutsTypeOK

\* HookPay, HookOrder and HookCredit: each of them confirms the order.
LEMMA HookConfirmsInv ==
  ASSUME Inv, NEW h \in Hooks, HookPay(h) \/ HookOrder(h) \/ HookCredit(h)
  PROVE  Inv'
<1> DEFINE o == hook[h].order
           x == hook[h].code
<1>1. /\ hook[h] \in Notification /\ Reports(hook[h], for, bank, payout)
      /\ hook[h].pc \in {"pay", "order", "credit"}
  BY Types DEF Inv, HooksReport, HookPay, HookOrder, HookCredit
<1>2. o \in Orders /\ x \in Transfers /\ for[x] = o /\ bank[x] = "moved"
  BY <1>1 DEF Reports
<1>3. PICK q \in Notification : To(h, q) /\ Reports(q, for, bank, payout)
  <2>1. \A s \in {"order", "credit"} :
          LET d == [hook[h] EXCEPT !.pc = s]
          IN  d \in Notification /\ Reports(d, for, bank, payout)
    BY <1>1, <1>2 DEF Notification, Reports
  <2> QED  BY <2>1, IdleFits DEF HookPay, HookOrder, HookCredit, Answer
<1>4. UNCHANGED <<opened, payout, pending, debits, for, bank, ini, history>>
  BY DEF HookPay, HookOrder, HookCredit
<1>5. /\ pay' \in [Orders -> Payment]
      /\ ostatus' \in [Orders -> {"AWAITING_PAYMENT", "PAID"}]
      /\ credits' \in [Orders -> Nat]
      /\ \A p \in Orders : pay'[p].ref = pay[p].ref
      /\ \A p \in Orders \ {o} : /\ pay'[p].status = pay[p].status
                                 /\ ostatus'[p] = ostatus[p]
                                 /\ credits'[p] = credits[p]
  <2>0. pay[o] \in Payment
    BY <1>2, Types
  <2> HIDE DEF o
  <2>1. LET d == [pay[o] EXCEPT !.status = "PAID"]
        IN  d \in Payment /\ d.ref = pay[o].ref
    BY <2>0 DEF Payment, PaymentStatus
  <2>2. CASE HookPay(h)
    BY <1>2, <2>1, <2>2, Types DEF HookPay, o
  <2>3. CASE HookOrder(h)
    BY <1>2, <2>3, Types DEF HookOrder, o
  <2>4. CASE HookCredit(h)
    BY <1>2, <2>4, Types DEF HookCredit, o
  <2> QED  BY <2>2, <2>3, <2>4
<1> HIDE DEF o, x
<1>6. Onwards
  BY <1>4, Quiet
<1>7. OneEach' /\ RequestsFit' /\ HooksReport' /\ hook' \in [Hooks -> Notification]
  BY <1>3, <1>4, <1>6, HookStepFits
<1>8. ConfirmedByTransfer'
  <2> SUFFICES ASSUME NEW p \in Orders,
                      pay'[p].status = "PAID" \/ ostatus'[p] = "PAID" \/ credits'[p] > 0
               PROVE  \E y \in Transfers : for[y] = p /\ bank[y] = "moved"
    BY <1>4 DEF ConfirmedByTransfer
  <2>1. CASE p = o
    BY <1>2, <2>1
  <2>2. CASE p # o
    BY <1>5, <2>2 DEF Inv, ConfirmedByTransfer
  <2> QED  BY <2>1, <2>2
<1>9. References'
  BY <1>4, <1>5 DEF Inv, References
<1> QED  BY <1>4, <1>5, <1>7, <1>8, <1>9 DEF Inv, Fresh, PayoutsTypeOK, history

\* A payment that is no longer paid confirms nothing.
LEMMA PaymentReset ==
  ASSUME Inv, NEW o \in Orders, NEW row \in Payment, pay' = [pay EXCEPT ![o] = row],
         row.ref \in {pay[o].ref, None}, row.status # "PAID",
         UNCHANGED <<ostatus, credits, for, bank>>
  PROVE  pay' \in [Orders -> Payment] /\ References' /\ ConfirmedByTransfer'
<1>1. /\ pay' \in [Orders -> Payment]
      /\ \A p \in Orders : pay'[p] = IF p = o THEN row ELSE pay[p]
  BY Types
<1>2. References'
  BY <1>1 DEF Inv, References
<1>3. ConfirmedByTransfer'
  BY <1>1 DEF Inv, ConfirmedByTransfer
<1> QED  BY <1>1, <1>2, <1>3

LEMMA HookFailInv ==
  ASSUME Inv, NEW h \in Hooks, HookFail(h)
  PROVE  Inv'
<1> DEFINE o == hook[h].order
           row == [pay[o] EXCEPT !.status = "FAILED"]
<1>1. o \in Orders
  BY DEF HookFail, Inv, HooksReport, Reports
<1>2. row \in Payment /\ row.ref = pay[o].ref /\ row.status # "PAID"
  BY <1>1, Types DEF Payment, PaymentStatus
<1>3. /\ To(h, IdleHook) /\ pay' = [pay EXCEPT ![o] = row]
      /\ UNCHANGED <<ostatus, opened, credits, payout, pending, debits,
                     for, bank, ini, history>>
  BY DEF HookFail, Answer
<1> HIDE DEF o, row
<1>4. pay' \in [Orders -> Payment] /\ References' /\ ConfirmedByTransfer'
  BY <1>1, <1>2, <1>3, PaymentReset
<1>5. OneEach' /\ RequestsFit' /\ HooksReport' /\ hook' \in [Hooks -> Notification]
  BY <1>3, IdleFits, Quiet, HookStepFits
<1> QED  BY <1>3, <1>4, <1>5 DEF Inv, Fresh, PayoutsTypeOK, history

\* HookClose, HookSettle and HookRefuse: the payout.
LEMMA HookPayoutInv ==
  ASSUME Inv, NEW h \in Hooks, HookClose(h) \/ HookSettle(h) \/ HookRefuse(h)
  PROVE  Inv'
<1> DEFINE x == hook[h].code
<1>1. hook[h] \in Notification /\ Reports(hook[h], for, bank, payout)
  BY Types DEF Inv, HooksReport
<1>2. x \in Transfers /\ payout[x] # "none"
  BY <1>1 DEF Reports, HookClose, HookSettle, HookRefuse
<1>3. UNCHANGED <<ostatus, pay, opened, credits, pending, for, bank, ini, history>>
  BY DEF HookClose, HookSettle, HookRefuse
<1>4. /\ payout' \in [Transfers -> PaymentStatus] /\ debits' \in [Transfers -> Nat]
      /\ \A y \in Transfers : payout'[y] = "none" <=> payout[y] = "none"
      /\ \A y \in Transfers :
           payout[y] = "PAID" /\ bank[y] = "moved" => payout'[y] = "PAID"
  <2>1. CASE HookClose(h)
    BY <1>2, <2>1, Types DEF HookClose, PaymentStatus
  <2>2. CASE HookSettle(h)
    BY <1>2, <2>2, Types DEF HookSettle
  <2>3. CASE HookRefuse(h)
    <3>1. bank[x] = "refused"
      BY <1>1, <2>3 DEF Reports, HookRefuse
    <3> QED  BY <1>2, <2>3, <3>1, Types DEF HookRefuse, PaymentStatus
  <2> QED  BY <2>1, <2>2, <2>3
<1>5. Onwards
  BY <1>3, <1>4 DEF Onwards, Later
<1>6. PICK q \in Notification : To(h, q) /\ Reports(q, for', bank', payout')
  <2>1. CASE HookClose(h)
    <3> DEFINE q == [hook[h] EXCEPT !.pc = "settle"]
    <3>1. payout'[x] = "PAID" /\ hook[h].pc = "close"
      BY <1>2, <2>1, Types DEF HookClose
    <3>2. q \in Notification /\ q.pc = "settle" /\ q.code = x
      BY <1>1 DEF Notification
    <3>3. To(h, q)
      BY <2>1 DEF HookClose
    <3>4. bank[x] = "moved"
      BY <1>1, <3>1 DEF Reports
    <3> HIDE DEF q, x
    <3>5. Reports(q, for', bank', payout')
      BY <1>2, <1>3, <3>1, <3>2, <3>4 DEF Reports
    <3> QED  BY <3>2, <3>3, <3>5
  <2>2. CASE HookSettle(h) \/ HookRefuse(h)
    BY <2>2, IdleFits DEF HookSettle, HookRefuse, Answer
  <2> QED  BY <2>1, <2>2
<1> HIDE DEF x
<1>7. OneEach' /\ RequestsFit' /\ HooksReport' /\ hook' \in [Hooks -> Notification]
  BY <1>3, <1>4, <1>5, <1>6, HookStepFits
<1>8. Fresh'
  BY <1>3, <1>4 DEF Inv, Fresh
<1> QED  BY <1>3, <1>4, <1>5, <1>7, <1>8, Unconfirming DEF Inv, PayoutsTypeOK, history

LEMMA ChargeStartedInv ==
  ASSUME Inv, NEW o \in Orders, ChargeStarted(o)
  PROVE  Inv'
<1> DEFINE row == [status |-> "PROCESSING", ref |-> None]
<1>1. row \in Payment /\ row.ref = None /\ row.status # "PAID"
  BY DEF Payment, PaymentStatus
<1>2. /\ pay' = [pay EXCEPT ![o] = row]
      /\ UNCHANGED <<ostatus, opened, credits, payout, pending, debits,
                     for, bank, ini, hook, history>>
  BY DEF ChargeStarted
<1> HIDE DEF row
<1>3. pay' \in [Orders -> Payment] /\ References' /\ ConfirmedByTransfer'
  BY <1>1, <1>2, PaymentReset
<1> QED  BY <1>2, <1>3
         DEF Inv, Fresh, OneEach, RequestsFit, HooksReport, PayoutsTypeOK, history

LEMMA BankDecidesInv ==
  ASSUME Inv, NEW x \in Transfers, NEW d \in {"moved", "refused"}, BankDecides(x, d)
  PROVE  Inv'
<1>1. /\ bank[x] = "asked" /\ bank' = [bank EXCEPT ![x] = d]
      /\ UNCHANGED <<tables, for, ini, hook, history>>
  BY DEF BankDecides
<1>2. bank' \in [Transfers -> {"none", "asked", "moved", "refused"}] /\ Onwards
  BY <1>1, Types DEF Onwards, Later, tables
<1>3. HooksReport'
  <2> SUFFICES ASSUME NEW h \in Hooks PROVE Reports(hook[h], for', bank', payout')
    BY <1>1 DEF HooksReport
  <2>1. hook[h] \in Notification /\ Reports(hook[h], for, bank, payout)
    BY Types DEF Inv, HooksReport
  <2> QED  BY <1>2, <2>1, ReportsLater DEF Onwards
<1>4. Fresh'
  BY <1>1, Types DEF Fresh, Inv, tables
<1> QED  BY <1>1, <1>2, <1>3, <1>4, Unconfirming
         DEF Inv, OneEach, RequestsFit, PayoutsTypeOK, tables, history

LEMMA DieInv ==
  ASSUME Inv, Die
  PROVE  Inv'
<1>1. faults' \in Nat /\ UNCHANGED <<tables, for, bank, unanswered>>
  BY DEF Inv, PayoutsTypeOK, Die
<1>2. Onwards
  BY <1>1, Quiet DEF tables
<1> DEFINE Kept == /\ OneEach' /\ RequestsFit' /\ HooksReport'
                   /\ ini' \in [Buyers -> Initiation]
                   /\ hook' \in [Hooks -> Notification]
<1>3. Kept
  <2>1. ASSUME NEW b \in Buyers, At(b, IdleInitiation), UNCHANGED hook
        PROVE  Kept
    <3>1. IdleInitiation.code = None
      BY DEF IdleInitiation
    <3> QED  BY <1>1, <1>2, <2>1, <3>1, IdleFits, RequestStep DEF tables
  <2>2. ASSUME NEW h \in Hooks, To(h, IdleHook), UNCHANGED ini
        PROVE  Kept
    BY <1>1, <1>2, <2>2, IdleFits, HookStepFits DEF tables
  <2> QED  BY <2>1, <2>2 DEF Die
<1> QED  BY <1>1, <1>2, <1>3, Unconfirming DEF Inv, Fresh, PayoutsTypeOK, tables

-----------------------------------------------------------------------------
LEMMA NextInv == Inv /\ [Next]_vars => Inv'
<1> SUFFICES ASSUME Inv, [Next]_vars PROVE Inv'
  OBVIOUS
<1>1. ASSUME NEW b \in Buyers, InitStep(b) PROVE Inv'
  BY <1>1, InitReadInv, InitCreateInv, InitPendingCreditInv, InitSendInv, CallInv,
     InitPayoutRowInv, InitPendingDebitInv, InitReferenceInv DEF InitStep
<1>2. ASSUME NEW h \in Hooks, HookStep(h) PROVE Inv'
  BY <1>2, HookConfirmsInv, HookFailInv, HookPayoutInv DEF HookStep
<1>3. CASE UNCHANGED vars
  BY <1>3 DEF vars, tables, history, Inv, PayoutsTypeOK, Fresh, References, OneEach,
              RequestsFit, HooksReport, ConfirmedByTransfer
<1> QED  BY <1>1, <1>2, <1>3, ChargeStartedInv, BankDecidesInv, HookFindsInv, DieInv
         DEF Next

\* Every reachable state satisfies the inductive invariant, which the theorems
\* below read off.
THEOREM Invariant == Spec => []Inv
  BY InitInv, NextInv, PTL DEF Spec

\* The type invariant: among others, what the rows of payments and payouts
\* may hold.
THEOREM PayoutsTyped == Spec => []PayoutsTypeOK
<1>1. Inv => PayoutsTypeOK
  BY DEF Inv
<1> QED  BY <1>1, Invariant, PTL

\* No order is confirmed, and no credit settled, unless a transfer that was
\* made for this order went through.
THEOREM OrdersConfirmedByTransfer == Spec => []ConfirmedByTransfer
<1>1. Inv => ConfirmedByTransfer
  BY DEF Inv
<1> QED  BY <1>1, Invariant, PTL

-----------------------------------------------------------------------------
(* The refinement.  Most steps leave the abstract books alone.             *)

\* The variables of Disbursement.tla as the rows show them.
Money(k) == [x \in Transfers |-> IF k[x] \in {"none", "asked"} THEN "here" ELSE k[x]]
Known(p) == [x \in Transfers |-> Standing(p[x])]

LEMMA InitBooks == Init => Bank!Init
  BY DEF Init, Bank!Init, Standing

LEMMA SendHidden ==
  ASSUME Inv, NEW b \in Buyers, NEW x \in Transfers, InitSend(b, x)
  PROVE  UNCHANGED Bank!vars
<1>1. bank[x] = "none" /\ UNCHANGED <<payout, debits>>
  BY DEF InitSend, Inv, Fresh, tables
<1>2. Money(bank') = Money(bank)
  <2>1. \A y \in Transfers : Money(bank')[y] = Money(bank)[y]
    BY <1>1, Types DEF InitSend, Money
  <2> QED  BY <2>1 DEF Money
<1> QED  BY <1>1, <1>2 DEF Bank!vars, Money

LEMMA RowRecords ==
  ASSUME Inv, NEW b \in Buyers, InitPayoutRow(b)
  PROVE  \E x \in Transfers : Bank!Record(x)
<1> DEFINE x == ini[b].code
<1>1. x \in Transfers /\ payout[x] = "none"
  BY DEF Inv, RequestsFit, Fit, InitPayoutRow
<1>2. UNCHANGED <<bank, debits>>
  BY DEF InitPayoutRow
<1>3. PICK s \in {"PENDING", "PROCESSING"} : payout' = [payout EXCEPT ![x] = s]
  BY DEF InitPayoutRow
<1> HIDE DEF x
<1>4. Known(payout') = [Known(payout) EXCEPT ![x] = "open"]
  <2>1. \A y \in Transfers :
          Known(payout')[y] = [Known(payout) EXCEPT ![x] = "open"][y]
    BY <1>1, <1>3, Types DEF Known, Standing
  <2> QED  BY <2>1 DEF Known
<1>5. Bank!Record(x)
  BY <1>1, <1>2, <1>4 DEF Bank!Record, Known, Standing
<1> QED  BY <1>1, <1>5

LEMMA BankMoves ==
  ASSUME Inv, NEW x \in Transfers, NEW d \in {"moved", "refused"}, BankDecides(x, d)
  PROVE  Bank!Decide(x)
<1>1. Money(bank') = [Money(bank) EXCEPT ![x] = d]
  <2>1. \A y \in Transfers : Money(bank')[y] = [Money(bank) EXCEPT ![x] = d][y]
    BY Types DEF BankDecides, Money
  <2> QED  BY <2>1 DEF Money
<1> QED  BY <1>1 DEF BankDecides, tables, Bank!Decide, Money

LEMMA HookBooks ==
  ASSUME Inv, NEW h \in Hooks, HookClose(h) \/ HookSettle(h) \/ HookRefuse(h)
  PROVE  \E x \in Transfers : Bank!Close(x) \/ Bank!Settle(x) \/ Bank!Fail(x)
<1> DEFINE x == hook[h].code
<1>1. Reports(hook[h], for, bank, payout)
  BY DEF Inv, HooksReport
<1>2. /\ x \in Transfers /\ payout[x] # "none"
      /\ bank[x] = IF HookRefuse(h) THEN "refused" ELSE "moved"
  BY <1>1 DEF Reports, HookClose, HookSettle, HookRefuse
<1>3. Known(payout)[x] # "no"
  BY <1>2, Types DEF Known, Standing, PaymentStatus
<1>4. UNCHANGED bank
  BY DEF HookClose, HookSettle, HookRefuse
<1>5. CASE HookClose(h)
  <2>1. Known(payout') = [Known(payout) EXCEPT ![x] = "closed"]
    <3>1. \A y \in Transfers :
            Known(payout')[y] = [Known(payout) EXCEPT ![x] = "closed"][y]
      BY <1>2, <1>5, Types DEF HookClose, Known, Standing
    <3> QED  BY <3>1 DEF Known
  <2>2. ~HookRefuse(h)
    BY <1>5 DEF HookClose, HookRefuse
  <2>3. Bank!Close(x)
    BY <1>2, <1>3, <1>4, <1>5, <2>1, <2>2 DEF HookClose, Bank!Close, Known
  <2> QED  BY <1>2, <2>3
<1>6. CASE HookSettle(h)
  <2>1. payout[x] = "PAID" /\ ~HookRefuse(h)
    BY <1>1, <1>6 DEF HookSettle, HookRefuse, Reports
  <2>2. Bank!Settle(x)
    BY <1>2, <1>4, <1>6, <2>1 DEF HookSettle, Bank!Settle, Standing
  <2> QED  BY <1>2, <2>2
<1>7. CASE HookRefuse(h)
  <2>1. Known(payout') = [Known(payout) EXCEPT ![x] = "failed"]
    <3>1. \A y \in Transfers :
            Known(payout')[y] = [Known(payout) EXCEPT ![x] = "failed"][y]
      BY <1>2, <1>7, Types DEF HookRefuse, Known, Standing
    <3> QED  BY <3>1 DEF Known
  <2>2. Bank!Fail(x)
    BY <1>2, <1>3, <1>4, <1>7, <2>1 DEF HookRefuse, Bank!Fail, Known
  <2> QED  BY <1>2, <2>2
<1> QED  BY <1>5, <1>6, <1>7

LEMMA NextBooks == Inv /\ [Next]_vars => [Bank!Next]_(Bank!vars)
<1> SUFFICES ASSUME Inv, [Next]_vars PROVE [Bank!Next]_(Bank!vars)
  OBVIOUS
<1>1. ASSUME UNCHANGED <<bank, payout, debits>>
      PROVE  UNCHANGED Bank!vars
  BY <1>1 DEF Bank!vars
<1>2. ASSUME NEW b \in Buyers, InitStep(b)
      PROVE  [Bank!Next]_(Bank!vars)
  <2>1. CASE InitPayoutRow(b)
    BY <2>1, RowRecords DEF Bank!Next
  <2>2. CASE \E x \in Transfers : InitSend(b, x)
    BY <2>2, SendHidden
  <2>3. CASE \/ \E o \in Orders, m \in Methods : InitRead(b, o, m)
             \/ InitCreate(b) \/ InitPendingCredit(b)
             \/ CallReturns(b) \/ CallFails(b)
             \/ InitPendingDebit(b) \/ InitReference(b)
    <3>1. UNCHANGED <<bank, payout, debits>>
      BY <2>3 DEF InitRead, InitCreate, InitPendingCredit, CallReturns, CallFails,
                  InitPendingDebit, InitReference, tables
    <3> QED  BY <1>1, <3>1
  <2> QED  BY <1>2, <2>1, <2>2, <2>3 DEF InitStep
<1>3. ASSUME NEW h \in Hooks, HookStep(h)
      PROVE  [Bank!Next]_(Bank!vars)
  <2>1. CASE HookClose(h) \/ HookSettle(h) \/ HookRefuse(h)
    BY <2>1, HookBooks DEF Bank!Next
  <2>2. CASE HookPay(h) \/ HookOrder(h) \/ HookCredit(h) \/ HookFail(h)
    <3>1. UNCHANGED <<bank, payout, debits>>
      BY <2>2 DEF HookPay, HookOrder, HookCredit, HookFail
    <3> QED  BY <1>1, <3>1
  <2> QED  BY <1>3, <2>1, <2>2 DEF HookStep
<1>4. ASSUME NEW x \in Transfers,
             \/ \E d \in {"moved", "refused"} : BankDecides(x, d)
             \/ \E h \in Hooks : HookFindsPayout(h, x)
                                 \/ \E o \in Orders : HookFindsPayment(h, x, o)
      PROVE  [Bank!Next]_(Bank!vars)
  <2>1. CASE \E d \in {"moved", "refused"} : BankDecides(x, d)
    BY <2>1, BankMoves DEF Bank!Next
  <2>2. CASE \E h \in Hooks : HookFindsPayout(h, x)
                              \/ \E o \in Orders : HookFindsPayment(h, x, o)
    <3>1. UNCHANGED <<bank, payout, debits>>
      BY <2>2 DEF HookFindsPayout, HookFindsPayment, tables
    <3> QED  BY <1>1, <3>1
  <2> QED  BY <1>4, <2>1, <2>2
<1>5. CASE (\E o \in Orders : ChargeStarted(o)) \/ Die \/ UNCHANGED vars
  <2>1. UNCHANGED <<bank, payout, debits>>
    BY <1>5 DEF ChargeStarted, Die, vars, tables
  <2> QED  BY <1>1, <2>1
<1> QED  BY <1>2, <1>3, <1>4, <1>5 DEF Next

\* The books of the service never say more of a transfer than the bank did,
\* in whatever order requests, notifications and failures interleave.
THEOREM BooksFollowBank == Spec => ImplementsDisbursement
<1>1. Init => Bank!Init
  BY InitBooks
<1>2. Inv /\ [Next]_vars => [Bank!Next]_(Bank!vars)
  BY NextBooks
<1> QED  BY <1>1, <1>2, Invariant, PTL DEF Spec, ImplementsDisbursement, Bank!Spec

-----------------------------------------------------------------------------
(* Pending credits: who creates the payment opens it, and nobody else.     *)

Opening(b) == ini[b].pc = "open"
Paid(o) == pay[o].status # "none"

Opens ==
    /\ \A o \in Orders : opened[o] <= 1 /\ (opened[o] = 1 => Paid(o))
    /\ \A b \in Buyers : Opening(b) => Paid(ini[b].order) /\ opened[ini[b].order] = 0
    /\ \A b, c \in Buyers :
          Opening(b) /\ Opening(c) /\ ini[b].order = ini[c].order => b = c
    /\ \A h \in Hooks : hook[h].pc \in {"pay", "fail"} => Paid(hook[h].order)
    /\ OpenedOnce

\* Steps that neither create a payment nor open one.
LEMMA OpensStay ==
  ASSUME Inv, Opens, UNCHANGED opened, \A o \in Orders : Paid(o)' <=> Paid(o),
         \A b \in Buyers : Opening(b)' => ini'[b] = ini[b],
         faults' = 0 => faults = 0 /\ \A b \in Buyers : Opening(b) => ini'[b] = ini[b],
         \A h \in Hooks : hook'[h].pc \in {"pay", "fail"} =>
            hook'[h].order \in Orders /\ Paid(hook'[h].order)
  PROVE  Opens'
<1>1. \A b \in Buyers : Opening(b) => ini[b].order \in Orders
  BY DEF Inv, RequestsFit, Fit, Opening
<1>2. \A b \in Buyers : Opening(b)' => Opening(b)
  BY DEF Opening
<1>3. \A o \in Orders : opened'[o] <= 1 /\ (opened'[o] = 1 => Paid(o)')
  BY DEF Opens
<1>4. \A b \in Buyers : Opening(b)' => Paid(ini[b].order)' /\ opened'[ini'[b].order] = 0
  BY <1>1, <1>2 DEF Opens, Paid
<1>5. \A b, c \in Buyers :
        Opening(b)' /\ Opening(c)' /\ ini'[b].order = ini'[c].order => b = c
  BY <1>2 DEF Opens
<1>6. \A h \in Hooks : hook'[h].pc \in {"pay", "fail"} => Paid(hook[h].order)'
  BY DEF Paid
<1>7. OpenedOnce'
  <2> SUFFICES ASSUME NEW o \in Orders, faults' = 0, Paid(o)', opened'[o] # 1
               PROVE  \E b \in Buyers : ini'[b].order = o /\ ini'[b].pc = "open"
    BY <1>3 DEF OpenedOnce, Paid
  <2>1. PICK b \in Buyers : ini[b].order = o /\ ini[b].pc = "open"
    BY DEF Opens, OpenedOnce, Paid
  <2> QED  BY <2>1 DEF Opening
<1> QED  BY <1>3, <1>4, <1>5, <1>6, <1>7 DEF Opens

LEMMA RequestOpensStay ==
  ASSUME Inv, Opens, NEW b \in Buyers, NEW q, At(b, q), q.pc # "open", ini[b].pc # "open",
         UNCHANGED <<opened, hook, faults>>, \A o \in Orders : Paid(o)' <=> Paid(o)
  PROVE  Opens'
<1>1. \A c \in Buyers : ini'[c] = IF c = b THEN q ELSE ini[c]
  BY Types DEF At
<1>2. \A h \in Hooks : hook'[h].pc \in {"pay", "fail"} =>
         hook'[h].order \in Orders /\ Paid(hook'[h].order)
  BY DEF Inv, HooksReport, Reports, Opens
<1> QED  BY <1>1, <1>2, OpensStay DEF Opening

LEMMA HookOpensStay ==
  ASSUME Inv, Opens, NEW h \in Hooks, NEW q, To(h, q), UNCHANGED <<opened, ini, faults>>,
         q.pc \in {"pay", "fail"} => q.order \in Orders /\ Paid(q.order),
         \A o \in Orders : Paid(o)' <=> Paid(o)
  PROVE  Opens'
<1>1. \A g \in Hooks : hook'[g] = IF g = h THEN q ELSE hook[g]
  BY Types DEF To
<1>2. \A g \in Hooks : hook'[g].pc \in {"pay", "fail"} =>
         hook'[g].order \in Orders /\ Paid(hook'[g].order)
  BY <1>1 DEF Inv, HooksReport, Reports, Opens
<1> QED  BY <1>2, OpensStay DEF Opening

LEMMA CreateOpens ==
  ASSUME Inv, Opens, NEW b \in Buyers, InitCreate(b)
  PROVE  Opens'
<1> DEFINE o == ini[b].order
<1>1. ini[b] \in Initiation /\ ini[b].pc = "create" /\ o \in Orders
  BY Types DEF Inv, RequestsFit, Fit, InitCreate
<1>2. CASE Paid(o)
  <2>1. At(b, IdleInitiation) /\ UNCHANGED <<pay, opened, hook, faults>>
    BY <1>2 DEF InitCreate, Paid, history
  <2> QED  BY <1>1, <2>1, RequestOpensStay DEF IdleInitiation, Paid
<1>3. CASE ~Paid(o)
  <2>1. /\ ini' = [ini EXCEPT ![b] = [ini[b] EXCEPT !.pc = "open"]]
        /\ pay' = [pay EXCEPT ![o] = [pay[o] EXCEPT !.status = "PENDING"]]
        /\ UNCHANGED <<opened, hook, faults>>
    BY <1>3 DEF InitCreate, Paid, history, At
  <2>2. /\ ini'[b].pc = "open" /\ ini'[b].order = o
        /\ \A c \in Buyers : c # b => ini'[c] = ini[c]
    BY <1>1, <2>1, Types DEF Initiation
  <2>3. Paid(o)' /\ \A x \in Orders : x # o => pay'[x] = pay[x]
    BY <1>1, <2>1, Types DEF Paid, Payment
  <2> HIDE DEF o
  <2>4. \A c \in Buyers : Opening(c) => ini[c].order # o
    BY <1>3 DEF Opens
  <2>5. opened[o] = 0 /\ opened[o] \in Nat
    BY <1>1, <1>3, Types DEF Opens
  <2>6. \A c \in Buyers : Opening(c) => ini[c].order \in Orders
    BY DEF Inv, RequestsFit, Fit, Opening
  <2>7. \A h \in Hooks : hook[h].pc \in {"pay", "fail"} => hook[h].order \in Orders
    BY DEF Inv, HooksReport, Reports
  <2>8. OpenedOnce'
    <3> SUFFICES ASSUME NEW x \in Orders, faults = 0, Paid(x)', opened[x] # 1
                 PROVE  \E c \in Buyers : ini'[c].order = x /\ ini'[c].pc = "open"
      BY <2>1 DEF OpenedOnce, Paid, Opens
    <3>1. CASE x = o
      BY <2>2, <3>1
    <3>2. CASE x # o
      <4>1. Paid(x)
        BY <2>3, <3>2 DEF Paid
      <4>2. PICK c \in Buyers : ini[c].order = x /\ ini[c].pc = "open"
        BY <4>1 DEF Opens, OpenedOnce, Paid
      <4>3. c # b
        BY <1>1, <4>2
      <4> QED  BY <2>2, <4>2, <4>3
    <3> QED  BY <3>1, <3>2
  <2>9. \A x \in Orders : opened'[x] <= 1 /\ (opened'[x] = 1 => Paid(x)')
    BY <2>1, <2>3, <2>5 DEF Opens, Paid
  <2>10. \A c \in Buyers : Opening(c)' => Paid(ini[c].order)' /\ opened'[ini'[c].order] = 0
    <3> SUFFICES ASSUME NEW c \in Buyers, Opening(c)'
                 PROVE  Paid(ini[c].order)' /\ opened'[ini'[c].order] = 0
      OBVIOUS
    <3>1. CASE c = b
      BY <2>1, <2>2, <2>3, <2>5, <3>1 DEF Paid, o
    <3>2. CASE c # b
      <4>1. Opening(c) /\ ini'[c] = ini[c] /\ ini[c].order \in Orders /\ ini[c].order # o
        BY <2>2, <2>4, <2>6, <3>2 DEF Opening
      <4> QED  BY <2>1, <2>3, <4>1 DEF Opens, Paid
    <3> QED  BY <3>1, <3>2
  <2>11. \A c, d \in Buyers :
           Opening(c)' /\ Opening(d)' /\ ini'[c].order = ini'[d].order => c = d
    BY <2>2, <2>4 DEF Opens, Opening
  <2>12. \A h \in Hooks : hook'[h].pc \in {"pay", "fail"} => Paid(hook[h].order)'
    BY <2>1, <2>3, <2>7 DEF Opens, Paid
  <2> QED  BY <2>8, <2>9, <2>10, <2>11, <2>12 DEF Opens
<1> QED  BY <1>2, <1>3

LEMMA CreditOpens ==
  ASSUME Inv, Opens, NEW b \in Buyers, InitPendingCredit(b)
  PROVE  Opens'
<1> DEFINE o == ini[b].order
<1>1. ini[b] \in Initiation /\ Opening(b) /\ o \in Orders
  BY Types DEF Inv, RequestsFit, Fit, InitPendingCredit, Opening
<1>2. opened[o] = 0 /\ Paid(o)
  BY <1>1 DEF Opens
<1>3. /\ opened' = [opened EXCEPT ![o] = 1] /\ UNCHANGED <<pay, hook, faults>>
      /\ ini' = [ini EXCEPT ![b] = [ini[b] EXCEPT !.pc = "send"]]
  BY <1>2 DEF InitPendingCredit, history, At
<1>4. ini'[b].pc = "send" /\ \A c \in Buyers : c # b => ini'[c] = ini[c]
  BY <1>1, <1>3, Types DEF Initiation
<1>5. opened'[o] = 1 /\ \A x \in Orders : x # o => opened'[x] = opened[x]
  BY <1>1, <1>3, Types
<1> HIDE DEF o
<1>6. \A c \in Buyers : Opening(c)' => Opening(c) /\ ini'[c] = ini[c] /\ c # b
  BY <1>4 DEF Opening
<1>7. \A c \in Buyers : Opening(c)' => ini[c].order # o /\ ini[c].order \in Orders
  BY <1>1, <1>6 DEF Opens, o, Inv, RequestsFit, Fit, Opening
<1>8. OpenedOnce'
  <2> SUFFICES ASSUME NEW x \in Orders
               PROVE  /\ opened'[x] <= 1
                      /\ faults = 0 /\ Paid(x) => opened'[x] = 1 \/
                           \E c \in Buyers : ini'[c].order = x /\ ini'[c].pc = "open"
    BY <1>3 DEF OpenedOnce, Paid
  <2>1. CASE x = o
    BY <1>5, <2>1
  <2>2. CASE x # o
    <3>1. opened'[x] = opened[x] /\ opened[x] <= 1
      BY <1>5, <2>2 DEF Opens
    <3>2. ASSUME NEW c \in Buyers, ini[c].order = x, ini[c].pc = "open"
          PROVE  ini'[c] = ini[c]
      BY <1>4, <2>2, <3>2 DEF o
    <3> QED  BY <3>1, <3>2 DEF Opens, OpenedOnce, Paid
  <2> QED  BY <2>1, <2>2
<1>9. \A x \in Orders : opened'[x] <= 1 /\ (opened'[x] = 1 => Paid(x)')
  BY <1>2, <1>3, <1>5 DEF Opens, Paid
<1>10. \A c \in Buyers : Opening(c)' => Paid(ini[c].order)' /\ opened'[ini'[c].order] = 0
  BY <1>3, <1>5, <1>6, <1>7 DEF Opens, Paid
<1>11. \A c, d \in Buyers :
         Opening(c)' /\ Opening(d)' /\ ini'[c].order = ini'[d].order => c = d
  BY <1>6 DEF Opens
<1>12. \A h \in Hooks : hook'[h].pc \in {"pay", "fail"} => Paid(hook[h].order)'
  BY <1>3 DEF Opens, Paid
<1> QED  BY <1>8, <1>9, <1>10, <1>11, <1>12 DEF Opens

LEMMA RequestOpens ==
  ASSUME Inv, Opens, NEW b \in Buyers, InitStep(b)
  PROVE  Opens'
<1>0. ini[b] \in Initiation /\ Fit(ini[b], for, payout)
  BY Types DEF Inv, RequestsFit
<1>1. ASSUME NEW o \in Orders, NEW m \in Methods, InitRead(b, o, m)
      PROVE  Opens'
  BY <1>1, RequestOpensStay DEF InitRead, tables, history, Paid
<1>2. ASSUME NEW x \in Transfers, InitSend(b, x)
      PROVE  Opens'
  <2> DEFINE q == [ini[b] EXCEPT !.pc = IF ini[b].method = "kwik" THEN "calling" ELSE "row",
                                 !.code = x]
  <2>1. q.pc # "open" /\ ini[b].pc = "send"
    BY <1>0, <1>2 DEF InitSend, Initiation
  <2>2. At(b, q) /\ UNCHANGED <<pay, opened, hook, faults>>
    BY <1>2 DEF InitSend, tables, history
  <2> HIDE DEF q
  <2> QED  BY <2>1, <2>2, RequestOpensStay DEF Paid
<1>3. ASSUME NEW p \in {"row", "debit", "ref"}, ini[b].pc # "open",
             At(b, [ini[b] EXCEPT !.pc = p]) \/ At(b, IdleInitiation),
             UNCHANGED <<opened, hook, faults>>, \A o \in Orders : Paid(o)' <=> Paid(o)
      PROVE  Opens'
  <2>1. [ini[b] EXCEPT !.pc = p].pc # "open" /\ IdleInitiation.pc # "open"
    BY <1>0 DEF Initiation, IdleInitiation
  <2> QED  BY <1>3, <2>1, RequestOpensStay
<1>4. CASE CallReturns(b)
  BY <1>3, <1>4 DEF CallReturns, tables, history, Paid
<1>5. CASE CallFails(b)
  BY <1>3, <1>5 DEF CallFails, tables, Paid
<1>6. CASE InitPayoutRow(b)
  BY <1>3, <1>6 DEF InitPayoutRow, history, Paid
<1>7. CASE InitPendingDebit(b)
  BY <1>3, <1>7 DEF InitPendingDebit, history, Paid
<1>8. CASE InitReference(b)
  <2> DEFINE o == ini[b].order
  <2>1. o \in Orders /\ ini[b].pc = "ref" /\ At(b, IdleInitiation)
        /\ UNCHANGED <<opened, hook, faults>>
    BY <1>0, <1>8 DEF Fit, InitReference, history
  <2>2. pay' = [pay EXCEPT ![o] = [status |-> pay[o].status, ref |-> ini[b].code]]
    BY <1>8 DEF InitReference
  <2>3. \A x \in Orders : Paid(x)' <=> Paid(x)
    BY <2>1, <2>2, Types DEF Paid, Payment
  <2> QED  BY <1>3, <2>1, <2>3
<1> QED  BY <1>1, <1>2, <1>4, <1>5, <1>6, <1>7, <1>8, CreateOpens, CreditOpens DEF InitStep

LEMMA HookOpens ==
  ASSUME Inv, Opens, NEW h \in Hooks,
         \/ HookStep(h)
         \/ \E x \in Transfers :
               HookFindsPayout(h, x) \/ \E o \in Orders : HookFindsPayment(h, x, o)
  PROVE  Opens'
<1>0. hook[h] \in Notification /\ Reports(hook[h], for, bank, payout)
  BY Types DEF Inv, HooksReport
<1>1. ASSUME NEW x \in Transfers, NEW o \in Orders, HookFindsPayment(h, x, o)
      PROVE  Opens'
  <2> DEFINE q == [pc |-> IF bank[x] = "moved" THEN "pay" ELSE "fail", code |-> x, order |-> o]
  <2>1. To(h, q) /\ UNCHANGED <<opened, ini, faults, pay>> /\ Paid(o) /\ q.order = o
    BY <1>1 DEF HookFindsPayment, tables, history, PaymentWith, Paid
  <2> HIDE DEF q
  <2> QED  BY <2>1, HookOpensStay DEF Paid
<1>2. ASSUME NEW x \in Transfers, HookFindsPayout(h, x)
      PROVE  Opens'
  <2> DEFINE q == [pc |-> IF bank[x] = "moved" THEN "close" ELSE "refuse",
                   code |-> x, order |-> None]
  <2>1. To(h, q) /\ UNCHANGED <<opened, ini, faults, pay>> /\ q.pc \in {"close", "refuse"}
    BY <1>2 DEF HookFindsPayout, tables, history
  <2> HIDE DEF q
  <2> QED  BY <2>1, HookOpensStay DEF Paid
<1>3. ASSUME NEW p \in {"order", "credit", "settle"},
             To(h, [hook[h] EXCEPT !.pc = p]) \/ To(h, IdleHook),
             UNCHANGED <<opened, ini, faults>>, \A o \in Orders : Paid(o)' <=> Paid(o)
      PROVE  Opens'
  <2>1. /\ [hook[h] EXCEPT !.pc = p].pc \notin {"pay", "fail"}
        /\ IdleHook.pc \notin {"pay", "fail"}
    BY <1>0 DEF Notification, IdleHook
  <2> QED  BY <1>3, <2>1, HookOpensStay
<1>4. ASSUME NEW d \in {"PAID", "FAILED"}, hook[h].pc \in {"pay", "fail"},
             pay' = [pay EXCEPT ![hook[h].order] = [pay[hook[h].order] EXCEPT !.status = d]]
      PROVE  \A o \in Orders : Paid(o)' <=> Paid(o)
  <2>1. hook[h].order \in Orders /\ Paid(hook[h].order)
    BY <1>0, <1>4 DEF Reports, Opens
  <2> QED  BY <1>4, <2>1, Types DEF Paid, Payment
<1>5. CASE HookPay(h)
  BY <1>3, <1>4, <1>5 DEF HookPay, history
<1>6. CASE HookFail(h)
  BY <1>3, <1>4, <1>6 DEF HookFail, Answer, history
<1>7. CASE HookOrder(h) \/ HookCredit(h) \/ HookClose(h) \/ HookSettle(h) \/ HookRefuse(h)
  <2>1. \A o \in Orders : Paid(o)' <=> Paid(o)
    BY <1>7 DEF HookOrder, HookCredit, HookClose, HookSettle, HookRefuse, Paid
  <2> QED  BY <1>3, <1>7, <2>1 DEF HookOrder, HookCredit, HookClose, HookSettle, HookRefuse,
                                 Answer, history
<1> QED  BY <1>1, <1>2, <1>5, <1>6, <1>7 DEF HookStep

LEMMA OpensInductive == Inv /\ Opens /\ [Next]_vars => Opens'
<1> SUFFICES ASSUME Inv, Opens, [Next]_vars PROVE Opens'
  OBVIOUS
<1>0. \A h \in Hooks : hook[h].pc \in {"pay", "fail"} =>
         hook[h].order \in Orders /\ Paid(hook[h].order)
  BY DEF Inv, HooksReport, Reports, Opens
<1>1. ASSUME NEW o \in Orders, ChargeStarted(o)
      PROVE  Opens'
  <2>1. \A x \in Orders : Paid(x)' <=> Paid(x)
    BY <1>1, Types DEF ChargeStarted, Paid
  <2> QED  BY <1>0, <1>1, <2>1, OpensStay DEF ChargeStarted, history
<1>2. CASE \/ \E x \in Transfers, d \in {"moved", "refused"} : BankDecides(x, d)
           \/ UNCHANGED vars
  <2>1. UNCHANGED <<pay, opened, ini, hook, faults>>
    BY <1>2 DEF BankDecides, vars, tables, history
  <2> QED  BY <1>0, <2>1, OpensStay DEF Paid
<1>3. CASE Die
  <2>1. UNCHANGED <<pay, opened>> /\ faults' # 0
    BY <1>3 DEF Die, tables, Inv, PayoutsTypeOK
  <2>2. /\ \A b \in Buyers : Opening(b)' => ini'[b] = ini[b]
        /\ \A h \in Hooks : hook'[h].pc \in {"pay", "fail"} => hook'[h] = hook[h]
    BY <1>3, Types DEF Die, At, To, Opening, IdleInitiation, IdleHook
  <2> QED  BY <1>0, <2>1, <2>2, OpensStay DEF Paid
<1> QED  BY <1>1, <1>2, <1>3, RequestOpens, HookOpens DEF Next

\* However many initiations of an order race, its payment is opened in the
\* ledger once, and only a death leaves it without
\* (payments.service.ts:265-293).
THEOREM PaymentsOpenedOnce == Spec => []OpenedOnce
<1>1. Init => Opens
  <2> SUFFICES ASSUME Init PROVE Opens
    OBVIOUS
  <2>1. \A b \in Buyers : ~Opening(b)
    BY DEF Init, Opening, IdleInitiation
  <2>2. \A h \in Hooks : hook[h].pc \notin {"pay", "fail"}
    BY DEF Init, IdleHook
  <2> QED  BY <2>1, <2>2 DEF Init, Opens, Paid, OpenedOnce
<1>2. Opens => OpenedOnce
  BY DEF Opens
<1> QED  BY <1>1, <1>2, OpensInductive, Invariant, PTL DEF Spec

-----------------------------------------------------------------------------
(* Transfers on record: which of its rows a request has still to write.    *)

Records ==
    /\ \A x \in Transfers : for[x] = None => pending[x] = 0
    /\ \A b \in Buyers : ini[b].pc \in {"calling", "row", "debit"} => pending[ini[b].code] = 0
    /\ \A b \in Buyers : ini[b].pc = "calling" => ini[b].method = "kwik"
    /\ \A b \in Buyers : ini[b].pc = "row" /\ ini[b].method = "bank_transfer" =>
                           bank[ini[b].code] = "none"
    /\ TransfersRecorded

\* Steps that leave pending debits and requests alone, or end a request with
\* a death.
LEMMA RecordsStay ==
  ASSUME Inv, Records, UNCHANGED <<for, pending, unanswered>>,
         \A x \in Transfers : bank'[x] = "none" <=> bank[x] = "none",
         \A x \in Transfers : payout[x] # "none" => payout'[x] # "none",
         \A b \in Buyers : ini'[b] = ini[b] \/ ini'[b].pc = "idle",
         faults' = 0 => faults = 0 /\ UNCHANGED ini
  PROVE  Records'
<1>1. \A b \in Buyers : ini[b].pc = "row" => ini[b].code \in Transfers
  BY DEF Inv, RequestsFit, Fit
<1>2. TransfersRecorded'
  BY DEF TransfersRecorded, Recording, Records
<1>3. \A b \in Buyers : ini'[b].pc = "row" /\ ini'[b].method = "bank_transfer" =>
                         bank'[ini'[b].code] = "none"
  BY <1>1 DEF Records
<1> QED  BY <1>2, <1>3 DEF Records

\* A step of one request that has no transfer in hand, before and after.
LEMMA RequestRecordsStay ==
  ASSUME Inv, Records, NEW b \in Buyers, NEW q, At(b, q),
         UNCHANGED <<for, bank, payout, pending, unanswered, faults>>,
         ini[b].pc \notin {"calling", "row", "debit"},
         q.pc \notin {"calling", "row", "debit"}
  PROVE  Records'
<1>1. \A c \in Buyers : ini'[c] = IF c = b THEN q ELSE ini[c]
  BY Types DEF At
<1>2. \A x, pcs : pcs \subseteq {"calling", "row", "debit"} =>
                  (Recording(x, pcs) => Recording(x, pcs)')
  BY <1>1 DEF Recording
<1>3. TransfersRecorded'
  BY <1>2 DEF TransfersRecorded, Records
<1> QED  BY <1>1, <1>3 DEF Records

LEMMA SendRecords ==
  ASSUME Inv, Records, NEW b \in Buyers, NEW x \in Transfers, InitSend(b, x)
  PROVE  Records'
<1> DEFINE m == ini[b].method
           q == [ini[b] EXCEPT !.pc = IF m = "kwik" THEN "calling" ELSE "row", !.code = x]
<1>0. ini[b] \in Initiation /\ Fit(ini[b], for, payout) /\ ini[b].pc = "send"
  BY Types DEF Inv, RequestsFit, InitSend
<1>1. /\ for[x] = None /\ bank[x] = "none" /\ pending[x] = 0
      /\ for' = [for EXCEPT ![x] = ini[b].order]
      /\ bank' = IF m = "kwik" THEN [bank EXCEPT ![x] = "asked"] ELSE bank
      /\ ini' = [ini EXCEPT ![b] = q]
      /\ UNCHANGED <<payout, pending, unanswered, faults>>
  BY DEF InitSend, Inv, Fresh, Records, tables, history, At
<1>2. /\ q.pc = (IF m = "kwik" THEN "calling" ELSE "row") /\ q.code = x /\ q.method = m
      /\ ini[b].order \in Orders
  BY <1>0 DEF Initiation, Fit
<1> HIDE DEF q, m
<1>3. ini'[b] = q /\ \A c \in Buyers : c # b => ini'[c] = ini[c]
  BY <1>1, Types
<1>4. \A c \in Buyers : ini[c].pc \in {"calling", "row", "debit"} =>
                         c # b /\ ini[c].code \in Transfers /\ ini[c].code # x
  BY <1>0, <1>1, PayoutsAssumption DEF Inv, RequestsFit, Fit
<1>5. \A y \in Transfers : y # x => for'[y] = for[y] /\ bank'[y] = bank[y]
  BY <1>1, Types
<1>6. for'[x] # None
  BY <1>1, <1>2, Types, PayoutsAssumption
<1>7. \A y \in Transfers : for'[y] = None => pending'[y] = 0
  BY <1>1, <1>5 DEF Records
<1>8. \A c \in Buyers : ini'[c].pc \in {"calling", "row", "debit"} => pending'[ini'[c].code] = 0
  BY <1>1, <1>2, <1>3 DEF Records
<1>9. \A c \in Buyers : ini'[c].pc = "calling" => ini'[c].method = "kwik"
  BY <1>2, <1>3 DEF Records
<1>10. \A c \in Buyers : ini'[c].pc = "row" /\ ini'[c].method = "bank_transfer" =>
                          bank'[ini'[c].code] = "none"
  BY <1>1, <1>2, <1>3, <1>4, <1>5 DEF Records
<1>11. \A y, pcs : pcs \subseteq {"calling", "row", "debit"} =>
                   (Recording(y, pcs) => Recording(y, pcs)')
  BY <1>3, <1>4 DEF Recording
<1>12. TransfersRecorded'
  <2> SUFFICES ASSUME NEW y \in Transfers,
                      bank'[y] # "none", y \notin unanswered, faults = 0
               PROVE  /\ payout[y] # "none" \/ Recording(y, {"calling", "row"})'
                      /\ pending[y] = 1 \/ Recording(y, {"calling", "row", "debit"})'
    BY <1>1 DEF TransfersRecorded
  <2>1. CASE y = x
    BY <1>2, <1>3, <2>1 DEF Recording
  <2>2. CASE y # x
    BY <1>5, <1>11, <2>2 DEF Records, TransfersRecorded
  <2> QED  BY <2>1, <2>2
<1> QED  BY <1>7, <1>8, <1>9, <1>10, <1>12 DEF Records

\* Steps of a request b on its transfer x: no other request has x in hand.
LEMMA OwnTransfer ==
  ASSUME Inv, Records, NEW b \in Buyers, ini[b].pc \in {"calling", "row", "debit", "ref"}
  PROVE  /\ ini[b].code \in Transfers /\ for[ini[b].code] # None
         /\ \A c \in Buyers : c # b => ini[c].code # ini[b].code
         /\ \A c \in Buyers : ini[c].pc \in {"calling", "row", "debit"} =>
               ini[c].code \in Transfers
BY PayoutsAssumption DEF Inv, RequestsFit, Fit, OneEach

LEMMA CallRecords ==
  ASSUME Inv, Records, NEW b \in Buyers, CallReturns(b) \/ CallFails(b)
  PROVE  Records'
<1> DEFINE x == ini[b].code
<1>0. ini[b] \in Initiation /\ ini[b].pc = "calling"
  BY Types DEF CallReturns, CallFails
<1>1. UNCHANGED <<for, bank, payout, pending, faults>>
  BY DEF CallReturns, CallFails, tables, history
<1>2. CASE CallReturns(b)
  <2>1. ini' = [ini EXCEPT ![b] = [ini[b] EXCEPT !.pc = "row"]] /\ unanswered' = unanswered
    BY <1>2 DEF CallReturns, At, history
  <2>2. /\ ini'[b].pc = "row" /\ ini'[b].code = x /\ ini'[b].method = ini[b].method
        /\ \A c \in Buyers : c # b => ini'[c] = ini[c]
    BY <1>0, <2>1, Types DEF Initiation
  <2>3. ini'[b].method = "kwik" /\ pending[x] = 0
    BY <1>0, <2>2 DEF Records
  <2>4. TransfersRecorded'
    <3> SUFFICES ASSUME NEW y \in Transfers,
                        bank[y] # "none", y \notin unanswered, faults = 0
                 PROVE  /\ payout[y] # "none" \/ Recording(y, {"calling", "row"})'
                        /\ pending[y] = 1 \/ Recording(y, {"calling", "row", "debit"})'
      BY <1>1, <2>1 DEF TransfersRecorded
    <3>1. /\ payout[y] # "none" \/ Recording(y, {"calling", "row"})
          /\ pending[y] = 1 \/ Recording(y, {"calling", "row", "debit"})
      BY DEF Records, TransfersRecorded
    <3>2. /\ Recording(y, {"calling", "row"}) => Recording(y, {"calling", "row"})'
          /\ Recording(y, {"calling", "row", "debit"}) =>
               Recording(y, {"calling", "row", "debit"})'
      BY <1>0, <2>2 DEF Recording
    <3> QED  BY <3>1, <3>2
  <2> HIDE DEF x
  <2>5. \A c \in Buyers : /\ ini'[c].pc \in {"calling", "row", "debit"} => pending[ini'[c].code] = 0
                          /\ ini'[c].pc = "calling" => ini'[c].method = "kwik"
                          /\ ini'[c].pc = "row" /\ ini'[c].method = "bank_transfer" =>
                               bank[ini'[c].code] = "none"
    BY <2>2, <2>3 DEF Records
  <2> QED  BY <1>1, <2>4, <2>5 DEF Records
<1>3. CASE CallFails(b)
  <2>1. ini' = [ini EXCEPT ![b] = IdleInitiation] /\ unanswered' = unanswered \cup {x}
    BY <1>3 DEF CallFails, At
  <2>2. ini'[b].pc = "idle" /\ \A c \in Buyers : c # b => ini'[c] = ini[c]
    BY <2>1, Types DEF IdleInitiation
  <2>3. \A y : y # x =>
              /\ Recording(y, {"calling", "row"}) => Recording(y, {"calling", "row"})'
              /\ Recording(y, {"calling", "row", "debit"}) =>
                   Recording(y, {"calling", "row", "debit"})'
    BY <2>2 DEF Recording
  <2>4. TransfersRecorded'
    BY <1>1, <2>1, <2>3 DEF Records, TransfersRecorded
  <2>5. \A c \in Buyers : /\ ini'[c].pc \in {"calling", "row", "debit"} => pending[ini'[c].code] = 0
                          /\ ini'[c].pc = "calling" => ini'[c].method = "kwik"
                          /\ ini'[c].pc = "row" /\ ini'[c].method = "bank_transfer" =>
                               bank[ini'[c].code] = "none"
    BY <2>2 DEF Records
  <2> QED  BY <1>1, <2>4, <2>5 DEF Records
<1> QED  BY <1>2, <1>3

LEMMA PayoutRowRecords ==
  ASSUME Inv, Records, NEW b \in Buyers, InitPayoutRow(b)
  PROVE  Records'
<1> DEFINE x == ini[b].code
           plain == ini[b].method = "bank_transfer"
<1>0. ini[b] \in Initiation /\ ini[b].pc = "row" /\ x \in Transfers
  BY Types, OwnTransfer DEF InitPayoutRow
<1>1. /\ payout' = [payout EXCEPT ![x] = IF plain THEN "PENDING" ELSE "PROCESSING"]
      /\ ini' = [ini EXCEPT ![b] = IF plain THEN IdleInitiation
                                   ELSE [ini[b] EXCEPT !.pc = "debit"]]
      /\ UNCHANGED <<for, bank, pending, unanswered, faults>>
  BY DEF InitPayoutRow, At, history
<1>2. payout'[x] # "none" /\ \A y \in Transfers : y # x => payout'[y] = payout[y]
  BY <1>0, <1>1, Types
<1>3. /\ \A c \in Buyers : c # b => ini'[c] = ini[c]
      /\ plain => ini'[b].pc = "idle"
      /\ ~plain => ini'[b].pc = "debit" /\ ini'[b].code = x
  BY <1>0, <1>1, Types DEF Initiation, IdleInitiation
<1>4. pending[x] = 0 /\ (plain => bank[x] = "none")
  BY <1>0 DEF Records
<1> HIDE DEF x, plain
<1>5. \A c \in Buyers : /\ ini'[c].pc \in {"calling", "row", "debit"} => pending[ini'[c].code] = 0
                        /\ ini'[c].pc = "calling" => ini'[c].method = "kwik"
                        /\ ini'[c].pc = "row" /\ ini'[c].method = "bank_transfer" =>
                             bank[ini'[c].code] = "none"
  BY <1>3, <1>4 DEF Records
<1>6. TransfersRecorded'
  <2> SUFFICES ASSUME NEW y \in Transfers,
                      bank[y] # "none", y \notin unanswered, faults = 0
               PROVE  /\ payout'[y] # "none" \/ Recording(y, {"calling", "row"})'
                      /\ pending[y] = 1 \/ Recording(y, {"calling", "row", "debit"})'
    BY <1>1 DEF TransfersRecorded
  <2>1. CASE y = x
    BY <1>2, <1>3, <1>4, <2>1 DEF Recording
  <2>2. CASE y # x
    <3>1. /\ Recording(y, {"calling", "row"}) => Recording(y, {"calling", "row"})'
          /\ Recording(y, {"calling", "row", "debit"}) =>
               Recording(y, {"calling", "row", "debit"})'
      BY <1>3, <2>2 DEF Recording, x
    <3> QED  BY <1>2, <2>2, <3>1 DEF Records, TransfersRecorded
  <2> QED  BY <2>1, <2>2
<1> QED  BY <1>1, <1>5, <1>6 DEF Records

LEMMA PendingDebitRecords ==
  ASSUME Inv, Records, NEW b \in Buyers, InitPendingDebit(b)
  PROVE  Records'
<1> DEFINE x == ini[b].code
<1>0. /\ ini[b] \in Initiation /\ ini[b].pc = "debit" /\ x \in Transfers
      /\ \A c \in Buyers : c # b => ini[c].code # x
      /\ for[x] # None
  BY Types, OwnTransfer DEF InitPendingDebit
<1>1. pending[x] = 0
  BY <1>0 DEF Records
<1>2. /\ pending' = [pending EXCEPT ![x] = 1]
      /\ ini' = [ini EXCEPT ![b] = [ini[b] EXCEPT !.pc = "ref"]]
      /\ UNCHANGED <<for, bank, payout, unanswered, faults>>
  BY <1>1 DEF InitPendingDebit, At, history
<1>3. pending'[x] = 1 /\ \A y \in Transfers : y # x => pending'[y] = pending[y]
  BY <1>0, <1>2, Types
<1>4. ini'[b].pc = "ref" /\ \A c \in Buyers : c # b => ini'[c] = ini[c]
  BY <1>0, <1>2, Types DEF Initiation
<1>5. \A c \in Buyers : ini[c].pc \in {"calling", "row", "debit"} => ini[c].code \in Transfers
  BY <1>0, OwnTransfer
<1> HIDE DEF x
<1>6. \A c \in Buyers : /\ ini'[c].pc \in {"calling", "row", "debit"} => pending'[ini'[c].code] = 0
                        /\ ini'[c].pc = "calling" => ini'[c].method = "kwik"
                        /\ ini'[c].pc = "row" /\ ini'[c].method = "bank_transfer" =>
                             bank[ini'[c].code] = "none"
  BY <1>0, <1>3, <1>4, <1>5 DEF Records
<1>7. \A y \in Transfers : for[y] = None => pending'[y] = 0
  BY <1>0, <1>3 DEF Records
<1>8. TransfersRecorded'
  <2> SUFFICES ASSUME NEW y \in Transfers,
                      bank[y] # "none", y \notin unanswered, faults = 0
               PROVE  /\ payout[y] # "none" \/ Recording(y, {"calling", "row"})'
                      /\ pending'[y] = 1 \/ Recording(y, {"calling", "row", "debit"})'
    BY <1>2 DEF TransfersRecorded
  <2>1. Recording(y, {"calling", "row"}) => Recording(y, {"calling", "row"})'
    BY <1>0, <1>4 DEF Recording
  <2>2. CASE y = x
    BY <1>3, <2>1, <2>2 DEF Records, TransfersRecorded
  <2>3. CASE y # x
    <3>1. Recording(y, {"calling", "row", "debit"}) =>
            Recording(y, {"calling", "row", "debit"})'
      BY <1>4, <2>3 DEF Recording, x
    <3> QED  BY <1>3, <2>1, <2>3, <3>1 DEF Records, TransfersRecorded
  <2> QED  BY <2>2, <2>3
<1> QED  BY <1>2, <1>6, <1>7, <1>8 DEF Records

LEMMA RequestRecords ==
  ASSUME Inv, Records, NEW b \in Buyers, InitStep(b)
  PROVE  Records'
<1>0. ini[b] \in Initiation
  BY Types
<1>1. ASSUME NEW o \in Orders, NEW m \in Methods, InitRead(b, o, m)
      PROVE  Records'
  BY <1>1, RequestRecordsStay DEF InitRead, tables, history
<1>2. CASE InitCreate(b)
  <2>1. [ini[b] EXCEPT !.pc = "open"].pc = "open" /\ IdleInitiation.pc = "idle"
    BY <1>0 DEF Initiation, IdleInitiation
  <2> QED  BY <1>2, <2>1, RequestRecordsStay DEF InitCreate, history
<1>3. CASE InitPendingCredit(b)
  <2>1. [ini[b] EXCEPT !.pc = "send"].pc = "send"
    BY <1>0 DEF Initiation
  <2> QED  BY <1>3, <2>1, RequestRecordsStay DEF InitPendingCredit, history
<1>4. CASE InitReference(b)
  BY <1>4, RequestRecordsStay DEF InitReference, history, IdleInitiation
<1> QED  BY <1>1, <1>2, <1>3, <1>4, SendRecords, CallRecords, PayoutRowRecords,
            PendingDebitRecords DEF InitStep

LEMMA RecordsInductive == Inv /\ Records /\ [Next]_vars => Records'
<1> SUFFICES ASSUME Inv, Records, [Next]_vars PROVE Records'
  OBVIOUS
<1>1. ASSUME NEW h \in Hooks, HookStep(h)
      PROVE  Records'
  <2>1. UNCHANGED <<for, bank, pending, unanswered, ini, faults>>
    BY <1>1 DEF HookStep, HookPay, HookOrder, HookCredit, HookFail, HookClose, HookSettle,
                HookRefuse, history
  <2>2. \/ UNCHANGED payout
        \/ payout' = [payout EXCEPT ![hook[h].code] = "PAID"]
        \/ payout' = [payout EXCEPT ![hook[h].code] = "FAILED"]
    BY <1>1 DEF HookStep, HookPay, HookOrder, HookCredit, HookFail, HookClose, HookSettle,
                HookRefuse
  <2>3. \A x \in Transfers : payout[x] # "none" => payout'[x] # "none"
    BY <2>2, Types
  <2> QED  BY <2>1, <2>3, RecordsStay
<1>2. ASSUME NEW x \in Transfers, NEW d \in {"moved", "refused"}, BankDecides(x, d)
      PROVE  Records'
  <2>1. bank[x] = "asked" /\ bank' = [bank EXCEPT ![x] = d]
        /\ UNCHANGED <<for, payout, pending, unanswered, ini, faults>>
    BY <1>2 DEF BankDecides, tables, history
  <2>2. \A y \in Transfers : bank'[y] = "none" <=> bank[y] = "none"
    BY <2>1, Types
  <2> QED  BY <2>1, <2>2, RecordsStay
<1>3. CASE \/ \E o \in Orders : ChargeStarted(o)
           \/ \E x \in Transfers, h \in Hooks :
                 HookFindsPayout(h, x) \/ \E o \in Orders : HookFindsPayment(h, x, o)
           \/ UNCHANGED vars
  <2>1. UNCHANGED <<for, bank, payout, pending, unanswered, ini, faults>>
    BY <1>3 DEF ChargeStarted, HookFindsPayout, HookFindsPayment, vars, tables, history
  <2> QED  BY <2>1, RecordsStay
<1>4. CASE Die
  <2>1. UNCHANGED <<for, bank, payout, pending, unanswered>> /\ faults' # 0
    BY <1>4 DEF Die, tables, Inv, PayoutsTypeOK
  <2>2. \A b \in Buyers : ini'[b] = ini[b] \/ ini'[b].pc = "idle"
    BY <1>4, Types DEF Die, At, IdleInitiation
  <2> QED  BY <2>1, <2>2, RecordsStay
<1> QED  BY <1>1, <1>2, <1>3, <1>4, RequestRecords DEF Next

\* Money that was asked to move has a payout and one pending debit, unless its
\* request is about to write them, its call failed, or something died
\* (payments.service.ts:428-519).
THEOREM AllTransfersRecorded == Spec => []TransfersRecorded
<1>1. Init => Records
  BY DEF Init, Records, TransfersRecorded, IdleInitiation
<1>2. Records => TransfersRecorded
  BY DEF Records
<1> QED  BY <1>1, <1>2, RecordsInductive, Invariant, PTL DEF Spec

=============================================================================
