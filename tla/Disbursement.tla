---------------------------- MODULE Disbursement ----------------------------
(***************************************************************************)
(* What the books may say of a transfer out of the shop's account: the     *)
(* bank moves the money or refuses, the service knows of the transfer or   *)
(* does not yet, and a debit is settled, and the payout closed, only as    *)
(* the bank decided.  No request, no notification and no failure appears.  *)
(* Payouts.tla implements this specification.                              *)
(***************************************************************************)
EXTENDS Naturals

CONSTANT Transfers

VARIABLES
    money,     \* of the bank: "here", "moved" or "refused"
    known,     \* of the service: "no", "open", "closed" or "failed"
    debits     \* settled debits

vars == <<money, known, debits>>

Init ==
    /\ money = [x \in Transfers |-> "here"]
    /\ known = [x \in Transfers |-> "no"]
    /\ debits = [x \in Transfers |-> 0]

Decide(x) ==
    /\ money[x] = "here"
    /\ \E d \in {"moved", "refused"} : money' = [money EXCEPT ![x] = d]
    /\ UNCHANGED <<known, debits>>

Record(x) ==
    /\ known[x] = "no"
    /\ known' = [known EXCEPT ![x] = "open"]
    /\ UNCHANGED <<money, debits>>

Close(x) ==
    /\ known[x] # "no"
    /\ money[x] = "moved"
    /\ known' = [known EXCEPT ![x] = "closed"]
    /\ UNCHANGED <<money, debits>>

Fail(x) ==
    /\ known[x] # "no"
    /\ money[x] = "refused"
    /\ known' = [known EXCEPT ![x] = "failed"]
    /\ UNCHANGED <<money, debits>>

\* Not once: a debit may be settled again.
Settle(x) ==
    /\ known[x] = "closed"
    /\ money[x] = "moved"
    /\ debits' = [debits EXCEPT ![x] = debits[x] + 1]
    /\ UNCHANGED <<money, known>>

Next == \E x \in Transfers :
            Decide(x) \/ Record(x) \/ Close(x) \/ Fail(x) \/ Settle(x)

Spec == Init /\ [][Next]_vars
=============================================================================
