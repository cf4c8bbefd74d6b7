----------------------------- MODULE HoldLedger -----------------------------
(***************************************************************************)
(* What the billing of requests promises about one balance, a wallet or a  *)
(* token: a request takes and returns while it is open; it ends captured,  *)
(* and then costs what it costs for good, or released, and then only gives *)
(* back.  No more is returned than was taken, the balance moves by exactly *)
(* that much, and a failed request is fined once at most.                  *)
(***************************************************************************)
EXTENDS Integers

CONSTANTS Requests, InitBalance, Fee

VARIABLES balance,
          taken,   \* what each request has taken, net
          phase,   \* "open", "captured" or "released"
          fine     \* "none", "due" or "over"

ledger == <<balance, taken, phase, fine>>

Init ==
    /\ balance = InitBalance
    /\ taken = [r \in Requests |-> 0]
    /\ phase = [r \in Requests |-> "open"]
    /\ fine = [r \in Requests |-> "none"]

\* The account of r alone changes, and the balance with it.
Move(r) ==
    /\ taken'[r] \in Nat
    /\ taken' = [taken EXCEPT ![r] = taken'[r]]
    /\ balance' = balance - (taken'[r] - taken[r])

\* preConsume, Reserve and their rollbacks.
Hold(r) == phase[r] = "open" /\ Move(r) /\ UNCHANGED <<phase, fine>>

\* Settle.
Capture(r) ==
    /\ phase[r] = "open" /\ phase' = [phase EXCEPT ![r] = "captured"]
    /\ Move(r)
    /\ UNCHANGED fine

\* The request fails: Refund is called, and there may be a violation.
Fail(r) ==
    /\ \/ phase[r] = "open" /\ phase' = [phase EXCEPT ![r] = "released"]
       \/ UNCHANGED phase
    /\ \/ fine[r] = "none" /\ fine' = [fine EXCEPT ![r] = "due"]
       \/ UNCHANGED fine
    /\ UNCHANGED <<balance, taken>>

\* A statement of the refund.
Release(r) ==
    /\ phase[r] = "released" /\ Move(r) /\ taken'[r] <= taken[r]
    /\ UNCHANGED <<phase, fine>>

\* The violation fee is charged, or cannot be.
Fined(r) ==
    /\ fine[r] = "due" /\ fine' = [fine EXCEPT ![r] = "over"]
    /\ balance' \in {balance, balance - Fee}
    /\ UNCHANGED <<taken, phase>>

Next == \E r \in Requests : Hold(r) \/ Capture(r) \/ Fail(r) \/ Release(r) \/ Fined(r)

Spec == Init /\ [][Next]_ledger
=============================================================================
