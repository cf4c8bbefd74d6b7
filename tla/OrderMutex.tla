----------------------------- MODULE OrderMutex -----------------------------
(***************************************************************************)
(* What LockOrder and UnlockOrder of controller/topup.go promise to the    *)
(* payment handlers: a thread enters an order only when no thread of the   *)
(* process is in it, and leaves it by itself.                              *)
(***************************************************************************)
CONSTANTS Threads, Orders

VARIABLE inside    \* the threads between LockOrder and UnlockOrder, by order

Init == inside = [o \in Orders |-> {}]

Enter(t, o) ==
    /\ inside[o] = {}
    /\ \A p \in Orders : t \notin inside[p]
    /\ inside' = [inside EXCEPT ![o] = {t}]

Leave(t, o) ==
    /\ inside[o] = {t}
    /\ inside' = [inside EXCEPT ![o] = {}]

\* The process dies and is started again.
Restart == inside' = [o \in Orders |-> {}]

Next ==
    \/ \E t \in Threads, o \in Orders : Enter(t, o) \/ Leave(t, o)
    \/ Restart

Spec == Init /\ [][Next]_inside
=============================================================================
