----------------------------- MODULE OrderLocks -----------------------------
(***************************************************************************)
(* LockOrder and UnlockOrder of controller/topup.go: one mutex per trade   *)
(* number, made when it is first needed, counted, and dropped from the map *)
(* by the last thread that used it.  A section under createLock is one     *)
(* step.  Objects live until nothing points to them.                       *)
(***************************************************************************)
EXTENDS Integers, FiniteSets

CONSTANTS Threads,   \* goroutines of one process that handle payments
          Orders,    \* trade numbers
          Mutexes,   \* refCountedMutex objects
          None

ASSUME LockAssumption ==
    /\ None \notin Threads \cup Orders \cup Mutexes
    /\ IsFiniteSet(Threads)

VARIABLES orderLocks,   \* the map from trade number to object
          mutex,        \* the objects: reference count and holder of mu
          lk            \* how far each thread is in LockOrder or UnlockOrder

lockVars == <<orderLocks, mutex, lk>>

LkPc == {"none", "waiting", "locked", "unlocking"}

NotLocking == [pc |-> "none", order |-> None, mu |-> None]

LockTypeOK ==
    /\ orderLocks \in [Orders -> Mutexes \cup {None}]
    /\ mutex \in [Mutexes -> [refCount : Int, holder : Threads \cup {None}]]
    /\ lk \in [Threads -> [pc : LkPc, order : Orders \cup {None}, mu : Mutexes \cup {None}]]

LockInit ==
    /\ orderLocks = [o \in Orders |-> None]
    /\ mutex = [m \in Mutexes |-> [refCount |-> 0, holder |-> None]]
    /\ lk = [t \in Threads |-> NotLocking]

Unreachable(m) ==
    /\ \A o \in Orders : orderLocks[o] # m
    /\ \A t \in Threads : lk[t].mu # m

Waits(t, o, m) == lk' = [lk EXCEPT ![t] = [pc |-> "waiting", order |-> o, mu |-> m]]

\* LockOrder up to createLock.Unlock: the mutex is found or made, and counted.
LockOrder(t, o) ==
    /\ lk[t].pc = "none"
    /\ \/ /\ orderLocks[o] # None
          /\ mutex' = [mutex EXCEPT ![orderLocks[o]].refCount = @ + 1]
          /\ Waits(t, o, orderLocks[o])
          /\ UNCHANGED orderLocks
       \/ /\ orderLocks[o] = None
          /\ \E m \in Mutexes :
                 /\ Unreachable(m)
                 /\ orderLocks' = [orderLocks EXCEPT ![o] = m]
                 /\ mutex' = [mutex EXCEPT ![m] = [refCount |-> 1, holder |-> None]]
                 /\ Waits(t, o, m)

MuLock(t) ==
    /\ lk[t].pc = "waiting"
    /\ mutex[lk[t].mu].holder = None
    /\ mutex' = [mutex EXCEPT ![lk[t].mu].holder = t]
    /\ lk' = [lk EXCEPT ![t].pc = "locked"]
    /\ UNCHANGED orderLocks

\* UnlockOrder up to mu.Unlock: the mutex is looked up in the map again.
UnlockOrder(t) ==
    /\ lk[t].pc = "locked"
    /\ LET m == orderLocks[lk[t].order]
       IN  IF m = None
           THEN /\ lk' = [lk EXCEPT ![t] = NotLocking]
                /\ UNCHANGED mutex
           ELSE /\ mutex' = [mutex EXCEPT ![m].holder = None]
                /\ lk' = [lk EXCEPT ![t].pc = "unlocking", ![t].mu = m]
    /\ UNCHANGED orderLocks

\* Mutant: the last but one thread drops the mutex from the map.
LastUser_OffByOne(m) == mutex[m].refCount <= 2

LastUser(m) == mutex[m].refCount = 1

\* The rest of UnlockOrder: the count goes down and the last one cleans up.
DropReference(t) ==
    /\ lk[t].pc = "unlocking"
    /\ mutex' = [mutex EXCEPT ![lk[t].mu].refCount = @ - 1]
    /\ orderLocks' = IF LastUser(lk[t].mu)
                     THEN [orderLocks EXCEPT ![lk[t].order] = None] ELSE orderLocks
    /\ lk' = [lk EXCEPT ![t] = NotLocking]

\* The process dies: its memory is gone.
LocksLost ==
    /\ orderLocks' = [o \in Orders |-> None]
    /\ mutex' = [m \in Mutexes |-> [refCount |-> 0, holder |-> None]]
    /\ lk' = [t \in Threads |-> NotLocking]

LockNext ==
    \/ \E t \in Threads, o \in Orders : LockOrder(t, o)
    \/ \E t \in Threads : MuLock(t) \/ UnlockOrder(t) \/ DropReference(t)
    \/ LocksLost

LockSpec == LockInit /\ [][LockNext]_lockVars
-----------------------------------------------------------------------------
Inside == [o \in Orders |-> {t \in Threads : lk[t].pc = "locked" /\ lk[t].order = o}]

Abstract == INSTANCE OrderMutex WITH inside <- Inside

\* The counted mutexes of LockOrder and UnlockOrder behave like one mutex per
\* order that is always there, although threads find, wait for, hand over and
\* drop the objects at the same time (OrderMutex).
MutexPerOrder == Abstract!Spec
=============================================================================
