---------------------------- MODULE WalletProofs ----------------------------
(***************************************************************************)
(* TLAPS proofs about Wallet, for any number of users, withdrawals, codes, *)
(* orders, threads and crashes.  They assume that the database sees the    *)
(* row locks (LockingReads), except for the locks of the process: those    *)
(* come first, as a proof that the counted mutexes of OrderLocks implement *)
(* one mutex per order (OrderMutex).                                       *)
(***************************************************************************)
EXTENDS Wallet, Sums, FiniteSetTheorems, TLAPS

(***************************************************************************)
(* Counted mutexes (OrderLocks).                                           *)
(***************************************************************************)

(***************************************************************************)
(* The inductive invariant.  Who waits for, holds or gives up an object    *)
(* finds the same object in the map; two orders never share one; and the   *)
(* count of an object in the map is the number of threads that point to    *)
(* it, so the last one to leave is really the last.                        *)
(***************************************************************************)

Pointing(m) == {t \in Threads : lk[t].mu = m}

PointersValid ==
    \A t \in Threads :
        \/ lk[t] = NotLocking
        \/ /\ lk[t].pc # "none"
           /\ lk[t].order \in Orders
           /\ lk[t].mu \in Mutexes
           /\ orderLocks[lk[t].order] = lk[t].mu

ObjectsDistinct ==
    \A o, p \in Orders : o # p /\ orderLocks[o] # None => orderLocks[o] # orderLocks[p]

HolderIsLocked == \A t \in Threads : lk[t].pc = "locked" => mutex[lk[t].mu].holder = t

CountsExact ==
    \A o \in Orders : orderLocks[o] # None =>
        mutex[orderLocks[o]].refCount = Cardinality(Pointing(orderLocks[o]))

LockInvariant ==
    /\ LockTypeOK
    /\ PointersValid
    /\ ObjectsDistinct
    /\ HolderIsLocked
    /\ CountsExact
-----------------------------------------------------------------------------
LEMMA PointingFinite ==
    ASSUME NEW m PROVE IsFiniteSet(Pointing(m)) /\ Cardinality(Pointing(m)) \in Nat
<1>1. Pointing(m) \subseteq Threads
    BY DEF Pointing
<1>2. IsFiniteSet(Pointing(m))
    BY <1>1, FS_Subset, LockAssumption
<1> QED
    BY <1>2, FS_CardinalityType

LEMMA NoLocksInvariant ==
    ASSUME orderLocks = [o \in Orders |-> None],
           mutex = [m \in Mutexes |-> [refCount |-> 0, holder |-> None]],
           lk = [t \in Threads |-> NotLocking]
    PROVE  LockInvariant
<1>1. LockTypeOK
    BY DEF LockTypeOK, NotLocking, LkPc
<1>2. PointersValid /\ ObjectsDistinct /\ CountsExact
    BY DEF PointersValid, ObjectsDistinct, CountsExact
<1>3. HolderIsLocked
    BY DEF HolderIsLocked, NotLocking
<1> QED
    BY <1>1, <1>2, <1>3 DEF LockInvariant

\* A thread that finds the object in the map is counted.
LEMMA LockOrderFound ==
    ASSUME LockInvariant, NEW t \in Threads, NEW o \in Orders,
           lk[t].pc = "none",
           orderLocks[o] # None,
           mutex' = [mutex EXCEPT ![orderLocks[o]].refCount = @ + 1],
           Waits(t, o, orderLocks[o]),
           UNCHANGED orderLocks
    PROVE  LockInvariant'
<1> DEFINE m == orderLocks[o]
<1> USE DEF LockInvariant
<1>1. m \in Mutexes /\ m # None
    BY LockAssumption DEF LockTypeOK
<1>2. lk' = [lk EXCEPT ![t] = [pc |-> "waiting", order |-> o, mu |-> m]]
    BY DEF Waits
<1>3. lk[t].mu # m
    BY <1>1 DEF PointersValid, NotLocking
<1>4. LockTypeOK'
    BY <1>1, <1>2 DEF LockTypeOK, LkPc
<1>5. PointersValid'
    BY <1>1, <1>2 DEF PointersValid, LockTypeOK
<1>6. ObjectsDistinct'
    BY DEF ObjectsDistinct
<1>7. HolderIsLocked'
    <2> SUFFICES ASSUME NEW s \in Threads, lk'[s].pc = "locked"
                 PROVE  mutex'[lk'[s].mu].holder = s
        BY DEF HolderIsLocked
    <2>1. s # t /\ lk'[s] = lk[s]
        BY <1>2 DEF LockTypeOK
    <2>2. mutex[lk[s].mu].holder = s
        BY <2>1 DEF HolderIsLocked
    <2>3. lk[s].mu \in Mutexes
        BY <2>1 DEF PointersValid, NotLocking
    <2> QED
        BY <2>1, <2>2, <2>3, <1>1 DEF LockTypeOK
<1>8. CountsExact'
    <2> SUFFICES ASSUME NEW p \in Orders, orderLocks[p] # None
                 PROVE  mutex'[orderLocks[p]].refCount = Cardinality(Pointing(orderLocks[p])')
        BY DEF CountsExact, Pointing
    <2> DEFINE n == orderLocks[p]
    <2>1. n \in Mutexes /\ mutex[n].refCount = Cardinality(Pointing(n))
        BY DEF CountsExact, LockTypeOK
    <2>2. CASE p = o
        <3>1. Pointing(n)' = Pointing(n) \cup {t}
            BY <1>2, <2>2 DEF Pointing, LockTypeOK
        <3>2. t \notin Pointing(n)
            BY <1>3, <2>2 DEF Pointing
        <3>3. Cardinality(Pointing(n) \cup {t}) = Cardinality(Pointing(n)) + 1
            BY <3>2, PointingFinite, FS_AddElement
        <3>4. mutex'[n].refCount = mutex[n].refCount + 1
            BY <2>1, <2>2 DEF LockTypeOK
        <3> QED
            BY <2>1, <3>1, <3>3, <3>4
    <2>3. CASE p # o
        <3>1. n # m
            BY <2>3 DEF ObjectsDistinct
        <3>2. Pointing(n)' = Pointing(n)
            <4>1. lk[t].mu # n
                BY <2>1, LockAssumption DEF PointersValid, NotLocking
            <4> QED
                BY <1>2, <3>1, <4>1 DEF Pointing, LockTypeOK
        <3>3. mutex'[n] = mutex[n]
            BY <2>1, <3>1, <1>1 DEF LockTypeOK
        <3> QED
            BY <2>1, <3>2, <3>3
    <2> QED
        BY <2>2, <2>3
<1> QED
    BY <1>4, <1>5, <1>6, <1>7, <1>8

\* The first thread of an order puts a fresh object into the map.
LEMMA LockOrderMade ==
    ASSUME LockInvariant, NEW t \in Threads, NEW o \in Orders, NEW m \in Mutexes,
           lk[t].pc = "none",
           orderLocks[o] = None,
           Unreachable(m),
           orderLocks' = [orderLocks EXCEPT ![o] = m],
           mutex' = [mutex EXCEPT ![m] = [refCount |-> 1, holder |-> None]],
           Waits(t, o, m)
    PROVE  LockInvariant'
<1> USE DEF LockInvariant
<1>1. m # None
    BY LockAssumption
<1>2. lk' = [lk EXCEPT ![t] = [pc |-> "waiting", order |-> o, mu |-> m]]
    BY DEF Waits
<1>3. lk[t] = NotLocking
    BY DEF PointersValid
<1>4. LockTypeOK'
    BY <1>2 DEF LockTypeOK, LkPc
<1>5. PointersValid'
    <2> SUFFICES ASSUME NEW s \in Threads, lk'[s] # NotLocking
                 PROVE  /\ lk'[s].pc # "none" /\ lk'[s].order \in Orders
                        /\ lk'[s].mu \in Mutexes /\ orderLocks'[lk'[s].order] = lk'[s].mu
        BY DEF PointersValid
    <2>1. CASE s = t
        BY <2>1, <1>2 DEF LockTypeOK
    <2>2. CASE s # t
        <3>1. lk'[s] = lk[s]
            BY <2>2, <1>2 DEF LockTypeOK
        <3>2. lk[s].order # o
            BY <3>1, LockAssumption DEF PointersValid
        <3> QED
            BY <3>1, <3>2 DEF PointersValid, LockTypeOK
    <2> QED
        BY <2>1, <2>2
<1>6. ObjectsDistinct'
    BY <1>1 DEF ObjectsDistinct, Unreachable, LockTypeOK
<1>7. HolderIsLocked'
    <2> SUFFICES ASSUME NEW s \in Threads, lk'[s].pc = "locked"
                 PROVE  mutex'[lk'[s].mu].holder = s
        BY DEF HolderIsLocked
    <2>1. s # t /\ lk'[s] = lk[s]
        BY <1>2 DEF LockTypeOK
    <2>2. mutex[lk[s].mu].holder = s /\ lk[s].mu # m
        BY <2>1 DEF HolderIsLocked, Unreachable
    <2>3. lk[s].mu \in Mutexes
        BY <2>1 DEF PointersValid, NotLocking
    <2> QED
        BY <2>1, <2>2, <2>3 DEF LockTypeOK
<1>8. CountsExact'
    <2> SUFFICES ASSUME NEW p \in Orders, orderLocks'[p] # None
                 PROVE  mutex'[orderLocks'[p]].refCount = Cardinality(Pointing(orderLocks[p])')
        BY DEF CountsExact, Pointing
    <2>1. CASE p = o
        <3>1. orderLocks'[p] = m
            BY <2>1 DEF LockTypeOK
        <3>2. Pointing(m)' = {t}
            BY <1>2 DEF Pointing, Unreachable, LockTypeOK
        <3>3. mutex'[m].refCount = 1
            BY DEF LockTypeOK
        <3>4. Pointing(orderLocks[p])' = {t}
            BY <3>1, <3>2 DEF Pointing
        <3> QED
            BY <3>1, <3>3, <3>4, FS_Singleton
    <2>2. CASE p # o
        <3> DEFINE n == orderLocks[p]
        <3>1. orderLocks'[p] = n /\ n \in Mutexes /\ n # m
            BY <2>2 DEF LockTypeOK, Unreachable
        <3>2. mutex[n].refCount = Cardinality(Pointing(n))
            BY <3>1 DEF CountsExact
        <3>3. mutex'[n] = mutex[n]
            BY <3>1 DEF LockTypeOK
        <3>4. Pointing(orderLocks[p])' = Pointing(n)
            <4>1. lk[t].mu # n
                BY <1>3, <3>1, LockAssumption DEF NotLocking
            <4> QED
                BY <1>2, <3>1, <4>1 DEF Pointing, LockTypeOK
        <3> QED
            BY <3>1, <3>2, <3>3, <3>4
    <2> QED
        BY <2>1, <2>2
<1> QED
    BY <1>4, <1>5, <1>6, <1>7, <1>8

LEMMA LockOrderInvariant ==
    ASSUME LockInvariant, NEW t \in Threads, NEW o \in Orders, LockOrder(t, o)
    PROVE  LockInvariant'
<1>1. CASE orderLocks[o] # None
    BY <1>1, LockOrderFound DEF LockOrder
<1>2. CASE orderLocks[o] = None
    <2>1. PICK m \in Mutexes :
              /\ Unreachable(m)
              /\ orderLocks' = [orderLocks EXCEPT ![o] = m]
              /\ mutex' = [mutex EXCEPT ![m] = [refCount |-> 1, holder |-> None]]
              /\ Waits(t, o, m)
        BY <1>2 DEF LockOrder
    <2> QED
        BY <1>2, <2>1, LockOrderMade DEF LockOrder
<1> QED
    BY <1>1, <1>2

LEMMA MuLockInvariant ==
    ASSUME LockInvariant, NEW t \in Threads, MuLock(t)
    PROVE  LockInvariant'
<1> USE DEF LockInvariant, MuLock
<1> DEFINE m == lk[t].mu
<1>1. m \in Mutexes /\ m # None
    BY LockAssumption DEF PointersValid, NotLocking
<1>2. LockTypeOK'
    BY <1>1 DEF LockTypeOK, LkPc
<1>3. \A s \in Threads : lk'[s].mu = lk[s].mu /\ lk'[s].order = lk[s].order
    BY DEF LockTypeOK
<1>4. PointersValid'
    <2> SUFFICES ASSUME NEW s \in Threads, lk'[s] # NotLocking
                 PROVE  /\ lk'[s].pc # "none" /\ lk'[s].order \in Orders
                        /\ lk'[s].mu \in Mutexes /\ orderLocks'[lk'[s].order] = lk'[s].mu
        BY DEF PointersValid
    <2>1. lk[s] # NotLocking /\ lk'[s].pc # "none"
        BY DEF PointersValid, LockTypeOK, NotLocking
    <2> QED
        BY <1>3, <2>1 DEF PointersValid
<1>5. ObjectsDistinct'
    BY DEF ObjectsDistinct
<1>6. HolderIsLocked'
    <2> SUFFICES ASSUME NEW s \in Threads, lk'[s].pc = "locked"
                 PROVE  mutex'[lk'[s].mu].holder = s
        BY DEF HolderIsLocked
    <2>1. CASE s = t
        BY <1>1, <1>3, <2>1 DEF LockTypeOK
    <2>2. CASE s # t
        <3>1. lk'[s] = lk[s]
            BY <2>2 DEF LockTypeOK
        <3>2. mutex[lk[s].mu].holder = s
            BY <3>1 DEF HolderIsLocked
        <3>3. s # None
            BY LockAssumption
        <3>4. lk[s].mu # m
            BY <3>2, <3>3
        <3>5. lk[s].mu \in Mutexes
            BY <3>1 DEF PointersValid, NotLocking
        <3> QED
            BY <3>1, <3>2, <3>4, <3>5, <1>1 DEF LockTypeOK
    <2> QED
        BY <2>1, <2>2
<1>7. CountsExact'
    <2>1. \A n \in Mutexes : mutex'[n].refCount = mutex[n].refCount
        BY <1>1 DEF LockTypeOK
    <2> SUFFICES ASSUME NEW p \in Orders, orderLocks[p] # None
                 PROVE  mutex'[orderLocks[p]].refCount = Cardinality(Pointing(orderLocks[p])')
        BY DEF CountsExact, Pointing
    <2>2. orderLocks[p] \in Mutexes
        BY DEF LockTypeOK
    <2>3. mutex[orderLocks[p]].refCount = Cardinality(Pointing(orderLocks[p]))
        BY DEF CountsExact
    <2>4. Pointing(orderLocks[p])' = Pointing(orderLocks[p])
        BY <1>3 DEF Pointing
    <2> QED
        BY <2>1, <2>2, <2>3, <2>4
<1> QED
    BY <1>2, <1>4, <1>5, <1>6, <1>7

LEMMA UnlockOrderInvariant ==
    ASSUME LockInvariant, NEW t \in Threads, UnlockOrder(t)
    PROVE  LockInvariant'
<1> USE DEF LockInvariant
<1> DEFINE m == lk[t].mu
<1>1. /\ lk[t].pc = "locked" /\ m \in Mutexes /\ m # None
      /\ lk[t].order \in Orders /\ orderLocks[lk[t].order] = m
    BY LockAssumption DEF PointersValid, NotLocking, UnlockOrder
<1>2. /\ mutex' = [mutex EXCEPT ![m].holder = None]
      /\ lk' = [lk EXCEPT ![t].pc = "unlocking", ![t].mu = m]
      /\ orderLocks' = orderLocks
    BY <1>1 DEF UnlockOrder
<1>3. LockTypeOK'
    BY <1>1, <1>2 DEF LockTypeOK, LkPc
<1>4. \A s \in Threads : lk'[s].mu = lk[s].mu /\ lk'[s].order = lk[s].order
    BY <1>2 DEF LockTypeOK
<1>5. PointersValid'
    <2> SUFFICES ASSUME NEW s \in Threads, lk'[s] # NotLocking
                 PROVE  /\ lk'[s].pc # "none" /\ lk'[s].order \in Orders
                        /\ lk'[s].mu \in Mutexes /\ orderLocks'[lk'[s].order] = lk'[s].mu
        BY DEF PointersValid
    <2>1. lk[s] # NotLocking /\ lk'[s].pc # "none"
        BY <1>1, <1>2 DEF PointersValid, LockTypeOK, NotLocking
    <2> QED
        BY <1>2, <1>4, <2>1 DEF PointersValid
<1>6. ObjectsDistinct'
    BY <1>2 DEF ObjectsDistinct
<1>7. HolderIsLocked'
    <2> SUFFICES ASSUME NEW s \in Threads, lk'[s].pc = "locked"
                 PROVE  mutex'[lk'[s].mu].holder = s
        BY DEF HolderIsLocked
    <2>1. s # t /\ lk'[s] = lk[s]
        BY <1>2 DEF LockTypeOK
    <2>2. mutex[lk[s].mu].holder = s /\ mutex[m].holder = t
        BY <1>1, <2>1 DEF HolderIsLocked
    <2>3. lk[s].mu \in Mutexes /\ lk[s].mu # m
        BY <2>1, <2>2 DEF PointersValid, NotLocking
    <2> QED
        BY <1>1, <1>2, <2>1, <2>2, <2>3 DEF LockTypeOK
<1>8. CountsExact'
    <2>1. \A n \in Mutexes : mutex'[n].refCount = mutex[n].refCount
        BY <1>1, <1>2 DEF LockTypeOK
    <2> SUFFICES ASSUME NEW p \in Orders, orderLocks[p] # None
                 PROVE  mutex'[orderLocks[p]].refCount = Cardinality(Pointing(orderLocks[p])')
        BY <1>2 DEF CountsExact, Pointing
    <2>2. orderLocks[p] \in Mutexes
        BY DEF LockTypeOK
    <2>3. mutex[orderLocks[p]].refCount = Cardinality(Pointing(orderLocks[p]))
        BY DEF CountsExact
    <2>4. Pointing(orderLocks[p])' = Pointing(orderLocks[p])
        BY <1>2, <1>4 DEF Pointing
    <2> QED
        BY <2>1, <2>2, <2>3, <2>4
<1> QED
    BY <1>3, <1>5, <1>6, <1>7, <1>8

\* The step that may drop the object: a count of one means nobody else.
LEMMA DropReferenceInvariant ==
    ASSUME LockInvariant, NEW t \in Threads, DropReference(t)
    PROVE  LockInvariant'
<1> USE DEF LockInvariant
<1> DEFINE m == lk[t].mu
           o == lk[t].order
<1>1. /\ lk[t].pc = "unlocking" /\ m \in Mutexes /\ m # None
      /\ o \in Orders /\ orderLocks[o] = m
    BY LockAssumption DEF PointersValid, NotLocking, DropReference
<1>2. /\ mutex' = [mutex EXCEPT ![m].refCount = @ - 1]
      /\ orderLocks' = IF mutex[m].refCount = 1
                       THEN [orderLocks EXCEPT ![o] = None] ELSE orderLocks
      /\ lk' = [lk EXCEPT ![t] = NotLocking]
    BY DEF DropReference, LastUser
<1>3. mutex[m].refCount = Cardinality(Pointing(m)) /\ t \in Pointing(m)
    BY <1>1 DEF CountsExact, Pointing
<1>4. mutex[m].refCount = 1 => \A s \in Threads : lk[s].mu = m => s = t
    <2> SUFFICES ASSUME mutex[m].refCount = 1, NEW s \in Threads, lk[s].mu = m
                 PROVE  s = t
        OBVIOUS
    <2>1. PICK x : Pointing(m) = {x}
        BY <1>3, FS_Singleton, PointingFinite
    <2>2. s \in Pointing(m)
        BY DEF Pointing
    <2> QED
        BY <1>3, <2>1, <2>2
<1>5. LockTypeOK'
    BY <1>1, <1>2 DEF LockTypeOK, LkPc, NotLocking
<1>6. PointersValid'
    <2> SUFFICES ASSUME NEW s \in Threads, lk'[s] # NotLocking
                 PROVE  /\ lk'[s].pc # "none" /\ lk'[s].order \in Orders
                        /\ lk'[s].mu \in Mutexes /\ orderLocks'[lk'[s].order] = lk'[s].mu
        BY DEF PointersValid
    <2>1. s # t /\ lk'[s] = lk[s]
        BY <1>2 DEF LockTypeOK
    <2>2. /\ lk[s].pc # "none" /\ lk[s].order \in Orders
          /\ lk[s].mu \in Mutexes /\ orderLocks[lk[s].order] = lk[s].mu
        BY <2>1 DEF PointersValid
    <2>3. mutex[m].refCount = 1 => lk[s].order # o
        BY <1>1, <1>4, <2>1, <2>2
    <2> QED
        BY <1>2, <2>1, <2>2, <2>3 DEF LockTypeOK
<1>7. ObjectsDistinct'
    BY <1>1, <1>2 DEF ObjectsDistinct, LockTypeOK
<1>8. HolderIsLocked'
    <2> SUFFICES ASSUME NEW s \in Threads, lk'[s].pc = "locked"
                 PROVE  mutex'[lk'[s].mu].holder = s
        BY DEF HolderIsLocked
    <2>1. s # t /\ lk'[s] = lk[s]
        BY <1>2 DEF LockTypeOK, NotLocking
    <2>2. mutex[lk[s].mu].holder = s /\ lk[s].mu \in Mutexes
        BY <2>1 DEF HolderIsLocked, PointersValid, NotLocking
    <2> QED
        BY <1>1, <1>2, <2>1, <2>2 DEF LockTypeOK
<1>9. CountsExact'
    <2> SUFFICES ASSUME NEW p \in Orders, orderLocks'[p] # None
                 PROVE  mutex'[orderLocks'[p]].refCount = Cardinality(Pointing(orderLocks[p])')
        BY DEF CountsExact, Pointing
    <2> DEFINE n == orderLocks[p]
    <2>1. orderLocks'[p] = n /\ n \in Mutexes /\ n # None
        BY <1>1, <1>2 DEF LockTypeOK
    <2>2. mutex[n].refCount = Cardinality(Pointing(n))
        BY <2>1 DEF CountsExact
    <2>3. CASE p = o
        <3>1. Pointing(orderLocks[p])' = Pointing(n) \ {t}
            BY <1>1, <1>2, <2>1, <2>3, LockAssumption DEF Pointing, LockTypeOK, NotLocking
        <3>2. Cardinality(Pointing(n) \ {t}) = Cardinality(Pointing(n)) - 1
            BY <1>1, <1>3, <2>3, PointingFinite, FS_RemoveElement
        <3>3. mutex'[n].refCount = mutex[n].refCount - 1
            BY <1>1, <1>2, <2>3 DEF LockTypeOK
        <3> QED
            BY <2>1, <2>2, <3>1, <3>2, <3>3
    <2>4. CASE p # o
        <3>1. n # m
            BY <1>1, <2>1, <2>4 DEF ObjectsDistinct
        <3>2. Pointing(orderLocks[p])' = Pointing(n)
            BY <1>2, <2>1, <3>1, LockAssumption DEF Pointing, LockTypeOK, NotLocking
        <3>3. mutex'[n] = mutex[n]
            BY <1>1, <1>2, <2>1, <3>1 DEF LockTypeOK
        <3> QED
            BY <2>1, <2>2, <3>2, <3>3
    <2> QED
        BY <2>3, <2>4
<1> QED
    BY <1>5, <1>6, <1>7, <1>8, <1>9

LEMMA LocksLostInvariant == ASSUME LocksLost PROVE LockInvariant'
<1>1. LockTypeOK'
    BY DEF LocksLost, LockTypeOK, NotLocking, LkPc
<1>2. PointersValid' /\ ObjectsDistinct' /\ CountsExact'
    BY DEF LocksLost, PointersValid, ObjectsDistinct, CountsExact
<1>3. HolderIsLocked'
    BY DEF LocksLost, HolderIsLocked, NotLocking
<1> QED
    BY <1>1, <1>2, <1>3 DEF LockInvariant

LEMMA LockStepInvariant == LockInvariant /\ [LockNext]_lockVars => LockInvariant'
<1> SUFFICES ASSUME LockInvariant, [LockNext]_lockVars PROVE LockInvariant'
    OBVIOUS
<1>1. ASSUME NEW t \in Threads, NEW o \in Orders, LockOrder(t, o) PROVE LockInvariant'
    BY <1>1, LockOrderInvariant
<1>2. ASSUME NEW t \in Threads, MuLock(t) PROVE LockInvariant'
    BY <1>2, MuLockInvariant
<1>3. ASSUME NEW t \in Threads, UnlockOrder(t) PROVE LockInvariant'
    BY <1>3, UnlockOrderInvariant
<1>4. ASSUME NEW t \in Threads, DropReference(t) PROVE LockInvariant'
    BY <1>4, DropReferenceInvariant
<1>5. CASE LocksLost
    BY <1>5, LocksLostInvariant
<1>6. CASE UNCHANGED lockVars
    BY <1>6 DEF lockVars, LockInvariant, LockTypeOK, PointersValid, ObjectsDistinct,
                HolderIsLocked, CountsExact, Pointing
<1> QED
    BY <1>1, <1>2, <1>3, <1>4, <1>5, <1>6 DEF LockNext
\* The counted objects are consistent in every state of LockOrder and
\* UnlockOrder (controller/topup.go).
THEOREM LocksConsistent == LockSpec => []LockInvariant
<1>1. LockInit => LockInvariant
    BY NoLocksInvariant DEF LockInit
<1> QED
    BY <1>1, LockStepInvariant, PTL DEF LockSpec
-----------------------------------------------------------------------------
(***************************************************************************)
(* Refinement: a step enters an order, leaves it, restarts, or is not seen *)
(* by OrderMutex.                                                          *)
(***************************************************************************)

LEMMA InsideUnchanged ==
    ASSUME \A t \in Threads : /\ (lk'[t].pc = "locked") <=> (lk[t].pc = "locked")
                              /\ lk'[t].pc = "locked" => lk'[t].order = lk[t].order
    PROVE  Inside' = Inside
BY DEF Inside

LEMMA MuLockEnters ==
    ASSUME LockInvariant, NEW t \in Threads, MuLock(t)
    PROVE  \E o \in Orders : Abstract!Enter(t, o)
<1> DEFINE o == lk[t].order
<1>1. o \in Orders /\ lk[t].mu \in Mutexes /\ orderLocks[o] = lk[t].mu
    BY DEF LockInvariant, PointersValid, NotLocking, MuLock
<1>2. Inside[o] = {}
    <2> SUFFICES ASSUME NEW s \in Threads, lk[s].pc = "locked", lk[s].order = o PROVE FALSE
        BY <1>1 DEF Inside
    <2>1. lk[s].mu = lk[t].mu
        BY <1>1 DEF LockInvariant, PointersValid, NotLocking
    <2>2. mutex[lk[t].mu].holder = s /\ mutex[lk[t].mu].holder = None
        BY <2>1 DEF LockInvariant, HolderIsLocked, MuLock
    <2> QED
        BY <2>2, LockAssumption
<1>3. \A p \in Orders : t \notin Inside[p]
    BY DEF Inside, MuLock
<1>4. Inside' = [Inside EXCEPT ![o] = {t}]
    <2>1. \A s \in Threads : s # t => lk'[s] = lk[s]
        BY DEF MuLock, LockInvariant, LockTypeOK
    <2>2. lk'[t].pc = "locked" /\ lk'[t].order = o
        BY DEF MuLock, LockInvariant, LockTypeOK
    <2>3. Inside'[o] = {t}
        <3>1. \A s \in Threads : ~(lk[s].pc = "locked" /\ lk[s].order = o)
            BY <1>1, <1>2 DEF Inside
        <3>2. \A s \in Threads : (lk'[s].pc = "locked" /\ lk'[s].order = o) <=> s = t
            BY <2>1, <2>2, <3>1
        <3> HIDE DEF o
        <3> QED
            BY <1>1, <3>2 DEF Inside
    <2>4. \A p \in Orders : p # o => Inside'[p] = Inside[p]
        BY <1>3, <2>1, <2>2 DEF Inside
    <2> QED
        BY <2>3, <2>4 DEF Inside
<1> QED
    BY <1>1, <1>2, <1>3, <1>4 DEF Abstract!Enter

LEMMA UnlockOrderLeaves ==
    ASSUME LockInvariant, NEW t \in Threads, UnlockOrder(t)
    PROVE  \E o \in Orders : Abstract!Leave(t, o)
<1> DEFINE o == lk[t].order
<1>1. o \in Orders /\ lk[t].mu \in Mutexes /\ orderLocks[o] = lk[t].mu
    BY DEF LockInvariant, PointersValid, NotLocking, UnlockOrder
<1>2. \A s \in Threads : lk[s].pc = "locked" /\ lk[s].order = o => s = t
    <2> SUFFICES ASSUME NEW s \in Threads, lk[s].pc = "locked", lk[s].order = o PROVE s = t
        OBVIOUS
    <2>1. lk[s].mu = lk[t].mu
        BY <1>1 DEF LockInvariant, PointersValid, NotLocking
    <2> QED
        BY <2>1 DEF LockInvariant, HolderIsLocked, UnlockOrder
<1>3. lk[t].pc = "locked"
    BY DEF UnlockOrder
<1>4. Inside[o] = {t}
    BY <1>1, <1>2, <1>3 DEF Inside
<1>5. Inside' = [Inside EXCEPT ![o] = {}]
    <2>1. \A s \in Threads : s # t => lk'[s] = lk[s]
        BY DEF UnlockOrder, LockInvariant, LockTypeOK
    <2>2. lk'[t].pc # "locked"
        BY DEF UnlockOrder, NotLocking, LockInvariant, LockTypeOK
    <2>3. Inside'[o] = {}
        BY <1>1, <1>2, <2>1, <2>2 DEF Inside
    <2>4. \A p \in Orders : p # o => Inside'[p] = Inside[p]
        BY <2>1, <2>2 DEF Inside
    <2> QED
        BY <2>3, <2>4 DEF Inside
<1> QED
    BY <1>1, <1>4, <1>5 DEF Abstract!Leave

LEMMA LockStepRefines ==
    LockInvariant /\ [LockNext]_lockVars => [Abstract!Next]_Inside
<1> SUFFICES ASSUME LockInvariant, [LockNext]_lockVars PROVE Abstract!Next \/ Inside' = Inside
    OBVIOUS
<1> USE DEF LockInvariant
<1>1. ASSUME NEW t \in Threads, NEW o \in Orders, LockOrder(t, o) PROVE Inside' = Inside
    <2>1. \E m : lk' = [lk EXCEPT ![t] = [pc |-> "waiting", order |-> o, mu |-> m]]
        BY <1>1 DEF LockOrder, Waits
    <2> QED
        BY <1>1, <2>1, InsideUnchanged DEF LockOrder, LockTypeOK
<1>2. ASSUME NEW t \in Threads, MuLock(t) PROVE Abstract!Next
    BY <1>2, MuLockEnters DEF Abstract!Next
<1>3. ASSUME NEW t \in Threads, UnlockOrder(t) PROVE Abstract!Next
    BY <1>3, UnlockOrderLeaves DEF Abstract!Next
<1>4. ASSUME NEW t \in Threads, DropReference(t) PROVE Inside' = Inside
    BY <1>4, InsideUnchanged DEF DropReference, LockTypeOK, NotLocking
<1>5. CASE LocksLost
    <2>1. Inside' = [o \in Orders |-> {}]
        BY <1>5 DEF LocksLost, Inside, NotLocking
    <2> QED
        BY <2>1 DEF Abstract!Next, Abstract!Restart
<1>6. CASE UNCHANGED lockVars
    BY <1>6 DEF lockVars, Inside
<1> QED
    BY <1>1, <1>2, <1>3, <1>4, <1>5, <1>6 DEF LockNext

\* LockOrder and UnlockOrder implement one mutex per trade number, although
\* the objects are made on demand, shared and dropped (controller/topup.go).
THEOREM LocksImplementMutex == LockSpec => MutexPerOrder
<1>1. LockInit => Abstract!Init
    BY DEF LockInit, Abstract!Init, Inside, NotLocking
<1> QED
    BY <1>1, LockStepRefines, LocksConsistent, PTL DEF LockSpec, MutexPerOrder, Abstract!Spec
-----------------------------------------------------------------------------
(***************************************************************************)
(* Withdrawals: the copy a decision works from is the row, no two          *)
(* transactions work on one row, and a user for whom a withdrawal is being *)
(* made has none that is open.                                             *)
(***************************************************************************)

WtxType == [op : {"none", "create", "approve", "reject", "pay"},
            id : Withdrawals \cup {None}, row : WithdrawalType]

WithdrawalTypes ==
    /\ withdrawals \in [Withdrawals -> WithdrawalType]
    /\ wtx \in [Threads -> WtxType]
    /\ frozen \in [Users -> Int]

RowsHaveUser == \A w \in Withdrawals : withdrawals[w].status \in Open => withdrawals[w].user \in Users

CreatesFresh ==
    \A t \in Threads : wtx[t].op = "create" =>
        /\ wtx[t].id \in Withdrawals
        /\ withdrawals[wtx[t].id] = NoWithdrawal
        /\ wtx[t].row.user \in Users
        /\ wtx[t].row.status = "pending"
        /\ OpenOf(wtx[t].row.user) = {}

DecidesCurrent ==
    \A t \in Threads : wtx[t].op \in {"approve", "reject", "pay"} =>
        /\ wtx[t].id \in Withdrawals
        /\ withdrawals[wtx[t].id] = wtx[t].row
        /\ wtx[t].row.status \in Open

RowsExclusive ==
    \A s, t \in Threads : s # t /\ wtx[s].op # "none" /\ wtx[t].op # "none" =>
        wtx[s].id # wtx[t].id

CreatorsExclusive ==
    \A s, t \in Threads : s # t /\ wtx[s].op = "create" /\ wtx[t].op = "create" =>
        wtx[s].row.user # wtx[t].row.user

WithdrawalInvariant ==
    /\ LockingReads
    /\ WithdrawalTypes
    /\ RowsHaveUser
    /\ CreatesFresh
    /\ DecidesCurrent
    /\ RowsExclusive
    /\ CreatorsExclusive
    /\ FrozenMatchesOpen

LEMMA WithdrawalConstants ==
    /\ NoWithdrawal \in WithdrawalType
    /\ NoWtx \in WtxType
    /\ NoWtx.op = "none"
BY DEF NoWithdrawal, WithdrawalType, NoWtx, WtxType

LEMMA WithdrawalInit == LockingReads /\ Init => WithdrawalInvariant
<1> SUFFICES ASSUME LockingReads, Init PROVE WithdrawalInvariant
    OBVIOUS
<1>1. WithdrawalTypes
    BY WithdrawalConstants DEF Init, WithdrawalTypes
<1>2. RowsHaveUser
    BY DEF Init, RowsHaveUser, NoWithdrawal, Open
<1>3. CreatesFresh /\ DecidesCurrent /\ RowsExclusive /\ CreatorsExclusive
    BY WithdrawalConstants DEF Init, CreatesFresh, DecidesCurrent, RowsExclusive, CreatorsExclusive
<1>4. FrozenMatchesOpen
    BY DEF Init, FrozenMatchesOpen, Of, NoWithdrawal, Open
<1> QED
    BY <1>1, <1>2, <1>3, <1>4 DEF WithdrawalInvariant

LEMMA WithdrawalUnchanged ==
    ASSUME WithdrawalInvariant, UNCHANGED <<withdrawals, wtx, frozen>>
    PROVE  WithdrawalInvariant'
BY DEF WithdrawalInvariant, WithdrawalTypes, RowsHaveUser, CreatesFresh, DecidesCurrent,
       RowsExclusive, CreatorsExclusive, FrozenMatchesOpen, Of, OpenOf

\* A transaction that ends without an effect.
LEMMA WithdrawalDropped ==
    ASSUME WithdrawalInvariant, UNCHANGED <<withdrawals, frozen>>,
           wtx' \in [Threads -> WtxType],
           \A t \in Threads : wtx'[t].op = "none" \/ wtx'[t] = wtx[t]
    PROVE  WithdrawalInvariant'
<1> USE DEF WithdrawalInvariant
<1>1. WithdrawalTypes' /\ RowsHaveUser' /\ FrozenMatchesOpen'
    BY DEF WithdrawalTypes, RowsHaveUser, FrozenMatchesOpen, Of
<1>2. CreatesFresh'
    BY DEF CreatesFresh, OpenOf, Of
<1>3. DecidesCurrent' /\ RowsExclusive' /\ CreatorsExclusive'
    BY DEF DecidesCurrent, RowsExclusive, CreatorsExclusive
<1> QED
    BY <1>1, <1>2, <1>3

LEMMA CreateBeginInvariant ==
    ASSUME WithdrawalInvariant, NEW t \in Threads, NEW w \in Withdrawals,
           NEW u \in Users, NEW a \in ApplyQuotas, CreateBegin(t, w, u, a)
    PROVE  WithdrawalInvariant'
<1> USE DEF WithdrawalInvariant
<1> DEFINE r == [status |-> "pending", user |-> u, apply |-> a]
<1>1. r \in WithdrawalType
    BY WalletAssumption DEF WithdrawalType
<1>2. /\ wtx' = [wtx EXCEPT ![t] = [op |-> "create", id |-> w, row |-> r]]
      /\ UNCHANGED <<withdrawals, frozen>>
    BY DEF CreateBegin, walletVars
<1>3. /\ wtx'[t] = [op |-> "create", id |-> w, row |-> r]
      /\ \A s \in Threads : s # t => wtx'[s] = wtx[s]
    BY <1>2 DEF WithdrawalTypes
<1>4. WithdrawalTypes'
    BY <1>1, <1>2 DEF WithdrawalTypes, WtxType
<1>5. RowsHaveUser' /\ FrozenMatchesOpen'
    BY <1>2 DEF RowsHaveUser, FrozenMatchesOpen, Of
<1>6. CreatesFresh'
    <2>1. \A v : OpenOf(v)' = OpenOf(v)
        BY <1>2 DEF OpenOf, Of
    <2>2. withdrawals[w] = NoWithdrawal /\ OpenOf(u) = {}
        BY DEF CreateBegin
    <2>3. SUFFICES ASSUME NEW s \in Threads, wtx'[s].op = "create"
                   PROVE  /\ wtx'[s].id \in Withdrawals
                          /\ withdrawals'[wtx'[s].id] = NoWithdrawal
                          /\ wtx'[s].row.user \in Users
                          /\ wtx'[s].row.status = "pending"
                          /\ OpenOf(wtx[s].row.user)' = {}
        BY DEF CreatesFresh, OpenOf, Of
    <2>4. CASE s = t
        BY <1>2, <1>3, <2>2, <2>4 DEF OpenOf, Of
    <2>5. CASE s # t
        BY <1>2, <1>3, <2>3, <2>5 DEF CreatesFresh, OpenOf, Of
    <2> QED
        BY <2>4, <2>5
<1>7. DecidesCurrent'
    BY <1>2, <1>3 DEF DecidesCurrent
<1>8. RowsExclusive'
    BY <1>3 DEF RowsExclusive, CreateBegin
<1>9. CreatorsExclusive'
    <2>1. \A s \in Threads : wtx[s].op = "create" => wtx[s].row.user # u
        BY DEF CreateBegin, UserUnlocked
    <2> QED
        BY <1>3, <2>1 DEF CreatorsExclusive
<1> QED
    BY <1>4, <1>5, <1>6, <1>7, <1>8, <1>9

LEMMA DecideBeginInvariant ==
    ASSUME WithdrawalInvariant, NEW t \in Threads, NEW w \in Withdrawals,
           NEW op \in {"approve", "reject", "pay"}, DecideBegin(t, w, op)
    PROVE  WithdrawalInvariant'
<1> USE DEF WithdrawalInvariant
<1>1. /\ wtx' = [wtx EXCEPT ![t] = [op |-> op, id |-> w, row |-> withdrawals[w]]]
      /\ UNCHANGED <<withdrawals, frozen>>
    BY DEF DecideBegin, walletVars
<1>2. /\ wtx'[t] = [op |-> op, id |-> w, row |-> withdrawals[w]]
      /\ \A s \in Threads : s # t => wtx'[s] = wtx[s]
    BY <1>1 DEF WithdrawalTypes
<1>3. withdrawals[w].status \in Open
    BY DEF DecideBegin, From, Open
<1>4. WithdrawalTypes'
    BY <1>1 DEF WithdrawalTypes, WtxType
<1>5. RowsHaveUser' /\ FrozenMatchesOpen'
    BY <1>1 DEF RowsHaveUser, FrozenMatchesOpen, Of
<1>6. CreatesFresh'
    BY <1>1, <1>2 DEF CreatesFresh, OpenOf, Of
<1>7. DecidesCurrent'
    BY <1>1, <1>2, <1>3 DEF DecidesCurrent
<1>8. RowsExclusive'
    <2>1. \A s \in Threads : wtx[s].op # "none" => wtx[s].id # w
        <3> SUFFICES ASSUME NEW s \in Threads, wtx[s].op # "none", wtx[s].id = w PROVE FALSE
            OBVIOUS
        <3>1. wtx[s].op = "create"
            BY DEF DecideBegin, WithdrawalUnlocked
        <3>2. withdrawals[w] = NoWithdrawal
            BY <3>1 DEF CreatesFresh
        <3> QED
            BY <1>3, <3>2 DEF NoWithdrawal, Open
    <2> QED
        BY <1>2, <2>1 DEF RowsExclusive
<1>9. CreatorsExclusive'
    BY <1>2 DEF CreatorsExclusive
<1> QED
    BY <1>4, <1>5, <1>6, <1>7, <1>8, <1>9

LEMMA CreateInvariant ==
    ASSUME WithdrawalInvariant, NEW t \in Threads, CreateUserWithdrawal(t)
    PROVE  WithdrawalInvariant'
<1> USE DEF WithdrawalInvariant
<1> DEFINE r == wtx[t].row
           x == wtx[t].id
           u == wtx[t].row.user
<1>1. /\ x \in Withdrawals /\ withdrawals[x] = NoWithdrawal
      /\ u \in Users /\ r.status = "pending" /\ OpenOf(u) = {}
      /\ r \in WithdrawalType
    BY DEF CreateUserWithdrawal, CreatesFresh, WithdrawalTypes, WtxType
<1>2. /\ withdrawals' = [withdrawals EXCEPT ![x] = r]
      /\ frozen' = [frozen EXCEPT ![u] = @ + r.apply]
      /\ wtx' = [wtx EXCEPT ![t] = NoWtx]
    BY DEF CreateUserWithdrawal
<1>3. /\ wtx'[t].op = "none"
      /\ \A s \in Threads : s # t => wtx'[s] = wtx[s]
    BY <1>2, WithdrawalConstants DEF WithdrawalTypes
<1>4. /\ withdrawals'[x] = r
      /\ \A w \in Withdrawals : w # x => withdrawals'[w] = withdrawals[w]
    BY <1>1, <1>2 DEF WithdrawalTypes
<1>5. /\ r.apply \in Nat
      /\ frozen'[u] = frozen[u] + r.apply
      /\ \A v \in Users : v # u => frozen'[v] = frozen[v]
    BY <1>1, <1>2 DEF WithdrawalTypes, WithdrawalType
<1>6. WithdrawalTypes'
    BY <1>1, <1>2, <1>5, WithdrawalConstants DEF WithdrawalTypes
<1>7. RowsHaveUser'
    BY <1>1, <1>4 DEF RowsHaveUser
<1>8. \A v \in Users : v # u => {w \in Of(v) : withdrawals[w].status \in Open}'
                               = {w \in Of(v) : withdrawals[w].status \in Open}
    BY <1>1, <1>4 DEF Of, Open, NoWithdrawal
<1>9. CreatesFresh'
    <2> SUFFICES ASSUME NEW s \in Threads, wtx'[s].op = "create"
                 PROVE  /\ wtx'[s].id \in Withdrawals
                        /\ withdrawals'[wtx'[s].id] = NoWithdrawal
                        /\ wtx'[s].row.user \in Users
                        /\ wtx'[s].row.status = "pending"
                        /\ OpenOf(wtx[s].row.user)' = {}
        BY DEF CreatesFresh, OpenOf, Of
    <2>1. s # t /\ wtx'[s] = wtx[s] /\ wtx[t].op = "create"
        BY <1>3 DEF CreateUserWithdrawal
    <2>2. wtx[s].id # x /\ wtx[s].row.user # u
        BY <2>1 DEF RowsExclusive, CreatorsExclusive
    <2>3. wtx[s].row.user \in Users /\ OpenOf(wtx[s].row.user) = {}
        BY <2>1 DEF CreatesFresh
    <2>4. OpenOf(wtx[s].row.user)' = {}
        BY <1>8, <2>1, <2>2, <2>3 DEF OpenOf, Of
    <2> QED
        BY <1>4, <2>1, <2>2, <2>4 DEF CreatesFresh
<1>10. DecidesCurrent'
    BY <1>3, <1>4 DEF DecidesCurrent, RowsExclusive, CreateUserWithdrawal
<1>11. RowsExclusive' /\ CreatorsExclusive'
    BY <1>3 DEF RowsExclusive, CreatorsExclusive
<1>12. FrozenMatchesOpen'
    <2> SUFFICES ASSUME NEW v \in Users
                 PROVE  LET open == {w \in Of(v) : withdrawals[w].status \in Open}'
                        IN  \/ open = {} /\ frozen'[v] = 0
                            \/ \E w \in open : open = {w} /\ frozen'[v] = withdrawals'[w].apply
        BY DEF FrozenMatchesOpen, Of
    <2>1. CASE v = u
        <3>1. frozen[u] = 0
            BY <1>1 DEF FrozenMatchesOpen, OpenOf
        <3>2. {w \in Of(u) : withdrawals[w].status \in Open} = {}
            BY <1>1 DEF OpenOf
        <3>3. {w \in Of(v) : withdrawals[w].status \in Open}' = {x}
            BY <1>1, <1>4, <2>1, <3>2 DEF Of, Open
        <3> QED
            BY <1>4, <1>5, <2>1, <3>1, <3>3
    <2>2. CASE v # u
        <3>1. {w \in Of(v) : withdrawals[w].status \in Open}'
              = {w \in Of(v) : withdrawals[w].status \in Open}
            BY <1>8, <2>2
        <3>2. x \notin {w \in Of(v) : withdrawals[w].status \in Open}
            BY <1>1 DEF NoWithdrawal, Open
        <3>3. \A w \in {w \in Of(v) : withdrawals[w].status \in Open} :
                  withdrawals'[w].apply = withdrawals[w].apply
            BY <1>4, <3>2 DEF Of
        <3>4. frozen'[v] = frozen[v]
            BY <1>5, <2>2
        <3> QED
            BY <3>1, <3>3, <3>4 DEF FrozenMatchesOpen
    <2> QED
        BY <2>1, <2>2
<1> QED
    BY <1>6, <1>7, <1>9, <1>10, <1>11, <1>12

\* A decision: the row of the copy gets its new status, and the frozen quota of
\* its user changes exactly if the withdrawal is no longer open.
LEMMA DecidedInvariant ==
    ASSUME WithdrawalInvariant, NEW t \in Threads,
           wtx[t].op \in {"approve", "reject", "pay"},
           NEW status \in {"approved", "rejected", "paid"},
           Decided(t, status),
           \/ status = "approved" /\ UNCHANGED frozen
           \/ /\ status # "approved"
              /\ frozen' = [frozen EXCEPT ![wtx[t].row.user] = @ - wtx[t].row.apply]
    PROVE  WithdrawalInvariant'
<1> USE DEF WithdrawalInvariant
<1> DEFINE r == wtx[t].row
           x == wtx[t].id
           u == wtx[t].row.user
           OpenSet(v) == {w \in Of(v) : withdrawals[w].status \in Open}
<1>1. /\ x \in Withdrawals /\ withdrawals[x] = r /\ r.status \in Open
      /\ u \in Users /\ r \in WithdrawalType /\ r.apply \in Nat
    BY DEF DecidesCurrent, RowsHaveUser, WithdrawalTypes, WtxType, WithdrawalType
<1>2. /\ withdrawals' = [withdrawals EXCEPT ![x] = [r EXCEPT !.status = status]]
      /\ wtx' = [wtx EXCEPT ![t] = NoWtx]
    BY DEF Decided
<1>3. /\ wtx'[t].op = "none"
      /\ \A s \in Threads : s # t => wtx'[s] = wtx[s]
    BY <1>2, WithdrawalConstants DEF WithdrawalTypes
<1>4. /\ withdrawals'[x] = [r EXCEPT !.status = status]
      /\ \A w \in Withdrawals : w # x => withdrawals'[w] = withdrawals[w]
    BY <1>1, <1>2 DEF WithdrawalTypes
<1>5. withdrawals'[x].user = u /\ withdrawals'[x].apply = r.apply /\ withdrawals'[x].status = status
    BY <1>1, <1>4 DEF WithdrawalType
<1>6. \A w \in Withdrawals : withdrawals'[w].user = withdrawals[w].user
                             /\ withdrawals'[w].apply = withdrawals[w].apply
    BY <1>1, <1>4, <1>5
<1>7. frozen' \in [Users -> Int]
    BY <1>1 DEF WithdrawalTypes
<1>8. WithdrawalTypes'
    <2>1. [r EXCEPT !.status = status] \in WithdrawalType
        BY <1>1 DEF WithdrawalType
    <2> QED
        BY <1>1, <1>2, <1>7, <2>1, WithdrawalConstants DEF WithdrawalTypes
<1>9. RowsHaveUser'
    BY <1>1, <1>4, <1>6 DEF RowsHaveUser
<1>10. \A v \in Users : v # u => OpenSet(v)' = OpenSet(v)
    BY <1>1, <1>4, <1>5 DEF Of
<1>11. \A s \in Threads : wtx[s].op = "create" => wtx[s].row.user # u
    <2> SUFFICES ASSUME NEW s \in Threads, wtx[s].op = "create", wtx[s].row.user = u
                 PROVE  FALSE
        OBVIOUS
    <2>1. OpenOf(u) = {}
        BY DEF CreatesFresh
    <2>2. x \in OpenOf(u)
        BY <1>1 DEF OpenOf, Of
    <2> QED
        BY <2>1, <2>2
<1>12. CreatesFresh'
    <2> SUFFICES ASSUME NEW s \in Threads, wtx'[s].op = "create"
                 PROVE  /\ wtx'[s].id \in Withdrawals
                        /\ withdrawals'[wtx'[s].id] = NoWithdrawal
                        /\ wtx'[s].row.user \in Users
                        /\ wtx'[s].row.status = "pending"
                        /\ OpenOf(wtx[s].row.user)' = {}
        BY DEF CreatesFresh, OpenOf, Of
    <2>1. s # t /\ wtx'[s] = wtx[s] /\ wtx[s].id # x
        BY <1>3 DEF RowsExclusive
    <2>2. wtx[s].row.user \in Users /\ OpenOf(wtx[s].row.user) = {} /\ wtx[s].row.user # u
        BY <1>11, <2>1 DEF CreatesFresh
    <2>3. OpenOf(wtx[s].row.user)' = {}
        BY <1>10, <2>1, <2>2 DEF OpenOf, Of
    <2> QED
        BY <1>4, <2>1, <2>3 DEF CreatesFresh
<1>13. DecidesCurrent'
    BY <1>3, <1>4 DEF DecidesCurrent, RowsExclusive
<1>14. RowsExclusive' /\ CreatorsExclusive'
    BY <1>3 DEF RowsExclusive, CreatorsExclusive
<1>15. OpenSet(u) = {x} /\ frozen[u] = r.apply
    <2>1. x \in OpenSet(u)
        BY <1>1 DEF Of
    <2> QED
        BY <1>1, <2>1 DEF FrozenMatchesOpen
<1>16. FrozenMatchesOpen'
    <2> SUFFICES ASSUME NEW v \in Users
                 PROVE  \/ OpenSet(v)' = {} /\ frozen'[v] = 0
                        \/ \E w \in OpenSet(v)' : /\ OpenSet(v)' = {w}
                                                  /\ frozen'[v] = withdrawals'[w].apply
        BY DEF FrozenMatchesOpen, Of
    <2>1. CASE v # u
        <3>1. OpenSet(v)' = OpenSet(v)
            BY <1>10, <2>1
        <3>2. frozen'[v] = frozen[v]
            BY <1>1, <2>1 DEF WithdrawalTypes
        <3>3. \/ OpenSet(v) = {} /\ frozen[v] = 0
              \/ \E w \in OpenSet(v) : OpenSet(v) = {w} /\ frozen[v] = withdrawals[w].apply
            BY DEF FrozenMatchesOpen
        <3>4. \A w \in OpenSet(v) : withdrawals'[w].apply = withdrawals[w].apply
            BY <1>6 DEF Of
        <3> HIDE DEF OpenSet
        <3> QED
            BY <3>1, <3>2, <3>3, <3>4
    <2>2. CASE v = u /\ status = "approved"
        <3>1. OpenSet(v)' = {x}
            <4>1. \A w \in Withdrawals : (withdrawals'[w].user = v /\ withdrawals'[w].status \in Open)
                                         <=> w = x
                <5>1. \A w \in Withdrawals : (withdrawals[w].user = u /\ withdrawals[w].status \in Open)
                                             <=> w = x
                    BY <1>1, <1>15 DEF Of
                <5> QED
                    BY <1>1, <1>4, <1>5, <2>2, <5>1 DEF Open
            <4> HIDE DEF x
            <4> QED
                BY <1>1, <4>1 DEF Of
        <3>2. frozen'[v] = withdrawals'[x].apply
            BY <1>5, <1>15, <2>2
        <3> HIDE DEF x, OpenSet
        <3> QED
            BY <3>1, <3>2
    <2>3. CASE v = u /\ status # "approved"
        <3>1. OpenSet(v)' = {}
            <4>1. \A w \in Withdrawals : ~(withdrawals'[w].user = v /\ withdrawals'[w].status \in Open)
                <5>1. \A w \in Withdrawals : (withdrawals[w].user = u /\ withdrawals[w].status \in Open)
                                             <=> w = x
                    BY <1>1, <1>15 DEF Of
                <5> QED
                    BY <1>1, <1>4, <1>5, <2>3, <5>1 DEF Open
            <4> QED
                BY <4>1 DEF Of
        <3>2. frozen'[v] = 0
            BY <1>1, <1>15, <2>3 DEF WithdrawalTypes
        <3> QED
            BY <2>3, <3>1, <3>2
    <2> QED
        BY <2>1, <2>2, <2>3
<1> QED
    BY <1>8, <1>9, <1>12, <1>13, <1>14, <1>16

\* The steps that leave withdrawals and their transactions alone.
LEMMA OtherStepsLeaveWithdrawals ==
    ASSUME Next,
           ~ \E t \in Threads : WithdrawalStep(t) \/ Rollback(t),
           ~ Crash
    PROVE  UNCHANGED <<withdrawals, wtx, frozen>>
<1> USE DEF walletVars, HandlerReads
<1>1. CASE \E u \in Users : DecreaseUserQuota(u) \/ updateUserQuota(u) \/ updateUserQuotaFails(u)
    BY <1>1 DEF DecreaseUserQuota, updateUserQuota, updateUserQuotaFails
<1>2. CASE batchUpdate
    BY <1>2 DEF batchUpdate
<1>3. CASE \E t \in Threads : CodeStep(t)
    BY <1>3 DEF CodeStep, RedeemBegin, Redeem, UpdateRedemptionBegin, UpdateRedemption
<1>4. CASE \E t \in Threads : TopUpStep(t)
    BY <1>4 DEF TopUpStep, HandlerLocks, EpayNotify, RechargeBegin, MarkBegin, WaffoFailed,
                HandlerWaits, EpaySave, EpayCredit, Recharge, UpdatePendingTopUpStatus,
                HandlerUnlocks, HandlerEnds
<1>5. CASE \E c \in Codes : DeleteRedemption(c)
    BY <1>5 DEF DeleteRedemption
<1>6. CASE \E o \in Orders, u \in Users, p \in Providers : RequestPay(o, u, p)
    BY <1>6 DEF RequestPay
<1> QED
    BY <1>1, <1>2, <1>3, <1>4, <1>5, <1>6 DEF Next

LEMMA WithdrawalStepInvariant ==
    WithdrawalInvariant /\ [Next]_vars => WithdrawalInvariant'
<1> SUFFICES ASSUME WithdrawalInvariant, [Next]_vars PROVE WithdrawalInvariant'
    OBVIOUS
<1>1. ASSUME NEW t \in Threads, WithdrawalStep(t) PROVE WithdrawalInvariant'
    <2>1. ASSUME NEW w \in Withdrawals, NEW u \in Users, NEW a \in ApplyQuotas,
                 CreateBegin(t, w, u, a)
          PROVE  WithdrawalInvariant'
        BY <2>1, CreateBeginInvariant
    <2>2. CASE CreateUserWithdrawal(t)
        BY <2>2, CreateInvariant
    <2>3. ASSUME NEW w \in Withdrawals, NEW op \in {"approve", "reject", "pay"},
                 DecideBegin(t, w, op)
          PROVE  WithdrawalInvariant'
        BY <2>3, DecideBeginInvariant
    <2>4. CASE ApproveUserWithdrawal(t)
        BY <2>4, DecidedInvariant DEF ApproveUserWithdrawal, walletVars
    <2>5. CASE RejectUserWithdrawal(t)
        BY <2>5, DecidedInvariant DEF RejectUserWithdrawal
    <2>6. CASE MarkUserWithdrawalPaid(t)
        BY <2>6, DecidedInvariant DEF MarkUserWithdrawalPaid
    <2> QED
        BY <1>1, <2>1, <2>2, <2>3, <2>4, <2>5, <2>6 DEF WithdrawalStep
<1>2. ASSUME NEW t \in Threads, Rollback(t) PROVE WithdrawalInvariant'
    <2>1. wtx' = [wtx EXCEPT ![t] = NoWtx] /\ UNCHANGED <<withdrawals, frozen>>
        BY <1>2 DEF Rollback, walletVars
    <2> QED
        BY <2>1, WithdrawalDropped, WithdrawalConstants DEF WithdrawalInvariant, WithdrawalTypes
<1>3. CASE Crash
    <2>1. wtx' = [t \in Threads |-> NoWtx] /\ UNCHANGED <<withdrawals, frozen>>
        BY <1>3 DEF Crash
    <2> QED
        BY <2>1, WithdrawalDropped, WithdrawalConstants
<1>4. CASE UNCHANGED vars
    BY <1>4, WithdrawalUnchanged DEF vars, walletVars
<1>5. CASE Next /\ ~(\E t \in Threads : WithdrawalStep(t) \/ Rollback(t)) /\ ~Crash
    BY <1>5, OtherStepsLeaveWithdrawals, WithdrawalUnchanged
<1> QED
    BY <1>1, <1>2, <1>3, <1>4, <1>5

LEMMA WithdrawalsConsistent == LockingReads /\ Spec => []WithdrawalInvariant
BY WithdrawalInit, WithdrawalStepInvariant, PTL DEF Spec

\* A user has at most one open withdrawal and exactly its quota is frozen,
\* whatever requests and administrators do at once (CreateUserWithdrawal,
\* RejectUserWithdrawal, MarkUserWithdrawalPaid).
THEOREM FrozenIsExact == LockingReads /\ Spec => []FrozenMatchesOpen
BY WithdrawalsConsistent, PTL DEF WithdrawalInvariant

\* No step changes a withdrawal that was paid or rejected.
LEMMA DecidedStays ==
    ASSUME WithdrawalInvariant, [Next]_vars, NEW w \in Withdrawals,
           withdrawals[w].status \in {"paid", "rejected"}
    PROVE  withdrawals'[w] = withdrawals[w]
<1> USE DEF WithdrawalInvariant
<1>1. ASSUME NEW t \in Threads, WithdrawalStep(t) PROVE withdrawals'[w] = withdrawals[w]
    <2>1. CASE CreateUserWithdrawal(t)
        <3>1. wtx[t].id # w
            BY <2>1 DEF CreateUserWithdrawal, CreatesFresh, NoWithdrawal
        <3> QED
            BY <2>1, <3>1 DEF CreateUserWithdrawal, WithdrawalTypes
    <2>2. ASSUME NEW status, wtx[t].op \in {"approve", "reject", "pay"}, Decided(t, status)
          PROVE  withdrawals'[w] = withdrawals[w]
        <3>1. wtx[t].id # w
            BY <2>2 DEF DecidesCurrent, Open
        <3> QED
            BY <2>2, <3>1 DEF Decided, WithdrawalTypes
    <2>3. CASE ApproveUserWithdrawal(t) \/ RejectUserWithdrawal(t) \/ MarkUserWithdrawalPaid(t)
        BY <2>2, <2>3 DEF ApproveUserWithdrawal, RejectUserWithdrawal, MarkUserWithdrawalPaid
    <2>4. ASSUME NEW v \in Withdrawals, NEW u \in Users, NEW a \in ApplyQuotas,
                 CreateBegin(t, v, u, a)
          PROVE  withdrawals'[w] = withdrawals[w]
        BY <2>4 DEF CreateBegin
    <2>5. ASSUME NEW v \in Withdrawals, NEW op \in {"approve", "reject", "pay"},
                 DecideBegin(t, v, op)
          PROVE  withdrawals'[w] = withdrawals[w]
        BY <2>5 DEF DecideBegin
    <2> QED
        BY <1>1, <2>1, <2>3, <2>4, <2>5 DEF WithdrawalStep
<1>2. CASE Crash \/ \E t \in Threads : Rollback(t)
    BY <1>2 DEF Crash, Rollback
<1>3. CASE UNCHANGED vars
    BY <1>3 DEF vars
<1>4. CASE Next /\ ~(\E t \in Threads : WithdrawalStep(t) \/ Rollback(t)) /\ ~Crash
    BY <1>4, OtherStepsLeaveWithdrawals
<1> QED
    BY <1>1, <1>2, <1>3, <1>4

\* A paid or rejected withdrawal stays as it is: no administrator's decision,
\* made from a copy read earlier, reopens or repeats it.
THEOREM DecisionsAreFinal == LockingReads /\ Spec => DecisionIsFinal
<1>1. WithdrawalInvariant /\ [Next]_vars =>
          [\A w \in Withdrawals : withdrawals[w].status \in {"paid", "rejected"} =>
                                  withdrawals'[w] = withdrawals[w]]_vars
    BY DecidedStays
<1> QED
    BY <1>1, WithdrawalsConsistent, PTL DEF Spec, DecisionIsFinal
-----------------------------------------------------------------------------
(***************************************************************************)
(* The locks of the process: every step of Wallet is a step of OrderLocks  *)
(* or leaves them alone, so what is proved of OrderLocks carries over.     *)
(***************************************************************************)

LEMMA WalletLockStep == [Next]_vars => [LockNext]_lockVars
<1> SUFFICES ASSUME [Next]_vars PROVE LockNext \/ UNCHANGED lockVars
    OBVIOUS
<1> USE DEF HandlerReads
<1>1. CASE \E u \in Users : DecreaseUserQuota(u) \/ updateUserQuota(u) \/ updateUserQuotaFails(u)
    BY <1>1 DEF DecreaseUserQuota, updateUserQuota, updateUserQuotaFails
<1>2. CASE batchUpdate
    BY <1>2 DEF batchUpdate
<1>3. CASE \E t \in Threads : WithdrawalStep(t)
    BY <1>3 DEF WithdrawalStep, CreateBegin, CreateUserWithdrawal, DecideBegin,
                ApproveUserWithdrawal, RejectUserWithdrawal, MarkUserWithdrawalPaid
<1>4. CASE \E t \in Threads : CodeStep(t)
    BY <1>4 DEF CodeStep, RedeemBegin, Redeem, UpdateRedemptionBegin, UpdateRedemption
<1>5. ASSUME NEW t \in Threads, TopUpStep(t) PROVE LockNext \/ UNCHANGED lockVars
    <2>1. CASE \E o \in Orders : HandlerLocks(t, o)
        BY <2>1 DEF HandlerLocks, LockNext
    <2>2. CASE HandlerWaits(t) \/ HandlerUnlocks(t) \/ HandlerEnds(t)
        BY <2>2 DEF HandlerWaits, HandlerUnlocks, HandlerEnds, LockNext
    <2>3. CASE \E o \in Orders : \/ EpayNotify(t, o) \/ RechargeBegin(t, o)
                                 \/ MarkBegin(t, o) \/ WaffoFailed(t, o)
        BY <2>3 DEF EpayNotify, RechargeBegin, MarkBegin, WaffoFailed
    <2>4. CASE EpaySave(t) \/ EpayCredit(t) \/ Recharge(t) \/ UpdatePendingTopUpStatus(t)
        BY <2>4 DEF EpaySave, EpayCredit, Recharge, UpdatePendingTopUpStatus
    <2> QED
        BY <1>5, <2>1, <2>2, <2>3, <2>4 DEF TopUpStep
<1>6. CASE \E t \in Threads : Rollback(t)
    BY <1>6 DEF Rollback
<1>7. CASE \E c \in Codes : DeleteRedemption(c)
    BY <1>7 DEF DeleteRedemption
<1>8. CASE \E o \in Orders, u \in Users, p \in Providers : RequestPay(o, u, p)
    BY <1>8 DEF RequestPay
<1>9. CASE Crash
    BY <1>9 DEF Crash, LockNext
<1>10. CASE UNCHANGED vars
    BY <1>10 DEF vars
<1> QED
    BY <1>1, <1>2, <1>3, <1>4, <1>5, <1>6, <1>7, <1>8, <1>9, <1>10 DEF Next

LEMMA WalletImplementsLocks == Spec => LockSpec
<1>1. Init => LockInit
    BY DEF Init
<1> QED
    BY <1>1, WalletLockStep, PTL DEF Spec, LockSpec

\* The payment handlers as a whole, with their crashes, use LockOrder and
\* UnlockOrder as one mutex per trade number.
THEOREM HandlersExcludeEachOther == Spec => MutexPerOrder
BY WalletImplementsLocks, LocksImplementMutex, PTL
-----------------------------------------------------------------------------
(***************************************************************************)
(* Top-ups: a handler that will write an order owns it in the process, or  *)
(* has its row locked, and so works from what the row still holds.  The    *)
(* callbacks of Epay hold no row lock: there the mutex and the provider of *)
(* the order are all that keeps two handlers apart.                        *)
(***************************************************************************)

Working == {"epay", "credit", "complete", "mark"}

TtxType == [pc : Working \cup {"none", "done"}, id : Orders \cup {None}, row : TopUpType]

TopUpTypes ==
    /\ topups \in [Orders -> TopUpType]
    /\ ttx \in [Threads -> TtxType]
    /\ credits \in [Orders -> Nat]

Owns(t) == lk[t].pc = "locked" /\ lk[t].order = ttx[t].id

HandlersOwn ==
    \A t \in Threads : ttx[t].pc \in Working =>
        \/ Owns(t)
        \/ ttx[t].pc = "mark" /\ ttx[t].row.provider = "waffo"

HandlersCurrent ==
    \A t \in Threads : ttx[t].pc \in Working =>
        /\ ttx[t].id \in Orders
        /\ ttx[t].pc = "credit" => /\ topups[ttx[t].id].status = "success"
                                  /\ topups[ttx[t].id].provider = ttx[t].row.provider
                                  /\ topups[ttx[t].id].user = ttx[t].row.user
                                  /\ credits[ttx[t].id] = 0
        /\ ttx[t].pc # "credit" => /\ topups[ttx[t].id] = ttx[t].row
                                  /\ ttx[t].row.status = "pending"
        /\ ttx[t].pc \in {"epay", "credit"} => ttx[t].row.provider = "epay"

HandlersExclusive ==
    \A s, t \in Threads : s # t /\ ttx[s].pc \in Working /\ ttx[t].pc \in Working =>
        ttx[s].id # ttx[t].id

TopUpInvariant ==
    /\ LockingReads
    /\ LockInvariant
    /\ TopUpTypes
    /\ HandlersOwn
    /\ HandlersCurrent
    /\ HandlersExclusive
    /\ TopUpCreditedOnce

LEMMA TopUpConstants ==
    /\ NoTopUp \in TopUpType /\ NoTtx \in TtxType /\ NoTtx.pc = "none"
    /\ [NoTtx EXCEPT !.pc = "done"] \in TtxType
    /\ [NoTtx EXCEPT !.pc = "done"].pc = "done"
BY DEF NoTopUp, TopUpType, NoTtx, TtxType, Working

LEMMA AfterTopUpType ==
    ASSUME NEW t PROVE AfterTopUp(t) \in TtxType /\ AfterTopUp(t).pc \notin Working
BY TopUpConstants DEF AfterTopUp, Working

LEMMA TopUpInit == LockingReads /\ Init => TopUpInvariant
<1> SUFFICES ASSUME LockingReads, Init PROVE TopUpInvariant
    OBVIOUS
<1>1. LockInvariant
    BY NoLocksInvariant DEF Init, LockInit
<1>2. TopUpTypes
    BY TopUpConstants DEF Init, TopUpTypes
<1>3. HandlersOwn /\ HandlersCurrent /\ HandlersExclusive
    BY TopUpConstants DEF Init, HandlersOwn, HandlersCurrent, HandlersExclusive, Working
<1>4. TopUpCreditedOnce
    BY DEF Init, TopUpCreditedOnce
<1> QED
    BY <1>1, <1>2, <1>3, <1>4 DEF TopUpInvariant

\* Mutual exclusion, as the invariant of the locks gives it.
LEMMA OneOwner ==
    ASSUME LockInvariant, NEW s \in Threads, NEW t \in Threads,
           lk[s].pc = "locked", lk[t].pc = "locked", lk[s].order = lk[t].order
    PROVE  s = t
<1>1. lk[s].mu = lk[t].mu
    BY DEF LockInvariant, PointersValid, NotLocking
<1> QED
    BY <1>1 DEF LockInvariant, HolderIsLocked

\* Orders and credits stay; a handler stops, or goes on and keeps what it owns.
LEMMA TopUpQuiet ==
    ASSUME TopUpInvariant, LockInvariant', UNCHANGED <<topups, credits>>,
           ttx' \in [Threads -> TtxType],
           \A t \in Threads :
               \/ ttx'[t].pc \notin Working
               \/ /\ ttx'[t] = ttx[t]
                  /\ lk[t].pc = "locked" => lk'[t].pc = "locked" /\ lk'[t].order = lk[t].order
    PROVE  TopUpInvariant'
<1> USE DEF TopUpInvariant
<1>1. TopUpTypes' /\ TopUpCreditedOnce'
    BY DEF TopUpTypes, TopUpCreditedOnce
<1>2. HandlersOwn'
    BY DEF HandlersOwn, Owns
<1>3. HandlersCurrent' /\ HandlersExclusive'
    BY DEF HandlersCurrent, HandlersExclusive
<1> QED
    BY <1>1, <1>2, <1>3

\* A handler reads an order that no other handler is working on.
LEMMA HandlerReadsInvariant ==
    ASSUME TopUpInvariant, NEW t \in Threads, NEW o \in Orders,
           NEW pc \in {"epay", "complete", "mark"}, HandlerReads(t, o, pc),
           \/ lk[t].pc = "locked" /\ lk[t].order = o
           \/ pc = "mark" /\ topups[o].provider = "waffo",
           pc = "epay" => topups[o].provider = "epay",
           \A s \in Threads : s # t /\ ttx[s].pc \in Working => ttx[s].id # o
    PROVE  TopUpInvariant'
<1> USE DEF TopUpInvariant
<1>1. UNCHANGED <<topups, credits>> /\ UNCHANGED lockVars
    BY DEF HandlerReads, histories
<1>2. LockInvariant'
    BY <1>1, LockStepInvariant
<1>3. CASE topups[o].status # "pending"
    <2>1. ttx' = [ttx EXCEPT ![t] = [NoTtx EXCEPT !.pc = "done"]]
        BY <1>3 DEF HandlerReads
    <2>2. /\ ttx' \in [Threads -> TtxType]
          /\ ttx'[t].pc \notin Working
          /\ \A s \in Threads : s # t => ttx'[s] = ttx[s]
        BY <2>1, TopUpConstants DEF TopUpTypes, Working
    <2> QED
        BY <1>1, <1>2, <2>2, TopUpQuiet DEF lockVars
<1>4. CASE topups[o].status = "pending"
    <2>1. ttx' = [ttx EXCEPT ![t] = [pc |-> pc, id |-> o, row |-> topups[o]]]
        BY <1>4 DEF HandlerReads
    <2>2. /\ ttx'[t] = [pc |-> pc, id |-> o, row |-> topups[o]]
          /\ \A s \in Threads : s # t => ttx'[s] = ttx[s]
        BY <2>1 DEF TopUpTypes
    <2>3. TopUpTypes' /\ TopUpCreditedOnce'
        BY <1>1, <2>1 DEF TopUpTypes, TtxType, Working, TopUpCreditedOnce
    <2>4. HandlersOwn'
        BY <1>1, <2>2 DEF HandlersOwn, Owns, lockVars
    <2>5. HandlersCurrent'
        BY <1>1, <1>4, <2>2 DEF HandlersCurrent
    <2>6. HandlersExclusive'
        BY <2>2 DEF HandlersExclusive
    <2> QED
        BY <1>2, <2>3, <2>4, <2>5, <2>6
<1> QED
    BY <1>3, <1>4

LEMMA TopUpBeginInvariant ==
    ASSUME TopUpInvariant, NEW t \in Threads, NEW o \in Orders,
           EpayNotify(t, o) \/ RechargeBegin(t, o) \/ MarkBegin(t, o) \/ WaffoFailed(t, o)
    PROVE  TopUpInvariant'
<1> USE DEF TopUpInvariant
<1>1. ASSUME lk[t].pc = "locked", lk[t].order = o, NEW s \in Threads, s # t,
             ttx[s].pc \in Working, ttx[s].id = o
      PROVE  ttx[s].pc = "mark" /\ topups[o].provider = "waffo"
    <2>1. ~Owns(s)
        BY <1>1, OneOwner DEF Owns
    <2> QED
        BY <1>1, <2>1 DEF HandlersOwn, HandlersCurrent
<1>2. CASE EpayNotify(t, o)
    <2>1. /\ lk[t].pc = "locked" /\ lk[t].order = o
          /\ topups[o].provider = "epay" /\ HandlerReads(t, o, "epay")
        BY <1>2 DEF EpayNotify, OwnsOrder
    <2>2. \A s \in Threads : s # t /\ ttx[s].pc \in Working => ttx[s].id # o
        BY <1>1, <2>1
    <2> QED
        BY <2>1, <2>2, HandlerReadsInvariant
<1>3. CASE RechargeBegin(t, o)
    <2>1. /\ lk[t].pc = "locked" /\ lk[t].order = o
          /\ TopUpUnlocked(o) /\ HandlerReads(t, o, "complete")
        BY <1>3 DEF RechargeBegin, OwnsOrder
    <2>2. \A s \in Threads : s # t /\ ttx[s].pc \in Working => ttx[s].id # o
        BY <1>1, <2>1 DEF TopUpUnlocked
    <2> QED
        BY <2>1, <2>2, HandlerReadsInvariant
<1>4. CASE MarkBegin(t, o)
    <2>1. /\ lk[t].pc = "locked" /\ lk[t].order = o
          /\ TopUpUnlocked(o) /\ HandlerReads(t, o, "mark")
        BY <1>4 DEF MarkBegin, OwnsOrder
    <2>2. \A s \in Threads : s # t /\ ttx[s].pc \in Working => ttx[s].id # o
        BY <1>1, <2>1 DEF TopUpUnlocked
    <2> QED
        BY <2>1, <2>2, HandlerReadsInvariant
<1>5. CASE WaffoFailed(t, o)
    <2>1. topups[o].provider = "waffo" /\ TopUpUnlocked(o) /\ HandlerReads(t, o, "mark")
        BY <1>5 DEF WaffoFailed
    <2>2. \A s \in Threads : s # t /\ ttx[s].pc \in Working => ttx[s].id # o
        BY <2>1 DEF TopUpUnlocked, HandlersCurrent, Working
    <2> QED
        BY <2>1, <2>2, HandlerReadsInvariant
<1> QED
    BY <1>2, <1>3, <1>4, <1>5

\* EpaySave: the order is a success before the wallet is credited.
LEMMA EpaySaveInvariant ==
    ASSUME TopUpInvariant, NEW t \in Threads, EpaySave(t)
    PROVE  TopUpInvariant'
<1> USE DEF TopUpInvariant
<1> DEFINE o == ttx[t].id
<1>1. /\ o \in Orders /\ topups[o] = ttx[t].row /\ ttx[t].row.status = "pending"
      /\ ttx[t].row.provider = "epay" /\ Owns(t) /\ ttx[t].row \in TopUpType
    BY DEF EpaySave, HandlersCurrent, HandlersOwn, Working, TopUpTypes, TtxType
<1>2. /\ topups' = [topups EXCEPT ![o] = [ttx[t].row EXCEPT !.status = "success"]]
      /\ ttx' = [ttx EXCEPT ![t].pc = "credit"]
      /\ UNCHANGED credits /\ UNCHANGED lockVars
    BY DEF EpaySave, SaveTopUp, histories
<1>3. LockInvariant'
    BY <1>2, LockStepInvariant
<1>4. [ttx[t].row EXCEPT !.status = "success"] \in TopUpType
    BY <1>1 DEF TopUpType
<1>5. TopUpTypes'
    BY <1>1, <1>2, <1>4 DEF TopUpTypes, TtxType, Working
<1>6. /\ ttx'[t] = [ttx[t] EXCEPT !.pc = "credit"]
      /\ \A s \in Threads : s # t => ttx'[s] = ttx[s]
    BY <1>2 DEF TopUpTypes
<1>7. ttx'[t].pc = "credit" /\ ttx'[t].id = o /\ ttx'[t].row = ttx[t].row
    BY <1>6 DEF TopUpTypes, TtxType
<1>8. /\ topups'[o].status = "success" /\ topups'[o].provider = "epay"
      /\ \A p \in Orders : p # o => topups'[p] = topups[p]
    BY <1>1, <1>2 DEF TopUpTypes, TopUpType
<1>9. credits[o] = 0
    BY <1>1 DEF TopUpCreditedOnce, TopUpTypes
<1>10. TopUpCreditedOnce'
    BY <1>1, <1>2, <1>8 DEF TopUpCreditedOnce
<1>11. HandlersOwn'
    BY <1>1, <1>2, <1>6, <1>7 DEF HandlersOwn, Owns, lockVars
<1>12. \A s \in Threads : s # t /\ ttx[s].pc \in Working => ttx[s].id # o
    BY DEF HandlersExclusive, EpaySave, Working
<1>13. HandlersCurrent'
    BY <1>1, <1>2, <1>6, <1>7, <1>8, <1>9, <1>12 DEF HandlersCurrent
<1>14. HandlersExclusive'
    BY <1>6, <1>7, <1>12 DEF HandlersExclusive
<1> QED
    BY <1>3, <1>5, <1>10, <1>11, <1>13, <1>14

\* The last write of a handler: the order is settled and credited at most now.
LEMMA TopUpWriteInvariant ==
    ASSUME TopUpInvariant, NEW t \in Threads, ttx[t].pc \in Working, UNCHANGED lockVars,
           ttx' = [ttx EXCEPT ![t] = AfterTopUp(t)],
           NEW row \in TopUpType,
           topups' = [topups EXCEPT ![ttx[t].id] = row],
           credits[ttx[t].id] = 0,
           \/ UNCHANGED credits
           \/ /\ credits' = [credits EXCEPT ![ttx[t].id] = @ + 1]
              /\ row.status = "success"
    PROVE  TopUpInvariant'
<1> USE DEF TopUpInvariant
<1> DEFINE o == ttx[t].id
<1>1. o \in Orders
    BY DEF HandlersCurrent
<1>2. LockInvariant'
    BY LockStepInvariant
<1>3. /\ ttx' \in [Threads -> TtxType]
      /\ ttx'[t].pc \notin Working
      /\ \A s \in Threads : s # t => ttx'[s] = ttx[s]
    BY AfterTopUpType DEF TopUpTypes
<1>4. /\ topups'[o] = row
      /\ \A p \in Orders : p # o => topups'[p] = topups[p] /\ credits'[p] = credits[p]
      /\ credits'[o] = 0 \/ (credits'[o] = 1 /\ row.status = "success")
    <2>1. topups'[o] = row /\ \A p \in Orders : p # o => topups'[p] = topups[p]
        BY <1>1 DEF TopUpTypes
    <2>2. CASE credits' = credits
        BY <2>1, <2>2
    <2>3. CASE credits' = [credits EXCEPT ![o] = @ + 1] /\ row.status = "success"
        BY <1>1, <2>1, <2>3 DEF TopUpTypes
    <2> QED
        BY <2>2, <2>3
<1>5. TopUpTypes'
    BY <1>1, <1>3 DEF TopUpTypes
<1>6. TopUpCreditedOnce'
    BY <1>1, <1>4 DEF TopUpCreditedOnce
<1>7. HandlersOwn'
    BY <1>3 DEF HandlersOwn, Owns, lockVars
<1>8. \A s \in Threads : s # t /\ ttx[s].pc \in Working => ttx[s].id # o
    BY DEF HandlersExclusive
<1>9. HandlersCurrent'
    BY <1>3, <1>4, <1>8 DEF HandlersCurrent
<1>10. HandlersExclusive'
    BY <1>3 DEF HandlersExclusive
<1> QED
    BY <1>2, <1>5, <1>6, <1>7, <1>9, <1>10

LEMMA TopUpEndInvariant ==
    ASSUME TopUpInvariant, NEW t \in Threads,
           EpayCredit(t) \/ Recharge(t) \/ UpdatePendingTopUpStatus(t)
    PROVE  TopUpInvariant'
<1> USE DEF TopUpInvariant
<1> DEFINE o == ttx[t].id
<1>1. ttx[t].pc \in Working /\ o \in Orders /\ ttx[t].row \in TopUpType
    BY DEF EpayCredit, Recharge, UpdatePendingTopUpStatus, Working, HandlersCurrent,
           TopUpTypes, TtxType
<1>2. /\ UNCHANGED lockVars
      /\ ttx' = [ttx EXCEPT ![t] = AfterTopUp(t)]
    BY DEF EpayCredit, Recharge, UpdatePendingTopUpStatus
<1>3. credits[o] = 0
    BY <1>1 DEF HandlersCurrent, TopUpCreditedOnce, TopUpTypes
<1>4. CASE EpayCredit(t)
    <2>1. topups[o].status = "success" /\ topups[o] \in TopUpType
        BY <1>1, <1>4 DEF EpayCredit, HandlersCurrent, TopUpTypes
    <2>2. topups' = [topups EXCEPT ![o] = topups[o]]
        BY <1>1, <1>4 DEF EpayCredit, TopUpTypes
    <2>3. credits' = [credits EXCEPT ![o] = @ + 1]
        BY <1>4 DEF EpayCredit, Credit
    <2> QED
        BY <1>1, <1>2, <1>3, <2>1, <2>2, <2>3, TopUpWriteInvariant
<1>5. CASE Recharge(t)
    <2> DEFINE row == [ttx[t].row EXCEPT !.status = "success"]
    <2>1. row \in TopUpType /\ row.status = "success"
        BY <1>1 DEF TopUpType
    <2>2. topups' = [topups EXCEPT ![o] = row] /\ credits' = [credits EXCEPT ![o] = @ + 1]
        BY <1>5 DEF Recharge, SaveTopUp, Credit
    <2> QED
        BY <1>1, <1>2, <1>3, <2>1, <2>2, TopUpWriteInvariant
<1>6. CASE UpdatePendingTopUpStatus(t)
    <2> DEFINE row == [ttx[t].row EXCEPT !.status = "failed"]
    <2>1. row \in TopUpType
        BY <1>1 DEF TopUpType
    <2>2. topups' = [topups EXCEPT ![o] = row] /\ UNCHANGED credits
        BY <1>6 DEF UpdatePendingTopUpStatus, SaveTopUp, histories
    <2> QED
        BY <1>1, <1>2, <1>3, <2>1, <2>2, TopUpWriteInvariant
<1> QED
    BY <1>4, <1>5, <1>6

LEMMA RequestPayInvariant ==
    ASSUME TopUpInvariant, NEW o \in Orders, NEW u \in Users, NEW p \in Providers,
           RequestPay(o, u, p)
    PROVE  TopUpInvariant'
<1> USE DEF TopUpInvariant
<1> DEFINE row == [status |-> "pending", user |-> u, provider |-> p]
<1>1. /\ topups' = [topups EXCEPT ![o] = row] /\ row \in TopUpType
      /\ UNCHANGED <<credits, ttx>> /\ UNCHANGED lockVars
    BY DEF RequestPay, histories, TopUpType
<1>2. LockInvariant'
    BY <1>1, LockStepInvariant
<1>3. topups[o].status = "none" /\ credits[o] = 0
    BY DEF RequestPay, NoTopUp, TopUpCreditedOnce, TopUpTypes
<1>4. \A s \in Threads : ttx[s].pc \in Working => ttx[s].id # o
    BY <1>3 DEF HandlersCurrent
<1>5. \A q \in Orders : q # o => topups'[q] = topups[q]
    BY <1>1 DEF TopUpTypes
<1>6. TopUpTypes' /\ TopUpCreditedOnce'
    BY <1>1, <1>3, <1>5 DEF TopUpTypes, TopUpCreditedOnce
<1>7. HandlersOwn' /\ HandlersExclusive'
    BY <1>1 DEF HandlersOwn, Owns, HandlersExclusive, lockVars
<1>8. HandlersCurrent'
    BY <1>1, <1>4, <1>5 DEF HandlersCurrent
<1> QED
    BY <1>2, <1>6, <1>7, <1>8

\* Steps of the handlers around their work, and all steps that are not theirs.
LEMMA TopUpOtherInvariant ==
    ASSUME TopUpInvariant, [Next]_vars,
           \A t \in Threads : ~(EpaySave(t) \/ EpayCredit(t) \/ Recharge(t)
                                \/ UpdatePendingTopUpStatus(t)),
           \A t \in Threads, o \in Orders :
               ~(EpayNotify(t, o) \/ RechargeBegin(t, o) \/ MarkBegin(t, o) \/ WaffoFailed(t, o)),
           \A o \in Orders, u \in Users, p \in Providers : ~RequestPay(o, u, p)
    PROVE  TopUpInvariant'
<1> USE DEF TopUpInvariant
<1>1. LockInvariant'
    BY WalletLockStep, LockStepInvariant
<1> DEFINE Quiet == /\ UNCHANGED <<topups, credits>>
                    /\ ttx' \in [Threads -> TtxType]
                    /\ \A t \in Threads :
                          \/ ttx'[t].pc \notin Working
                          \/ /\ ttx'[t] = ttx[t]
                             /\ lk[t].pc = "locked" =>
                                   lk'[t].pc = "locked" /\ lk'[t].order = lk[t].order
<1>2. ttx \in [Threads -> TtxType]
    BY DEF TopUpTypes
<1>3. ASSUME UNCHANGED <<topups, credits, ttx>>, UNCHANGED lockVars PROVE Quiet
    BY <1>2, <1>3 DEF lockVars
<1>4. ASSUME NEW t \in Threads, TopUpStep(t) PROVE Quiet
    <2>1. CASE \E o \in Orders : HandlerLocks(t, o)
        <3>1. lk[t].pc = "none" /\ \A s \in Threads : s # t => lk'[s] = lk[s]
            BY <2>1 DEF HandlerLocks, LockOrder, Waits, LockInvariant, LockTypeOK
        <3>2. UNCHANGED <<topups, credits, ttx>>
            BY <2>1 DEF HandlerLocks, histories
        <3> QED
            BY <1>2, <3>1, <3>2
    <2>2. CASE HandlerWaits(t)
        <3>1. lk[t].pc = "waiting" /\ \A s \in Threads : s # t => lk'[s] = lk[s]
            BY <2>2 DEF HandlerWaits, MuLock, LockInvariant, LockTypeOK
        <3>2. UNCHANGED <<topups, credits, ttx>>
            BY <2>2 DEF HandlerWaits, histories
        <3> QED
            BY <1>2, <3>1, <3>2
    <2>3. CASE HandlerUnlocks(t)
        <3>1. \A s \in Threads : s # t => lk'[s] = lk[s]
            BY <2>3 DEF HandlerUnlocks, UnlockOrder, LockInvariant, LockTypeOK
        <3>2. ttx' = [ttx EXCEPT ![t] = NoTtx] /\ UNCHANGED <<topups, credits>>
            BY <2>3 DEF HandlerUnlocks, histories
        <3> QED
            BY <1>2, <3>1, <3>2, TopUpConstants DEF Working
    <2>4. CASE HandlerEnds(t)
        <3>1. lk[t].pc = "unlocking" /\ \A s \in Threads : s # t => lk'[s] = lk[s]
            BY <2>4 DEF HandlerEnds, DropReference, LockInvariant, LockTypeOK
        <3>2. UNCHANGED <<topups, credits, ttx>>
            BY <2>4 DEF HandlerEnds, histories
        <3> QED
            BY <1>2, <3>1, <3>2
    <2> QED
        BY <1>4, <2>1, <2>2, <2>3, <2>4 DEF TopUpStep
<1>5. ASSUME NEW t \in Threads, Rollback(t) PROVE Quiet
    <2>1. /\ ttx' = [ttx EXCEPT ![t] = AfterTopUp(t)] /\ UNCHANGED <<topups, credits>>
          /\ UNCHANGED lk
        BY <1>5 DEF Rollback, histories, lockVars
    <2> QED
        BY <1>2, <2>1, AfterTopUpType
<1>6. ASSUME Crash PROVE Quiet
    <2>1. ttx' = [t \in Threads |-> NoTtx] /\ UNCHANGED <<topups, credits>>
        BY <1>6 DEF Crash
    <2> QED
        BY <2>1, TopUpConstants DEF Working
<1>7. ASSUME \/ batchUpdate
             \/ \E u \in Users : \/ DecreaseUserQuota(u) \/ updateUserQuota(u)
                                \/ updateUserQuotaFails(u)
      PROVE  Quiet
    BY <1>3, <1>7 DEF DecreaseUserQuota, updateUserQuota, updateUserQuotaFails, batchUpdate, histories
<1>8. ASSUME \E t \in Threads : WithdrawalStep(t) PROVE Quiet
    <2>1. UNCHANGED <<topups, credits, ttx>> /\ UNCHANGED lockVars
        BY <1>8 DEF WithdrawalStep, CreateBegin, CreateUserWithdrawal, DecideBegin,
               ApproveUserWithdrawal, RejectUserWithdrawal, MarkUserWithdrawalPaid, histories
    <2> QED
        BY <1>3, <2>1
<1>9. ASSUME \E t \in Threads : CodeStep(t) PROVE Quiet
    <2>1. UNCHANGED <<topups, credits, ttx>> /\ UNCHANGED lockVars
        BY <1>9 DEF CodeStep, RedeemBegin, Redeem, UpdateRedemptionBegin, UpdateRedemption, histories
    <2> QED
        BY <1>3, <2>1
<1>10. ASSUME \E c \in Codes : DeleteRedemption(c) PROVE Quiet
    BY <1>3, <1>10 DEF DeleteRedemption, histories
<1>11. ASSUME UNCHANGED vars PROVE Quiet
    BY <1>3, <1>11 DEF vars, histories
<1>12. Quiet
    <2> HIDE DEF Quiet
    <2> QED
        BY <1>4, <1>5, <1>6, <1>7, <1>8, <1>9, <1>10, <1>11 DEF Next
<1> QED
    BY <1>1, <1>12, TopUpQuiet

LEMMA TopUpStepInvariant == TopUpInvariant /\ [Next]_vars => TopUpInvariant'
BY TopUpBeginInvariant, EpaySaveInvariant, TopUpEndInvariant, RequestPayInvariant,
   TopUpOtherInvariant

\* However callbacks of the providers, administrators and crashes interleave,
\* a top-up is credited at most once and then stays a success, although the
\* callbacks of Epay save and credit without a transaction.
THEOREM TopUpsCreditedOnce == LockingReads /\ Spec => []TopUpCreditedOnce
<1>1. TopUpInvariant => TopUpCreditedOnce
    BY DEF TopUpInvariant
<1> QED
    BY <1>1, TopUpInit, TopUpStepInvariant, PTL DEF Spec
-----------------------------------------------------------------------------
(***************************************************************************)
(* Redemption codes: while a redemption has the code locked, the code      *)
(* stays usable and nobody else redeems it; a usable code has been made    *)
(* usable once more than it was used.                                      *)
(***************************************************************************)

CtxType == [op : {"none", "redeem", "edit"}, id : Codes \cup {None}, row : CodeType]

CodeTypes ==
    /\ codes \in [Codes -> CodeType]
    /\ ctx \in [Threads -> CtxType]
    /\ enables \in [Codes -> [count : Nat, used : Nat]]

EditsKnown == \A t \in Threads : ctx[t].op # "none" => ctx[t].id \in Codes

RedeemsEnabled == \A t \in Threads : ctx[t].op = "redeem" => codes[ctx[t].id].status = "enabled"

RedeemsExclusive ==
    \A s, t \in Threads : s # t /\ ctx[s].op = "redeem" /\ ctx[t].op = "redeem" =>
        ctx[s].id # ctx[t].id

UsableIsUnused == \A c \in Codes : codes[c].status = "enabled" => enables[c].used < enables[c].count

CodeInvariant ==
    /\ LockingReads
    /\ CodeTypes
    /\ EditsKnown
    /\ RedeemsEnabled
    /\ RedeemsExclusive
    /\ UsableIsUnused
    /\ RedeemedPerEnable

LEMMA CodeConstants == NoCode \in CodeType /\ NoCtx \in CtxType /\ NoCtx.op = "none"
BY DEF NoCode, CodeType, NoCtx, CtxType

LEMMA CodeInit == LockingReads /\ Init => CodeInvariant
<1> SUFFICES ASSUME LockingReads, Init PROVE CodeInvariant
    OBVIOUS
<1>1. codes \in [Codes -> CodeType]
    BY WalletAssumption DEF Init, CodeType, NoCode
<1>2. CodeTypes
    BY <1>1, CodeConstants DEF Init, CodeTypes
<1>3. EditsKnown /\ RedeemsEnabled /\ RedeemsExclusive
    BY CodeConstants DEF Init, EditsKnown, RedeemsEnabled, RedeemsExclusive
<1>4. UsableIsUnused /\ RedeemedPerEnable
    BY DEF Init, UsableIsUnused, RedeemedPerEnable
<1> QED
    BY <1>2, <1>3, <1>4 DEF CodeInvariant

\* Codes and their histories stay; transactions on them may end.
LEMMA CodeQuiet ==
    ASSUME CodeInvariant, UNCHANGED <<codes, enables>>, ctx' \in [Threads -> CtxType],
           \A t \in Threads : ctx'[t].op = "none" \/ ctx'[t] = ctx[t]
    PROVE  CodeInvariant'
BY DEF CodeInvariant, CodeTypes, EditsKnown, RedeemsEnabled, RedeemsExclusive, UsableIsUnused,
       RedeemedPerEnable

LEMMA RedeemBeginInvariant ==
    ASSUME CodeInvariant, NEW t \in Threads, NEW c \in Codes, NEW u \in Users, RedeemBegin(t, c, u)
    PROVE  CodeInvariant'
<1> USE DEF CodeInvariant
<1> DEFINE n == [op |-> "redeem", id |-> c, row |-> [codes[c] EXCEPT !.user = u]]
<1>1. /\ ctx' = [ctx EXCEPT ![t] = n] /\ UNCHANGED <<codes, enables>>
      /\ codes[c].status = "enabled"
      /\ \A s \in Threads : ctx[s].op = "redeem" => ctx[s].id # c
    BY DEF RedeemBegin, histories, CanRedeem, CodeUnlocked
<1>2. n \in CtxType
    BY DEF CodeTypes, CtxType, CodeType
<1>3. ctx'[t] = n /\ \A s \in Threads : s # t => ctx'[s] = ctx[s]
    BY <1>1 DEF CodeTypes
<1>4. CodeTypes' /\ UsableIsUnused' /\ RedeemedPerEnable'
    BY <1>1, <1>2 DEF CodeTypes, UsableIsUnused, RedeemedPerEnable
<1>5. EditsKnown' /\ RedeemsEnabled' /\ RedeemsExclusive'
    BY <1>1, <1>3 DEF EditsKnown, RedeemsEnabled, RedeemsExclusive
<1> QED
    BY <1>4, <1>5

LEMMA RedeemInvariant ==
    ASSUME CodeInvariant, NEW t \in Threads, Redeem(t)
    PROVE  CodeInvariant'
<1> USE DEF CodeInvariant
<1> DEFINE c == ctx[t].id
           r == [ctx[t].row EXCEPT !.status = "used"]
<1>1. c \in Codes /\ enables[c].used < enables[c].count /\ ctx[t].op = "redeem"
    BY DEF Redeem, EditsKnown, RedeemsEnabled, UsableIsUnused
<1>2. r \in CodeType /\ r.status = "used"
    BY DEF CodeTypes, CtxType, CodeType
<1>3. /\ codes' = [codes EXCEPT ![c] = r]
      /\ enables' = [enables EXCEPT ![c].used = @ + 1]
      /\ ctx' = [ctx EXCEPT ![t] = NoCtx]
    BY DEF Redeem
<1>4. ctx'[t].op = "none" /\ \A s \in Threads : s # t => ctx'[s] = ctx[s]
    BY <1>3, CodeConstants DEF CodeTypes
<1>5. /\ codes'[c].status = "used"
      /\ enables'[c].used = enables[c].used + 1 /\ enables'[c].count = enables[c].count
      /\ \A d \in Codes : d # c => codes'[d] = codes[d] /\ enables'[d] = enables[d]
    BY <1>1, <1>2, <1>3 DEF CodeTypes
<1>6. CodeTypes'
    BY <1>1, <1>2, <1>3, CodeConstants DEF CodeTypes
<1>7. EditsKnown' /\ RedeemsExclusive'
    BY <1>4 DEF EditsKnown, RedeemsExclusive
<1>8. RedeemsEnabled'
    BY <1>1, <1>4, <1>5 DEF RedeemsEnabled, RedeemsExclusive, EditsKnown
<1>9. UsableIsUnused' /\ RedeemedPerEnable'
    <2>1. enables[c].used \in Nat /\ enables[c].count \in Nat
        BY <1>1 DEF CodeTypes
    <2> QED
        BY <1>1, <1>5, <2>1 DEF UsableIsUnused, RedeemedPerEnable
<1> QED
    BY <1>6, <1>7, <1>8, <1>9

LEMMA EditBeginInvariant ==
    ASSUME CodeInvariant, NEW t \in Threads, NEW c \in Codes, UpdateRedemptionBegin(t, c)
    PROVE  CodeInvariant'
<1> USE DEF CodeInvariant
<1>1. PICK r \in CodeType : ctx' = [ctx EXCEPT ![t] = [op |-> "edit", id |-> c, row |-> r]]
    <2>1. codes[c] \in CodeType
        BY DEF CodeTypes
    <2>2. \A q \in CodeQuotas : [codes[c] EXCEPT !.quota = q] \in CodeType
        BY <2>1, WalletAssumption DEF CodeType
    <2>3. \A x \in {"enabled", "disabled"} : [codes[c] EXCEPT !.status = x] \in CodeType
        BY <2>1 DEF CodeType
    <2> QED
        BY <2>2, <2>3 DEF UpdateRedemptionBegin
<1>2. UNCHANGED <<codes, enables>>
    BY DEF UpdateRedemptionBegin
<1>3. /\ ctx'[t] = [op |-> "edit", id |-> c, row |-> r]
      /\ \A s \in Threads : s # t => ctx'[s] = ctx[s]
    BY <1>1 DEF CodeTypes
<1>4. CodeTypes' /\ UsableIsUnused' /\ RedeemedPerEnable'
    BY <1>1, <1>2 DEF CodeTypes, CtxType, UsableIsUnused, RedeemedPerEnable
<1>5. EditsKnown' /\ RedeemsEnabled' /\ RedeemsExclusive'
    BY <1>2, <1>3 DEF EditsKnown, RedeemsEnabled, RedeemsExclusive
<1> QED
    BY <1>4, <1>5

\* The edit writes the status it has read; it cannot meet a redemption, and a
\* code it makes usable counts as made usable once more.
LEMMA EditInvariant ==
    ASSUME CodeInvariant, NEW t \in Threads, UpdateRedemption(t)
    PROVE  CodeInvariant'
<1> USE DEF CodeInvariant
<1> DEFINE c == ctx[t].id
           r == ctx[t].row
<1>1. /\ c \in Codes /\ r \in CodeType
      /\ \A s \in Threads : ctx[s].op = "redeem" => ctx[s].id # c
    BY DEF UpdateRedemption, EditsKnown, CodeTypes, CtxType, CodeUnlocked
<1>2. /\ codes' = IF codes[c].deleted THEN codes
                  ELSE [codes EXCEPT ![c].status = r.status, ![c].quota = r.quota]
      /\ enables' = IF r.status = "enabled" /\ codes[c].status # "enabled"
                    THEN [enables EXCEPT ![c].count = @ + 1] ELSE enables
      /\ ctx' = [ctx EXCEPT ![t] = NoCtx]
    BY DEF UpdateRedemption
<1>3. ctx'[t].op = "none" /\ \A s \in Threads : s # t => ctx'[s] = ctx[s]
    BY <1>2, CodeConstants DEF CodeTypes
<1>4. \A d \in Codes : d # c => codes'[d] = codes[d] /\ enables'[d] = enables[d]
    BY <1>1, <1>2 DEF CodeTypes
<1>5. codes' \in [Codes -> CodeType]
    BY <1>1, <1>2 DEF CodeTypes, CodeType
<1>6. enables' \in [Codes -> [count : Nat, used : Nat]]
    BY <1>1, <1>2 DEF CodeTypes
<1>7. CodeTypes'
    BY <1>2, <1>5, <1>6, CodeConstants DEF CodeTypes
<1>8. codes'[c].status \in {codes[c].status, r.status}
    BY <1>1, <1>2 DEF CodeTypes, CodeType
<1>9. /\ enables'[c].used = enables[c].used
      /\ enables'[c].count = IF r.status = "enabled" /\ codes[c].status # "enabled"
                             THEN enables[c].count + 1 ELSE enables[c].count
      /\ enables[c].used \in Nat /\ enables[c].count \in Nat
    BY <1>1, <1>2 DEF CodeTypes
<1>10. EditsKnown' /\ RedeemsExclusive'
    BY <1>3 DEF EditsKnown, RedeemsExclusive
<1>11. RedeemsEnabled'
    BY <1>1, <1>3, <1>4 DEF RedeemsEnabled, EditsKnown
<1>12. enables'[c].used <= enables'[c].count
    BY <1>1, <1>9 DEF RedeemedPerEnable
<1>13. codes'[c].status = "enabled" => enables'[c].used < enables'[c].count
    BY <1>1, <1>8, <1>9 DEF UsableIsUnused, RedeemedPerEnable
<1>14. UsableIsUnused' /\ RedeemedPerEnable'
    BY <1>4, <1>12, <1>13 DEF UsableIsUnused, RedeemedPerEnable
<1> QED
    BY <1>7, <1>10, <1>11, <1>14

LEMMA DeleteInvariant ==
    ASSUME CodeInvariant, NEW c \in Codes, DeleteRedemption(c)
    PROVE  CodeInvariant'
<1> USE DEF CodeInvariant
<1>1. codes' = [codes EXCEPT ![c].deleted = TRUE] /\ UNCHANGED <<ctx, enables>>
    BY DEF DeleteRedemption, histories
<1>2. CodeTypes'
    BY <1>1 DEF CodeTypes, CodeType
<1>3. \A d \in Codes : codes'[d].status = codes[d].status
    BY <1>1 DEF CodeTypes, CodeType
<1>4. EditsKnown' /\ RedeemsExclusive' /\ RedeemedPerEnable'
    BY <1>1 DEF EditsKnown, RedeemsExclusive, RedeemedPerEnable
<1>5. RedeemsEnabled' /\ UsableIsUnused'
    BY <1>1, <1>3 DEF RedeemsEnabled, UsableIsUnused, EditsKnown
<1> QED
    BY <1>2, <1>4, <1>5

LEMMA CodeStepInvariant == CodeInvariant /\ [Next]_vars => CodeInvariant'
<1> SUFFICES ASSUME CodeInvariant, [Next]_vars PROVE CodeInvariant'
    OBVIOUS
<1>1. ctx \in [Threads -> CtxType]
    BY DEF CodeInvariant, CodeTypes
<1>2. ASSUME UNCHANGED <<codes, enables, ctx>> PROVE CodeInvariant'
    BY <1>1, <1>2, CodeQuiet
<1>3. ASSUME NEW t \in Threads, CodeStep(t) PROVE CodeInvariant'
    BY <1>3, RedeemBeginInvariant, RedeemInvariant, EditBeginInvariant, EditInvariant DEF CodeStep
<1>4. ASSUME NEW c \in Codes, DeleteRedemption(c) PROVE CodeInvariant'
    BY <1>4, DeleteInvariant
<1>5. ASSUME NEW t \in Threads, Rollback(t) PROVE CodeInvariant'
    <2>1. ctx' = [ctx EXCEPT ![t] = NoCtx] /\ UNCHANGED <<codes, enables>>
        BY <1>5 DEF Rollback, histories
    <2> QED
        BY <1>1, <2>1, CodeConstants, CodeQuiet
<1>6. CASE Crash
    <2>1. ctx' = [t \in Threads |-> NoCtx] /\ UNCHANGED <<codes, enables>>
        BY <1>6 DEF Crash
    <2> QED
        BY <2>1, CodeConstants, CodeQuiet
<1>7. CASE \/ \E u \in Users : DecreaseUserQuota(u) \/ updateUserQuota(u) \/ updateUserQuotaFails(u)
           \/ batchUpdate
    BY <1>2, <1>7 DEF DecreaseUserQuota, updateUserQuota, updateUserQuotaFails, batchUpdate, histories
<1>8. CASE \E t \in Threads : WithdrawalStep(t)
    <2>1. UNCHANGED <<codes, enables, ctx>>
        BY <1>8 DEF WithdrawalStep, CreateBegin, CreateUserWithdrawal, DecideBegin,
               ApproveUserWithdrawal, RejectUserWithdrawal, MarkUserWithdrawalPaid, histories
    <2> QED
        BY <1>2, <2>1
<1>9. CASE \E t \in Threads : TopUpStep(t)
    <2>1. UNCHANGED <<codes, enables, ctx>>
        BY <1>9 DEF TopUpStep, HandlerLocks, EpayNotify, RechargeBegin, MarkBegin, WaffoFailed,
               HandlerWaits, EpaySave, EpayCredit, Recharge, UpdatePendingTopUpStatus,
               HandlerUnlocks, HandlerEnds, HandlerReads, histories
    <2> QED
        BY <1>2, <2>1
<1>10. CASE \E o \in Orders, u \in Users, p \in Providers : RequestPay(o, u, p)
    BY <1>2, <1>10 DEF RequestPay, histories
<1>11. CASE UNCHANGED vars
    BY <1>2, <1>11 DEF vars, histories
<1> QED
    BY <1>3, <1>4, <1>5, <1>6, <1>7, <1>8, <1>9, <1>10, <1>11 DEF Next

\* A redemption code is redeemed at most as often as it was made usable, also
\* when an edit writes back the status it read before a redemption
\* (Redeem, Redemption.Update).
THEOREM CodesRedeemedPerEnable == LockingReads /\ Spec => []RedeemedPerEnable
<1>1. CodeInvariant => RedeemedPerEnable
    BY DEF CodeInvariant
<1> QED
    BY <1>1, CodeInit, CodeStepInvariant, PTL DEF Spec
-----------------------------------------------------------------------------
(***************************************************************************)
(* The accounts of every user.  Conservation is inductive together with    *)
(* the invariants above: a decision moves what its row says, a credit goes *)
(* to the user of its order.  That quota from codes stays inside needs     *)
(* more: what the batch updater has written is never negative, the quota   *)
(* of used codes is what they gave, and a withdrawal that is being made is *)
(* covered although its balance check lies back.                           *)
(***************************************************************************)

BookTypes ==
    /\ withdrawals \in [Withdrawals -> WithdrawalType]
    /\ codes \in [Codes -> CodeType]
    /\ topups \in [Orders -> TopUpType]
    /\ credits \in [Orders -> Nat]

AccountTypes ==
    /\ quota \in [Users -> Int]
    /\ batch \in [Users -> Int]
    /\ flush \in [Users -> Int]
    /\ spent \in [Users -> [all : Nat, lost : Nat]]
    /\ redeemed \in [Users -> Nat]
    /\ edits \in [count : 0..MaxEdits, afterUse : BOOLEAN]
    /\ crashes \in 0..MaxCrashes

Written(u) == spent[u].all + batch[u] + flush[u] - spent[u].lost

BatchOnlySpends == \A u \in Users : batch[u] <= 0 /\ flush[u] <= 0 /\ Written(u) >= 0

CodesCounted == ~edits.afterUse => \A u \in Users : redeemed[u] = RedeemedQuota(u)

OutOrOpen(u) == ApplyOf(u, Open \cup {"paid"})

CreatesCovered ==
    ~edits.afterUse =>
        \A t \in Threads : \A u \in Users : wtx[t].op = "create" /\ wtx[t].row.user = u =>
            OutOrOpen(u) + wtx[t].row.apply <= InitQuota + CreditedTo(u)

AccountInvariant ==
    /\ WithdrawalInvariant /\ TopUpInvariant /\ CodeInvariant
    /\ AccountTypes
    /\ BatchOnlySpends
    /\ QuotaConserved
    /\ CodesCounted
    /\ CreatesCovered
    /\ RedeemedStaysInside

\* The terms of the sums, and the sums, are natural numbers.
TermsAreNat ==
    \A u : /\ \A S : \A w \in Withdrawals : Applied(u, S)[w] \in Nat
           /\ \A c \in Codes : FromCode(u)[c] \in Nat
           /\ \A o \in Orders : FromTopUp(u)[o] \in Nat

SumsAreNat ==
    \A u : /\ \A S : ApplyOf(u, S) \in Nat
           /\ RedeemedQuota(u) \in Nat
           /\ CreditedTo(u) \in Nat

LEMMA BookTerms == BookTypes => TermsAreNat
<1> SUFFICES ASSUME BookTypes, NEW u
             PROVE  /\ \A S : \A w \in Withdrawals : Applied(u, S)[w] \in Nat
                    /\ \A c \in Codes : FromCode(u)[c] \in Nat
                    /\ \A o \in Orders : FromTopUp(u)[o] \in Nat
    BY DEF TermsAreNat
<1>1. \A S : \A w \in Withdrawals : Applied(u, S)[w] \in Nat
    BY DEF Applied, BookTypes, WithdrawalType
<1>2. \A c \in Codes : FromCode(u)[c] \in Nat
    BY DEF FromCode, BookTypes, CodeType
<1>3. \A o \in Orders : FromTopUp(u)[o] \in Nat
    <2>1. \A x \in Nat : x * TopUpQuota \in Nat
        BY WalletAssumption
    <2> QED
        BY <2>1 DEF FromTopUp, BookTypes
<1> QED
    BY <1>1, <1>2, <1>3

LEMMA BookSums == BookTypes => SumsAreNat
<1> SUFFICES ASSUME BookTypes, NEW u
             PROVE  /\ \A S : ApplyOf(u, S) \in Nat
                    /\ RedeemedQuota(u) \in Nat
                    /\ CreditedTo(u) \in Nat
    BY DEF SumsAreNat
<1>1. IsFiniteSet(Withdrawals) /\ IsFiniteSet(Codes) /\ IsFiniteSet(Orders) /\ TermsAreNat
    BY WalletAssumption, BookTerms
<1>2. ASSUME NEW S PROVE ApplyOf(u, S) \in Nat
    <2>1. \A w \in Withdrawals : Applied(u, S)[w] \in Nat
        BY <1>1 DEF TermsAreNat
    <2> QED
        BY <1>1, <2>1, SumIsNat DEF ApplyOf
<1>3. RedeemedQuota(u) \in Nat
    <2>1. \A c \in Codes : FromCode(u)[c] \in Nat
        BY <1>1 DEF TermsAreNat
    <2> QED
        BY <1>1, <2>1, SumIsNat DEF RedeemedQuota
<1>4. CreditedTo(u) \in Nat
    <2>1. \A o \in Orders : FromTopUp(u)[o] \in Nat
        BY <1>1 DEF TermsAreNat
    <2> QED
        BY <1>1, <2>1, SumIsNat DEF CreditedTo
<1> QED
    BY <1>2, <1>3, <1>4

LEMMA BooksNext == BookTypes' => TermsAreNat' /\ SumsAreNat'
BY BookTerms, BookSums, PTL

LEMMA WithdrawalChange ==
    ASSUME BookTypes, BookTypes', NEW w \in Withdrawals,
           \A v \in Withdrawals : v # w => withdrawals'[v] = withdrawals[v], NEW u, NEW S
    PROVE  ApplyOf(u, S)' = ApplyOf(u, S) - Applied(u, S)[w] + Applied(u, S)'[w]
<1> DEFINE h == Applied(u, S)
           k == Applied(u, S)'
<1>1. \A v \in Withdrawals : h[v] \in Int /\ k[v] \in Int
    BY BookTerms, BooksNext DEF TermsAreNat
<1>2. \A v \in Withdrawals : v # w => k[v] = h[v]
    BY DEF Applied
<1> HIDE DEF h, k
<1>3. SumFunctionOnSet(k, Withdrawals) = SumFunctionOnSet(h, Withdrawals) - h[w] + k[w]
    BY <1>1, <1>2, SumChange, WalletAssumption
<1> QED
    BY <1>3 DEF ApplyOf, h, k

LEMMA CodeChange ==
    ASSUME BookTypes, BookTypes', NEW c \in Codes,
           \A d \in Codes : d # c => codes'[d] = codes[d], NEW u
    PROVE  RedeemedQuota(u)' = RedeemedQuota(u) - FromCode(u)[c] + FromCode(u)'[c]
<1> DEFINE h == FromCode(u)
           k == FromCode(u)'
<1>1. \A d \in Codes : h[d] \in Int /\ k[d] \in Int
    BY BookTerms, BooksNext DEF TermsAreNat
<1>2. \A d \in Codes : d # c => k[d] = h[d]
    BY DEF FromCode
<1> HIDE DEF h, k
<1>3. SumFunctionOnSet(k, Codes) = SumFunctionOnSet(h, Codes) - h[c] + k[c]
    BY <1>1, <1>2, SumChange, WalletAssumption
<1> QED
    BY <1>3 DEF RedeemedQuota, h, k

LEMMA TopUpChange ==
    ASSUME BookTypes, BookTypes', NEW o \in Orders,
           \A p \in Orders : p # o => topups'[p] = topups[p] /\ credits'[p] = credits[p], NEW u
    PROVE  CreditedTo(u)' = CreditedTo(u) - FromTopUp(u)[o] + FromTopUp(u)'[o]
<1> DEFINE h == FromTopUp(u)
           k == FromTopUp(u)'
<1>1. \A p \in Orders : h[p] \in Int /\ k[p] \in Int
    BY BookTerms, BooksNext DEF TermsAreNat
<1>2. \A p \in Orders : p # o => k[p] = h[p]
    BY DEF FromTopUp
<1> HIDE DEF h, k
<1>3. SumFunctionOnSet(k, Orders) = SumFunctionOnSet(h, Orders) - h[o] + k[o]
    BY <1>1, <1>2, SumChange, WalletAssumption
<1> QED
    BY <1>3 DEF CreditedTo, h, k

LEMMA BooksStay ==
    /\ UNCHANGED withdrawals => \A u : \A S : ApplyOf(u, S)' = ApplyOf(u, S)
    /\ UNCHANGED codes => \A u : RedeemedQuota(u)' = RedeemedQuota(u)
    /\ UNCHANGED <<topups, credits>> => \A u : CreditedTo(u)' = CreditedTo(u)
<1>1. UNCHANGED withdrawals => \A u : \A S : Applied(u, S)' = Applied(u, S)
    BY DEF Applied
<1>2. UNCHANGED codes => \A u : FromCode(u)' = FromCode(u)
    BY DEF FromCode
<1>3. UNCHANGED <<topups, credits>> => \A u : FromTopUp(u)' = FromTopUp(u)
    BY DEF FromTopUp
<1> QED
    BY <1>1, <1>2, <1>3 DEF ApplyOf, RedeemedQuota, CreditedTo

\* What a user has against what came in; what left or will leave against what was paid for; what
\* codes gave against what the used ones say.
Balance(u) ==
    quota[u] + frozen[u] + ApplyOf(u, {"paid"}) + Written(u) - CreditedTo(u) - redeemed[u]

Exposure(u) == OutOrOpen(u) - CreditedTo(u)

Gap(u) == redeemed[u] - RedeemedQuota(u)

LEMMA FrozenIsNat == WithdrawalInvariant => frozen \in [Users -> Nat]
<1> SUFFICES ASSUME WithdrawalInvariant, NEW u \in Users PROVE frozen[u] \in Nat
    BY DEF WithdrawalInvariant, WithdrawalTypes
<1>1. \A w \in Withdrawals : withdrawals[w].apply \in Nat
    BY DEF WithdrawalInvariant, WithdrawalTypes, WithdrawalType
<1>2. \A w \in {x \in Of(u) : withdrawals[x].status \in Open} : w \in Withdrawals
    BY DEF Of
<1> QED
    BY <1>1, <1>2 DEF WithdrawalInvariant, FrozenMatchesOpen

LEMMA InvariantTypes ==
    WithdrawalInvariant /\ TopUpInvariant /\ CodeInvariant /\ AccountTypes => TypeOK /\ BookTypes
<1> SUFFICES ASSUME WithdrawalInvariant, TopUpInvariant, CodeInvariant, AccountTypes
             PROVE  TypeOK /\ BookTypes
    OBVIOUS
<1>1. /\ withdrawals \in [Withdrawals -> WithdrawalType] /\ wtx \in [Threads -> WtxType]
      /\ frozen \in [Users -> Nat]
    BY FrozenIsNat DEF WithdrawalInvariant, WithdrawalTypes
<1>2. /\ LockTypeOK /\ topups \in [Orders -> TopUpType] /\ ttx \in [Threads -> TtxType]
      /\ credits \in [Orders -> Nat]
    BY DEF TopUpInvariant, LockInvariant, TopUpTypes
<1>3. /\ codes \in [Codes -> CodeType] /\ ctx \in [Threads -> CtxType]
      /\ enables \in [Codes -> [count : Nat, used : Nat]]
    BY DEF CodeInvariant, CodeTypes
<1>4. TtxType = [pc : {"none", "epay", "credit", "complete", "mark", "done"},
                 id : Orders \cup {None}, row : TopUpType]
    BY DEF TtxType, Working
<1> QED
    BY <1>1, <1>2, <1>3, <1>4 DEF AccountTypes, TypeOK, BookTypes, WtxType, CtxType

\* The numbers of a user.
NumbersOK ==
    \A u \in Users :
        /\ quota[u] \in Int /\ frozen[u] \in Nat /\ Written(u) \in Int /\ redeemed[u] \in Nat
        /\ ApplyOf(u, {"paid"}) \in Nat /\ OutOrOpen(u) \in Nat
        /\ CreditedTo(u) \in Nat /\ RedeemedQuota(u) \in Nat

LEMMA UserNumbers == WithdrawalInvariant /\ TopUpInvariant /\ CodeInvariant /\ AccountTypes => NumbersOK
<1> SUFFICES ASSUME WithdrawalInvariant, TopUpInvariant, CodeInvariant, AccountTypes, NEW u \in Users
             PROVE  /\ quota[u] \in Int /\ frozen[u] \in Nat /\ Written(u) \in Int /\ redeemed[u] \in Nat
                    /\ ApplyOf(u, {"paid"}) \in Nat /\ OutOrOpen(u) \in Nat
                    /\ CreditedTo(u) \in Nat /\ RedeemedQuota(u) \in Nat
    BY DEF NumbersOK
<1>1. frozen[u] \in Nat /\ SumsAreNat
    BY FrozenIsNat, InvariantTypes, BookSums
<1>2. /\ quota[u] \in Int /\ batch[u] \in Int /\ flush[u] \in Int /\ redeemed[u] \in Nat
      /\ spent[u].all \in Nat /\ spent[u].lost \in Nat
    BY DEF AccountTypes
<1>3. Written(u) \in Int
    BY <1>2 DEF Written
<1> QED
    BY <1>1, <1>2, <1>3 DEF SumsAreNat, OutOrOpen

LEMMA NumbersNext ==
    WithdrawalInvariant' /\ TopUpInvariant' /\ CodeInvariant' /\ AccountTypes' => NumbersOK'
BY UserNumbers, PTL

AllBalanced == \A u \in Users : Balance(u) = InitQuota

LEMMA ConservedIsBalanced ==
    WithdrawalInvariant /\ TopUpInvariant /\ CodeInvariant /\ AccountTypes =>
        (QuotaConserved <=> AllBalanced)
<1> SUFFICES ASSUME WithdrawalInvariant, TopUpInvariant, CodeInvariant, AccountTypes
             PROVE  QuotaConserved <=> AllBalanced
    OBVIOUS
<1>1. ASSUME NEW u \in Users
      PROVE  (quota[u] + frozen[u] + ApplyOf(u, {"paid"}) + batch[u] + flush[u] + spent[u].all
                  - spent[u].lost = InitQuota + CreditedTo(u) + redeemed[u])
              <=> Balance(u) = InitQuota
    <2>1. /\ quota[u] \in Int /\ frozen[u] \in Nat /\ redeemed[u] \in Nat
          /\ ApplyOf(u, {"paid"}) \in Nat /\ CreditedTo(u) \in Nat
        BY UserNumbers DEF NumbersOK
    <2>2. /\ batch[u] \in Int /\ flush[u] \in Int /\ spent[u].all \in Nat /\ spent[u].lost \in Nat
          /\ InitQuota \in Nat
        BY WalletAssumption DEF AccountTypes
    <2> QED
        <3> DEFINE q == quota[u]
                   f == frozen[u]
                   p == ApplyOf(u, {"paid"})
                   b == batch[u]
                   g == flush[u]
                   a == spent[u].all
                   l == spent[u].lost
                   c == CreditedTo(u)
                   r == redeemed[u]
        <3>1. /\ q \in Int /\ f \in Int /\ p \in Int /\ b \in Int /\ g \in Int
              /\ a \in Int /\ l \in Int /\ c \in Int /\ r \in Int /\ InitQuota \in Int
            BY <2>1, <2>2
        <3>2. Balance(u) = q + f + p + (a + b + g - l) - c - r
            BY Zenon DEF Balance, Written
        <3> HIDE DEF q, f, p, b, g, a, l, c, r
        <3>3. (q + f + p + b + g + a - l = InitQuota + c + r)
                  <=> (q + f + p + (a + b + g - l) - c - r = InitQuota)
            BY <3>1
        <3> QED
            BY <3>2, <3>3, Zenon DEF q, f, p, b, g, a, l, c, r
<1> QED
    BY <1>1, Zenon DEF QuotaConserved, AllBalanced

LEMMA ConservedIsBalancedNext ==
    WithdrawalInvariant' /\ TopUpInvariant' /\ CodeInvariant' /\ AccountTypes' =>
        (QuotaConserved' <=> AllBalanced')
BY ConservedIsBalanced, PTL

\* The invariants that the accounts rest on, before and after a step.
Footing == WithdrawalInvariant /\ TopUpInvariant /\ CodeInvariant /\ AccountTypes

LEMMA FootingFacts == Footing => NumbersOK /\ BookTypes /\ (QuotaConserved <=> AllBalanced)
BY UserNumbers, InvariantTypes, ConservedIsBalanced DEF Footing

LEMMA FootingNext == Footing' => NumbersOK' /\ BookTypes' /\ (QuotaConserved' <=> AllBalanced')
BY FootingFacts, PTL

LEMMA NotMore ==
    ASSUME NEW a \in Int, NEW b \in Int, NEW c \in Int, NEW d \in Int, NEW e \in Int, NEW n \in Int,
           c - d <= a - b, a + e <= n + b
    PROVE  c + e <= n + d
OBVIOUS

\* A step that begins and ends no withdrawal keeps the accounts if it changes no balance, raises no
\* exposure and opens no gap.
LEMMA BooksKept ==
    ASSUME AccountInvariant, Footing', BatchOnlySpends',
           \A u \in Users : Balance(u)' = Balance(u),
           \A u \in Users : Exposure(u)' <= Exposure(u),
           ~edits'.afterUse => ~edits.afterUse /\ \A u \in Users : Gap(u)' = Gap(u),
           \A t \in Threads : wtx'[t].op = "create" => wtx'[t] = wtx[t]
    PROVE  AccountInvariant'
<1>1. Footing /\ NumbersOK /\ NumbersOK' /\ InitQuota \in Nat
    BY FootingFacts, FootingNext, WalletAssumption DEF AccountInvariant, Footing
<1>2. QuotaConserved'
    <2>1. AllBalanced
        BY <1>1, FootingFacts DEF AccountInvariant
    <2>2. AllBalanced'
        BY <2>1 DEF AllBalanced
    <2> QED
        BY <2>2, FootingNext
<1>3. CodesCounted'
    <2> SUFFICES ASSUME ~edits'.afterUse, NEW u \in Users PROVE redeemed'[u] = RedeemedQuota(u)'
        BY DEF CodesCounted
    <2>1. Gap(u)' = Gap(u) /\ redeemed[u] = RedeemedQuota(u)
        BY DEF AccountInvariant, CodesCounted
    <2>2. /\ redeemed[u] \in Nat /\ RedeemedQuota(u) \in Nat
          /\ redeemed'[u] \in Nat /\ RedeemedQuota(u)' \in Nat
        BY <1>1 DEF NumbersOK
    <2> QED
        BY <2>1, <2>2 DEF Gap
<1>4. \A u \in Users : /\ OutOrOpen(u)' - CreditedTo(u)' <= OutOrOpen(u) - CreditedTo(u)
                       /\ OutOrOpen(u) \in Int /\ CreditedTo(u) \in Int
                       /\ OutOrOpen(u)' \in Int /\ CreditedTo(u)' \in Int
    BY <1>1 DEF NumbersOK, Exposure
<1>5. RedeemedStaysInside'
    <2> SUFFICES ASSUME ~edits'.afterUse, NEW u \in Users
                 PROVE  OutOrOpen(u)' <= InitQuota + CreditedTo(u)'
        BY DEF RedeemedStaysInside, OutOrOpen
    <2>1. OutOrOpen(u) <= InitQuota + CreditedTo(u)
        BY DEF AccountInvariant, RedeemedStaysInside, OutOrOpen
    <2>2. /\ OutOrOpen(u)' - CreditedTo(u)' <= OutOrOpen(u) - CreditedTo(u)
          /\ OutOrOpen(u) \in Int /\ CreditedTo(u) \in Int
          /\ OutOrOpen(u)' \in Int /\ CreditedTo(u)' \in Int /\ InitQuota \in Int
        BY <1>1, <1>4
    <2> QED
        BY <2>1, <2>2
<1>6. CreatesCovered'
    <2> SUFFICES ASSUME ~edits'.afterUse, NEW t \in Threads, NEW u \in Users,
                        wtx'[t].op = "create", wtx'[t].row.user = u
                 PROVE  OutOrOpen(u)' + wtx'[t].row.apply <= InitQuota + CreditedTo(u)'
        BY DEF CreatesCovered
    <2>2. wtx'[t] = wtx[t] /\ wtx[t].row.apply \in Nat
        BY DEF AccountInvariant, WithdrawalInvariant, WithdrawalTypes, WtxType, WithdrawalType
    <2>3. OutOrOpen(u) + wtx[t].row.apply <= InitQuota + CreditedTo(u)
        BY <2>2 DEF AccountInvariant, CreatesCovered
    <2>4. OutOrOpen(u)' + wtx[t].row.apply <= InitQuota + CreditedTo(u)'
        <3>1. /\ OutOrOpen(u)' - CreditedTo(u)' <= OutOrOpen(u) - CreditedTo(u)
              /\ OutOrOpen(u) \in Int /\ CreditedTo(u) \in Int
              /\ OutOrOpen(u)' \in Int /\ CreditedTo(u)' \in Int
              /\ InitQuota \in Int /\ wtx[t].row.apply \in Int
            BY <1>1, <1>4, <2>2
        <3> QED
            BY <2>3, <3>1, NotMore
    <2> QED
        BY <2>2, <2>4
<1> QED
    BY <1>2, <1>3, <1>5, <1>6 DEF AccountInvariant, Footing

\* A step that touches no row of the books.
LEMMA BooksUntouched ==
    ASSUME AccountInvariant, Footing', UNCHANGED <<withdrawals, codes, topups, credits>>,
           UNCHANGED <<quota, frozen, batch, flush, spent, redeemed>>, edits'.afterUse = edits.afterUse,
           \A t \in Threads : wtx'[t].op = "create" => wtx'[t] = wtx[t]
    PROVE  AccountInvariant'
<1>1. /\ \A u : \A S : ApplyOf(u, S)' = ApplyOf(u, S)
      /\ \A u : RedeemedQuota(u)' = RedeemedQuota(u)
      /\ \A u : CreditedTo(u)' = CreditedTo(u)
    BY BooksStay
<1>2. \A u \in Users : Written(u)' = Written(u)
    BY DEF Written
<1>3. BatchOnlySpends'
    BY <1>2 DEF AccountInvariant, BatchOnlySpends
<1>4. \A u \in Users : Balance(u)' = Balance(u) /\ Gap(u)' = Gap(u) /\ Exposure(u)' = Exposure(u)
    BY <1>1, <1>2 DEF Balance, Gap, Exposure, OutOrOpen
<1>5. \A u \in Users : Exposure(u) \in Int
    BY FootingFacts DEF AccountInvariant, Footing, NumbersOK, Exposure
<1> QED
    BY <1>3, <1>4, <1>5, BooksKept

\* Requests spend and the batch updater writes: only quota, the maps and the history move.
LEMMA BatchStepBooks ==
    ASSUME AccountInvariant, WithdrawalInvariant', TopUpInvariant', CodeInvariant',
           \/ \E u \in Users : DecreaseUserQuota(u) \/ updateUserQuota(u) \/ updateUserQuotaFails(u)
           \/ batchUpdate \/ Crash
    PROVE  AccountInvariant'
<1>1. /\ quota \in [Users -> Int] /\ batch \in [Users -> Int] /\ flush \in [Users -> Int]
      /\ spent \in [Users -> [all : Nat, lost : Nat]]
      /\ \A u \in Users : /\ quota[u] \in Int /\ batch[u] \in Int /\ flush[u] \in Int
                          /\ batch[u] <= 0 /\ flush[u] <= 0
                          /\ spent[u].all \in Nat /\ spent[u].lost \in Nat
                          /\ Written(u) \in Int /\ Written(u) >= 0
    BY FootingFacts DEF AccountInvariant, Footing, AccountTypes, BatchOnlySpends, NumbersOK
<1>2. /\ UNCHANGED <<frozen, withdrawals, codes, topups, credits, redeemed, edits>>
      /\ wtx' = wtx \/ wtx' = [t \in Threads |-> NoWtx]
      /\ crashes' = crashes \/ Crash
    BY DEF DecreaseUserQuota, updateUserQuota, updateUserQuotaFails, batchUpdate, Crash, histories
<1> DEFINE Moves(v) ==
        /\ quota'[v] \in Int /\ batch'[v] \in Int /\ flush'[v] \in Int
        /\ spent'[v] \in [all : Nat, lost : Nat]
        /\ batch'[v] <= 0 /\ flush'[v] <= 0
        /\ Written(v)' \in Int /\ Written(v)' >= 0
        /\ quota'[v] + Written(v)' = quota[v] + Written(v)
<1>4. ASSUME NEW u \in Users, NEW v \in Users, v # u, quota'[v] = quota[v], batch'[v] = batch[v],
             flush'[v] = flush[v], spent'[v] = spent[v]
      PROVE  Moves(v)
    <2>1. Written(v)' = Written(v)
        BY <1>4 DEF Written
    <2>2. spent[v] \in [all : Nat, lost : Nat]
        BY <1>1
    <2> QED
        BY <1>1, <1>4, <2>1, <2>2
<1>5. ASSUME NEW u \in Users, DecreaseUserQuota(u), NEW v \in Users PROVE Moves(v)
    <2>1. /\ batch' = [batch EXCEPT ![u] = @ - 1] /\ spent' = [spent EXCEPT ![u].all = @ + 1]
          /\ UNCHANGED <<quota, flush>>
        BY <1>5 DEF DecreaseUserQuota
    <2>2. CASE v # u
        BY <1>1, <1>4, <2>1, <2>2
    <2>3. CASE v = u
        <3>1. /\ batch'[u] = batch[u] - 1 /\ quota'[u] = quota[u] /\ flush'[u] = flush[u]
              /\ spent'[u].all = spent[u].all + 1 /\ spent'[u].lost = spent[u].lost
              /\ spent'[u] \in [all : Nat, lost : Nat]
            BY <1>1, <2>1
        <3>2. Written(u)' = Written(u)
            BY <1>1, <3>1 DEF Written
        <3> QED
            BY <1>1, <2>3, <3>1, <3>2
    <2> QED
        BY <2>2, <2>3
<1>6. ASSUME NEW u \in Users, updateUserQuota(u), NEW v \in Users PROVE Moves(v)
    <2>1. /\ quota' = [quota EXCEPT ![u] = @ + flush[u]] /\ flush' = [flush EXCEPT ![u] = 0]
          /\ UNCHANGED <<batch, spent>>
        BY <1>6 DEF updateUserQuota, histories
    <2>2. CASE v # u
        BY <1>1, <1>4, <2>1, <2>2
    <2>3. CASE v = u
        <3>1. /\ quota'[u] = quota[u] + flush[u] /\ flush'[u] = 0 /\ batch'[u] = batch[u]
              /\ spent'[u] = spent[u] /\ spent[u] \in [all : Nat, lost : Nat]
            BY <1>1, <2>1
        <3>2. Written(u)' = Written(u) - flush[u]
            BY <1>1, <3>1 DEF Written
        <3> QED
            BY <1>1, <2>3, <3>1, <3>2
    <2> QED
        BY <2>2, <2>3
<1>7. ASSUME NEW u \in Users, updateUserQuotaFails(u), NEW v \in Users PROVE Moves(v)
    <2>1. /\ flush' = [flush EXCEPT ![u] = 0] /\ spent' = [spent EXCEPT ![u].lost = @ - flush[u]]
          /\ UNCHANGED <<quota, batch>>
        BY <1>7 DEF updateUserQuotaFails
    <2>2. CASE v # u
        BY <1>1, <1>4, <2>1, <2>2
    <2>3. CASE v = u
        <3>1. /\ quota'[u] = quota[u] /\ flush'[u] = 0 /\ batch'[u] = batch[u]
              /\ spent'[u].all = spent[u].all /\ spent'[u].lost = spent[u].lost - flush[u]
            BY <1>1, <2>1
        <3>2. spent'[u] \in [all : Nat, lost : Nat]
            BY <1>1, <2>1, <3>1
        <3>3. Written(u)' = Written(u)
            BY <1>1, <3>1 DEF Written
        <3> QED
            BY <1>1, <2>3, <3>1, <3>2, <3>3
    <2> QED
        BY <2>2, <2>3
<1>8. ASSUME batchUpdate, NEW v \in Users PROVE Moves(v)
    <2>1. /\ flush[v] = 0 /\ flush'[v] = batch[v] /\ batch'[v] = 0 /\ quota'[v] = quota[v]
          /\ spent'[v] = spent[v] /\ spent[v] \in [all : Nat, lost : Nat]
        BY <1>1, <1>8 DEF batchUpdate, TakeBatch, histories
    <2>2. Written(v)' = Written(v)
        BY <1>1, <2>1 DEF Written
    <2> QED
        BY <1>1, <2>1, <2>2
<1>9. ASSUME Crash, NEW v \in Users PROVE Moves(v)
    <2>1. /\ flush'[v] = 0 /\ batch'[v] = 0 /\ quota'[v] = quota[v]
          /\ spent'[v] = [spent[v] EXCEPT !.lost = @ - batch[v] - flush[v]]
        BY <1>1, <1>9 DEF Crash
    <2>2. spent'[v].all = spent[v].all /\ spent'[v].lost = spent[v].lost - batch[v] - flush[v]
        BY <1>1, <2>1
    <2>3. spent'[v] \in [all : Nat, lost : Nat]
        BY <1>1, <2>1, <2>2
    <2>4. Written(v)' = Written(v)
        BY <1>1, <2>1, <2>2 DEF Written
    <2> QED
        BY <1>1, <2>1, <2>3, <2>4
<1>10. \A v \in Users : Moves(v)
    <2> HIDE DEF Moves
    <2> QED
        BY <1>5, <1>6, <1>7, <1>8, <1>9
<1>11. AccountTypes'
    <2>1. /\ quota' \in [Users -> Int] /\ batch' \in [Users -> Int] /\ flush' \in [Users -> Int]
          /\ spent' \in [Users -> [all : Nat, lost : Nat]]
        <3>1. /\ DOMAIN quota' = Users /\ quota' = [v \in Users |-> quota'[v]]
              /\ batch' = [v \in Users |-> batch'[v]] /\ flush' = [v \in Users |-> flush'[v]]
              /\ spent' = [v \in Users |-> spent'[v]]
            BY <1>1 DEF DecreaseUserQuota, updateUserQuota, updateUserQuotaFails, batchUpdate, TakeBatch,
                        Crash, histories
        <3> QED
            BY <1>10, <3>1
    <2>2. crashes' \in 0..MaxCrashes
        BY <1>2, WalletAssumption DEF AccountInvariant, AccountTypes, Crash
    <2> QED
        BY <1>2, <2>1, <2>2 DEF AccountInvariant, AccountTypes
<1>12. BatchOnlySpends'
    BY <1>10 DEF BatchOnlySpends
<1>13. /\ \A u : \A S : ApplyOf(u, S)' = ApplyOf(u, S)
       /\ \A u : RedeemedQuota(u)' = RedeemedQuota(u)
       /\ \A u : CreditedTo(u)' = CreditedTo(u)
    BY <1>2, BooksStay
<1>14. NumbersOK
    BY FootingFacts DEF AccountInvariant, Footing
<1>15. \A u \in Users : Gap(u)' = Gap(u) /\ Exposure(u)' = Exposure(u) /\ Exposure(u) \in Int
    BY <1>2, <1>13, <1>14 DEF Gap, Exposure, OutOrOpen, NumbersOK
<1>16. ASSUME NEW u \in Users PROVE Balance(u)' = Balance(u)
    <2>1. /\ frozen'[u] = frozen[u] /\ redeemed'[u] = redeemed[u] /\ frozen[u] \in Int /\ redeemed[u] \in Int
          /\ ApplyOf(u, {"paid"}) \in Int /\ CreditedTo(u) \in Int /\ quota[u] \in Int /\ Written(u) \in Int
          /\ quota'[u] \in Int /\ Written(u)' \in Int /\ quota'[u] + Written(u)' = quota[u] + Written(u)
        BY <1>2, <1>10, <1>14 DEF NumbersOK
    <2>2. ApplyOf(u, {"paid"})' = ApplyOf(u, {"paid"}) /\ CreditedTo(u)' = CreditedTo(u)
        BY <1>13
    <2> QED
        BY <2>1, <2>2 DEF Balance
<1>17. \A t \in Threads : wtx'[t].op = "create" => wtx'[t] = wtx[t]
    BY <1>2, WithdrawalConstants
<1>18. Footing' /\ edits' = edits
    BY <1>2, <1>11 DEF Footing
<1>19. \A u \in Users : Exposure(u)' <= Exposure(u)
    BY <1>15
<1> QED
    BY <1>12, <1>15, <1>16, <1>17, <1>18, <1>19, BooksKept

\* What a decision does to the sums.
LEMMA DecidedSums ==
    ASSUME AccountInvariant, Footing', NEW t \in Threads, wtx[t].op \in {"approve", "reject", "pay"},
           NEW st \in {"approved", "rejected", "paid"}, Decided(t, st), NEW u \in Users
    PROVE  /\ ApplyOf(u, {"paid"})' = ApplyOf(u, {"paid"}) +
                  IF wtx[t].row.user = u /\ st = "paid" THEN wtx[t].row.apply ELSE 0
           /\ OutOrOpen(u)' = OutOrOpen(u) -
                  IF wtx[t].row.user = u /\ st = "rejected" THEN wtx[t].row.apply ELSE 0
           /\ wtx[t].row.apply \in Nat
<1>1. BookTypes /\ BookTypes' /\ TermsAreNat /\ SumsAreNat
    BY FootingFacts, FootingNext, BookTerms, BookSums DEF AccountInvariant, Footing
<1>2. PICK w : w = wtx[t].id
    OBVIOUS
<1>3. PICK r : r = wtx[t].row
    OBVIOUS
<1>4. /\ w \in Withdrawals /\ withdrawals[w] = r /\ r.status \in Open /\ r \in WithdrawalType
      /\ r.apply \in Nat
    BY <1>1, <1>2, <1>3 DEF AccountInvariant, WithdrawalInvariant, DecidesCurrent, BookTypes, WithdrawalType
<1>5. /\ withdrawals'[w].user = r.user /\ withdrawals'[w].apply = r.apply /\ withdrawals'[w].status = st
      /\ \A v \in Withdrawals : v # w => withdrawals'[v] = withdrawals[v]
    BY <1>1, <1>2, <1>3, <1>4 DEF Decided, BookTypes, WithdrawalType
<1>6. ASSUME NEW S
      PROVE  /\ ApplyOf(u, S)' = ApplyOf(u, S) - Applied(u, S)[w] + Applied(u, S)'[w]
             /\ Applied(u, S)[w] = IF r.user = u /\ r.status \in S THEN r.apply ELSE 0
             /\ Applied(u, S)'[w] = IF r.user = u /\ st \in S THEN r.apply ELSE 0
             /\ ApplyOf(u, S) \in Int
    <2>1. ApplyOf(u, S)' = ApplyOf(u, S) - Applied(u, S)[w] + Applied(u, S)'[w]
        BY <1>1, <1>4, <1>5, WithdrawalChange
    <2> QED
        BY <1>1, <1>4, <1>5, <2>1 DEF Applied, SumsAreNat
<1>7. ApplyOf(u, {"paid"})' = ApplyOf(u, {"paid"}) + IF r.user = u /\ st = "paid" THEN r.apply ELSE 0
    <2>1. r.status \notin {"paid"}
        BY <1>4 DEF Open
    <2>2. /\ ApplyOf(u, {"paid"})' = ApplyOf(u, {"paid"}) - Applied(u, {"paid"})[w] + Applied(u, {"paid"})'[w]
          /\ Applied(u, {"paid"})[w] = 0 /\ ApplyOf(u, {"paid"}) \in Int
          /\ Applied(u, {"paid"})'[w] = IF r.user = u /\ st = "paid" THEN r.apply ELSE 0
        BY <1>6, <2>1
    <2> QED
        BY <1>4, <2>2
<1>8. OutOrOpen(u)' = OutOrOpen(u) - IF r.user = u /\ st = "rejected" THEN r.apply ELSE 0
    <2> DEFINE S == Open \cup {"paid"}
    <2>1. r.status \in S /\ (st \in S <=> st # "rejected")
        BY <1>4 DEF Open
    <2> HIDE DEF S
    <2>2. /\ ApplyOf(u, S)' = ApplyOf(u, S) - Applied(u, S)[w] + Applied(u, S)'[w]
          /\ Applied(u, S)[w] = IF r.user = u THEN r.apply ELSE 0
          /\ Applied(u, S)'[w] = IF r.user = u /\ st # "rejected" THEN r.apply ELSE 0
          /\ ApplyOf(u, S) \in Int
        BY <1>6, <2>1
    <2>3. ApplyOf(u, S)' = ApplyOf(u, S) - IF r.user = u /\ st = "rejected" THEN r.apply ELSE 0
        BY <1>4, <2>2
    <2> QED
        BY <2>3 DEF OutOrOpen, S
<1> QED
    BY <1>3, <1>4, <1>7, <1>8

LEMMA DecideBooks ==
    ASSUME AccountInvariant, WithdrawalInvariant', TopUpInvariant', CodeInvariant', NEW t \in Threads,
           ApproveUserWithdrawal(t) \/ RejectUserWithdrawal(t) \/ MarkUserWithdrawalPaid(t)
    PROVE  AccountInvariant'
<1>1. PICK st \in {"approved", "rejected", "paid"} :
          /\ Decided(t, st) /\ wtx[t].op \in {"approve", "reject", "pay"}
          /\ quota' = IF st = "rejected" THEN [quota EXCEPT ![wtx[t].row.user] = @ + wtx[t].row.apply]
                      ELSE quota
          /\ frozen' = IF st = "approved" THEN frozen
                       ELSE [frozen EXCEPT ![wtx[t].row.user] = @ - wtx[t].row.apply]
    BY DEF ApproveUserWithdrawal, RejectUserWithdrawal, MarkUserWithdrawalPaid, walletVars
<1>2. UNCHANGED <<batch, flush, spent, redeemed, credits, edits, crashes, codes, topups>>
    BY DEF ApproveUserWithdrawal, RejectUserWithdrawal, MarkUserWithdrawalPaid, walletVars, histories
<1>3. NumbersOK /\ AccountTypes /\ frozen \in [Users -> Nat]
    BY FootingFacts, FrozenIsNat DEF AccountInvariant, Footing
<1>4. wtx[t].row.apply \in Nat /\ wtx[t].row.user \in Users
    BY <1>1 DEF AccountInvariant, WithdrawalInvariant, WithdrawalTypes, WtxType, WithdrawalType,
                DecidesCurrent, RowsHaveUser
<1>5. AccountTypes' /\ Footing'
    BY <1>1, <1>2, <1>3, <1>4 DEF AccountTypes, Footing
<1>6. \A u \in Users : Written(u)' = Written(u) /\ CreditedTo(u)' = CreditedTo(u)
                       /\ RedeemedQuota(u)' = RedeemedQuota(u)
    BY <1>2, BooksStay DEF Written
<1>7. BatchOnlySpends'
    BY <1>2, <1>6 DEF AccountInvariant, BatchOnlySpends
<1>8. ASSUME NEW u \in Users
      PROVE  Balance(u)' = Balance(u) /\ Exposure(u)' <= Exposure(u) /\ Gap(u)' = Gap(u)
    <2> DEFINE n == IF wtx[t].row.user = u THEN wtx[t].row.apply ELSE 0
    <2>1. /\ quota'[u] = quota[u] + (IF st = "rejected" THEN n ELSE 0)
          /\ frozen'[u] = frozen[u] - (IF st = "approved" THEN 0 ELSE n)
        BY <1>1, <1>3, <1>4 DEF AccountTypes
    <2>2. /\ ApplyOf(u, {"paid"})' = ApplyOf(u, {"paid"}) + (IF st = "paid" THEN n ELSE 0)
          /\ OutOrOpen(u)' = OutOrOpen(u) - (IF st = "rejected" THEN n ELSE 0)
        BY <1>1, <1>5, DecidedSums
    <2>3. /\ n \in Nat /\ quota[u] \in Int /\ frozen[u] \in Int /\ Written(u) \in Int /\ redeemed[u] \in Int
          /\ ApplyOf(u, {"paid"}) \in Int /\ OutOrOpen(u) \in Int /\ CreditedTo(u) \in Int
        BY <1>3, <1>4 DEF NumbersOK
    <2> HIDE DEF n
    <2>4. quota'[u] + frozen'[u] + ApplyOf(u, {"paid"})' = quota[u] + frozen[u] + ApplyOf(u, {"paid"})
        BY <2>1, <2>2, <2>3
    <2>5. quota'[u] \in Int /\ frozen'[u] \in Int /\ ApplyOf(u, {"paid"})' \in Int /\ OutOrOpen(u)' \in Int
        BY <2>1, <2>2, <2>3
    <2>6. Balance(u)' = Balance(u)
        BY <1>2, <1>6, <2>3, <2>4, <2>5 DEF Balance
    <2>7. Exposure(u)' <= Exposure(u)
        BY <1>6, <2>2, <2>3 DEF Exposure
    <2>8. Gap(u)' = Gap(u)
        BY <1>2, <1>6 DEF Gap
    <2> QED
        BY <2>6, <2>7, <2>8
<1>9. \A s \in Threads : wtx'[s].op = "create" => wtx'[s] = wtx[s]
    BY <1>1, WithdrawalConstants DEF Decided, AccountInvariant, WithdrawalInvariant, WithdrawalTypes
<1> QED
    BY <1>2, <1>5, <1>7, <1>8, <1>9, BooksKept

\* The check of a new withdrawal: with nothing open and codes that count what they gave, the balance
\* without that quota covers it.
LEMMA CheckCovers ==
    ASSUME AccountInvariant, ~edits.afterUse, NEW u \in Users, NEW a \in ApplyQuotas,
           OpenOf(u) = {}, RechargeQuota(u) >= a
    PROVE  OutOrOpen(u) + a <= InitQuota + CreditedTo(u)
<1>1. a \in Nat /\ a > 0 /\ InitQuota \in Nat
    BY WalletAssumption
<1>2. /\ quota[u] \in Int /\ frozen[u] \in Nat /\ Written(u) \in Int /\ redeemed[u] \in Nat
      /\ ApplyOf(u, {"paid"}) \in Nat /\ CreditedTo(u) \in Nat /\ RedeemedQuota(u) \in Nat
      /\ Balance(u) = InitQuota
    BY FootingFacts DEF AccountInvariant, Footing, NumbersOK, AllBalanced
<1>3. frozen[u] = 0
    BY DEF AccountInvariant, WithdrawalInvariant, FrozenMatchesOpen, OpenOf
<1>4. OutOrOpen(u) = ApplyOf(u, {"paid"})
    <2>1. \A w \in Withdrawals : withdrawals[w].user = u => withdrawals[w].status \notin Open
        BY DEF OpenOf, Of
    <2>2. Applied(u, Open \cup {"paid"}) = Applied(u, {"paid"})
        BY <2>1 DEF Applied
    <2> QED
        BY <2>2 DEF OutOrOpen, ApplyOf
<1>5. quota[u] - RedeemedQuota(u) >= a
    BY <1>1, <1>2 DEF RechargeQuota
<1>6. redeemed[u] = RedeemedQuota(u) /\ Written(u) >= 0
    BY DEF AccountInvariant, CodesCounted, BatchOnlySpends
<1> DEFINE q == quota[u]
           p == ApplyOf(u, {"paid"})
           n == Written(u)
           c == CreditedTo(u)
           r == redeemed[u]
<1>7. q + 0 + p + n - c - r = InitQuota
    BY <1>2, <1>3 DEF Balance
<1>8. q \in Int /\ p \in Int /\ n \in Int /\ c \in Int /\ r \in Int /\ n >= 0 /\ q - r >= a
    BY <1>2, <1>5, <1>6
<1> HIDE DEF q, p, n, c, r
<1>9. p + a <= InitQuota + c
    BY <1>1, <1>7, <1>8
<1> QED
    BY <1>4, <1>9 DEF p, c

LEMMA CreateBeginBooks ==
    ASSUME AccountInvariant, WithdrawalInvariant', TopUpInvariant', CodeInvariant', NEW t \in Threads,
           NEW w \in Withdrawals, NEW u \in Users, NEW a \in ApplyQuotas, CreateBegin(t, w, u, a)
    PROVE  AccountInvariant'
<1>1. /\ UNCHANGED <<withdrawals, codes, topups, credits>>
      /\ UNCHANGED <<quota, frozen, batch, flush, spent, redeemed, edits, crashes>>
    BY DEF CreateBegin, walletVars, histories
<1>2. /\ \A v : \A S : ApplyOf(v, S)' = ApplyOf(v, S)
      /\ \A v : RedeemedQuota(v)' = RedeemedQuota(v)
      /\ \A v : CreditedTo(v)' = CreditedTo(v)
      /\ \A v : OutOrOpen(v)' = OutOrOpen(v)
    BY <1>1, BooksStay DEF OutOrOpen
<1>3. AccountTypes' /\ BatchOnlySpends'
    BY <1>1 DEF AccountInvariant, AccountTypes, BatchOnlySpends, Written
<1>4. QuotaConserved'
    BY <1>1, <1>2 DEF AccountInvariant, QuotaConserved
<1>5. CodesCounted' /\ RedeemedStaysInside'
    BY <1>1, <1>2 DEF AccountInvariant, CodesCounted, RedeemedStaysInside
<1>6. CreatesCovered'
    <2>1. /\ wtx'[t].row.user = u /\ wtx'[t].row.apply = a
          /\ \A s \in Threads : s # t => wtx'[s] = wtx[s]
        BY DEF CreateBegin, AccountInvariant, WithdrawalInvariant, WithdrawalTypes
    <2>2. ~edits.afterUse => OutOrOpen(u) + a <= InitQuota + CreditedTo(u)
        BY CheckCovers DEF CreateBegin
    <2> SUFFICES ASSUME ~edits'.afterUse, NEW s \in Threads, NEW v \in Users,
                        wtx'[s].op = "create", wtx'[s].row.user = v
                 PROVE  OutOrOpen(v)' + wtx'[s].row.apply <= InitQuota + CreditedTo(v)'
        BY DEF CreatesCovered
    <2>3. CASE s = t
        BY <1>1, <1>2, <2>1, <2>2, <2>3
    <2>4. CASE s # t
        BY <1>1, <1>2, <2>1, <2>4 DEF AccountInvariant, CreatesCovered
    <2> QED
        BY <2>3, <2>4
<1> QED
    BY <1>3, <1>4, <1>5, <1>6 DEF AccountInvariant

LEMMA CreateBooks ==
    ASSUME AccountInvariant, WithdrawalInvariant', TopUpInvariant', CodeInvariant', NEW t \in Threads,
           CreateUserWithdrawal(t)
    PROVE  AccountInvariant'
<1>1. PICK x : x = wtx[t].id
    OBVIOUS
<1>2. PICK r : r = wtx[t].row
    OBVIOUS
<1>3. PICK u : u = r.user
    OBVIOUS
<1>4. PICK a : a = r.apply
    OBVIOUS
<1>5. /\ x \in Withdrawals /\ withdrawals[x] = NoWithdrawal /\ u \in Users /\ r.status = "pending"
      /\ r \in WithdrawalType /\ a \in Nat /\ wtx[t].op = "create"
    BY <1>1, <1>2, <1>3, <1>4
       DEF CreateUserWithdrawal, AccountInvariant, WithdrawalInvariant, CreatesFresh, WithdrawalTypes,
           WtxType, WithdrawalType
<1>6. /\ withdrawals' = [withdrawals EXCEPT ![x] = r]
      /\ quota' = [quota EXCEPT ![u] = @ - a]
      /\ frozen' = [frozen EXCEPT ![u] = @ + a]
      /\ wtx' = [wtx EXCEPT ![t] = NoWtx]
    BY <1>1, <1>2, <1>3, <1>4 DEF CreateUserWithdrawal
<1>7. UNCHANGED <<batch, flush, codes, topups, spent, redeemed, credits, edits, crashes>>
    BY DEF CreateUserWithdrawal, histories
<1>8. NumbersOK /\ AccountTypes /\ frozen \in [Users -> Nat] /\ BookTypes /\ InitQuota \in Nat
    BY FootingFacts, FrozenIsNat, WalletAssumption DEF AccountInvariant, Footing
<1>9. AccountTypes' /\ Footing' /\ BookTypes' /\ NumbersOK'
    <2>1. AccountTypes'
        BY <1>5, <1>6, <1>7, <1>8 DEF AccountTypes
    <2> QED
        BY <2>1, FootingNext DEF Footing
<1>10. \A v \in Users : /\ Written(v)' = Written(v) /\ CreditedTo(v)' = CreditedTo(v)
                        /\ RedeemedQuota(v)' = RedeemedQuota(v)
    BY <1>7, BooksStay DEF Written
<1>11. BatchOnlySpends' /\ CodesCounted'
    BY <1>7, <1>10 DEF AccountInvariant, BatchOnlySpends, CodesCounted
<1>12. \A v \in Users : v # u => quota'[v] = quota[v] /\ frozen'[v] = frozen[v]
    BY <1>5, <1>6, <1>8 DEF AccountTypes
<1>13. quota'[u] = quota[u] - a /\ frozen'[u] = frozen[u] + a
    BY <1>5, <1>6, <1>8 DEF AccountTypes
<1>14. ASSUME NEW v \in Users, NEW S
       PROVE  ApplyOf(v, S)' = ApplyOf(v, S) + IF v = u /\ "pending" \in S THEN a ELSE 0
    <2>1. withdrawals'[x] = r /\ \A y \in Withdrawals : y # x => withdrawals'[y] = withdrawals[y]
        BY <1>5, <1>6, <1>8 DEF BookTypes
    <2>2. ApplyOf(v, S)' = ApplyOf(v, S) - Applied(v, S)[x] + Applied(v, S)'[x]
        BY <1>5, <1>8, <1>9, <2>1, WithdrawalChange
    <2>3. Applied(v, S)[x] = 0
        BY <1>5 DEF Applied, NoWithdrawal
    <2>4. Applied(v, S)'[x] = IF v = u /\ "pending" \in S THEN a ELSE 0
        BY <1>3, <1>4, <1>5, <2>1 DEF Applied
    <2>5. ApplyOf(v, S) \in Nat
        BY <1>8, BookSums DEF SumsAreNat
    <2> QED
        BY <1>5, <2>2, <2>3, <2>4, <2>5
<1>15. ASSUME NEW v \in Users
       PROVE  /\ ApplyOf(v, {"paid"})' = ApplyOf(v, {"paid"})
              /\ OutOrOpen(v)' = OutOrOpen(v) + IF v = u THEN a ELSE 0
    <2>1. ApplyOf(v, {"paid"}) \in Nat
        BY <1>8 DEF NumbersOK
    <2>2. ApplyOf(v, {"paid"})' = ApplyOf(v, {"paid"}) + 0
        BY <1>14
    <2>3. "pending" \in Open \cup {"paid"}
        BY DEF Open
    <2> QED
        BY <1>14, <2>1, <2>2, <2>3 DEF OutOrOpen
<1>16. QuotaConserved'
    <2>1. ASSUME NEW v \in Users PROVE Balance(v)' = Balance(v)
        <3>1. /\ quota[v] \in Int /\ frozen[v] \in Int /\ Written(v) \in Int /\ redeemed[v] \in Int
              /\ ApplyOf(v, {"paid"}) \in Int /\ CreditedTo(v) \in Int
            BY <1>8 DEF NumbersOK
        <3>2. quota'[v] + frozen'[v] = quota[v] + frozen[v]
            BY <1>5, <1>12, <1>13, <3>1
        <3>3. ApplyOf(v, {"paid"})' = ApplyOf(v, {"paid"})
            BY <1>15
        <3> QED
            BY <1>7, <1>10, <3>1, <3>2, <3>3 DEF Balance
    <2>2. AllBalanced
        BY FootingFacts DEF AccountInvariant, Footing
    <2> QED
        BY <1>9, <2>1, <2>2, FootingNext DEF AllBalanced
<1>17. \A v \in Users : OutOrOpen(v) \in Nat /\ CreditedTo(v) \in Nat
    BY <1>8 DEF NumbersOK
<1>18. RedeemedStaysInside'
    <2> SUFFICES ASSUME ~edits'.afterUse, NEW v \in Users
                 PROVE  OutOrOpen(v)' <= InitQuota + CreditedTo(v)'
        BY DEF RedeemedStaysInside, OutOrOpen
    <2>1. CASE v = u
        <3>1. OutOrOpen(u) + a <= InitQuota + CreditedTo(u)
            BY <1>2, <1>3, <1>4, <1>5, <1>7 DEF AccountInvariant, CreatesCovered
        <3> QED
            BY <1>5, <1>10, <1>15, <2>1, <3>1
    <2>2. CASE v # u
        <3>1. OutOrOpen(v) <= InitQuota + CreditedTo(v)
            BY <1>7 DEF AccountInvariant, RedeemedStaysInside, OutOrOpen
        <3> QED
            BY <1>10, <1>15, <1>17, <2>2, <3>1
    <2> QED
        BY <2>1, <2>2
<1>19. CreatesCovered'
    <2> SUFFICES ASSUME ~edits'.afterUse, NEW s \in Threads, NEW v \in Users,
                        wtx'[s].op = "create", wtx'[s].row.user = v
                 PROVE  OutOrOpen(v)' + wtx'[s].row.apply <= InitQuota + CreditedTo(v)'
        BY DEF CreatesCovered
    <2>1. s # t /\ wtx'[s] = wtx[s]
        BY <1>6, WithdrawalConstants DEF AccountInvariant, WithdrawalInvariant, WithdrawalTypes
    <2>2. v # u
        BY <1>2, <1>3, <1>5, <2>1 DEF AccountInvariant, WithdrawalInvariant, CreatorsExclusive
    <2>3. OutOrOpen(v) + wtx[s].row.apply <= InitQuota + CreditedTo(v)
        BY <1>7, <2>1 DEF AccountInvariant, CreatesCovered
    <2>4. OutOrOpen(v)' = OutOrOpen(v) /\ CreditedTo(v)' = CreditedTo(v)
        BY <1>10, <1>15, <1>17, <2>2
    <2> QED
        BY <2>1, <2>3, <2>4
<1> QED
    BY <1>9, <1>11, <1>16, <1>18, <1>19 DEF AccountInvariant, Footing

\* A redemption gives the user the quota that its code says from then on.
LEMMA RedeemBooks ==
    ASSUME AccountInvariant, WithdrawalInvariant', TopUpInvariant', CodeInvariant', NEW t \in Threads,
           Redeem(t)
    PROVE  AccountInvariant'
<1>1. PICK c : c = ctx[t].id
    OBVIOUS
<1>2. PICK r : r = ctx[t].row
    OBVIOUS
<1>3. PICK x : x = r.user
    OBVIOUS
<1>4. PICK n : n = r.quota
    OBVIOUS
<1>5. /\ c \in Codes /\ r \in CodeType /\ n \in Nat /\ codes[c].status = "enabled"
    BY <1>1, <1>2, <1>4 DEF Redeem, AccountInvariant, CodeInvariant, CodeTypes, EditsKnown,
                            RedeemsEnabled, CtxType, CodeType
<1>6. /\ quota' = [quota EXCEPT ![x] = @ + n]
      /\ redeemed' = [redeemed EXCEPT ![x] = @ + n]
      /\ codes' = [codes EXCEPT ![c] = [r EXCEPT !.status = "used"]]
    BY <1>1, <1>2, <1>3, <1>4 DEF Redeem
<1>7. UNCHANGED <<frozen, batch, flush, withdrawals, topups, wtx, spent, credits, edits, crashes>>
    BY DEF Redeem
<1>8. NumbersOK /\ AccountTypes /\ BookTypes
    BY FootingFacts DEF AccountInvariant, Footing
<1>9. Footing' /\ BookTypes'
    <2>1. x \in Users => quota' \in [Users -> Int] /\ redeemed' \in [Users -> Nat]
        BY <1>5, <1>6, <1>8 DEF AccountTypes
    <2>2. x \notin Users => quota' = quota /\ redeemed' = redeemed
        BY <1>6, <1>8 DEF AccountTypes
    <2>3. AccountTypes'
        BY <1>7, <1>8, <2>1, <2>2 DEF AccountTypes
    <2> QED
        BY <2>3, FootingNext DEF Footing
<1>10. \A u \in Users : /\ Written(u)' = Written(u) /\ CreditedTo(u)' = CreditedTo(u)
                        /\ \A S : ApplyOf(u, S)' = ApplyOf(u, S)
    BY <1>7, BooksStay DEF Written
<1>11. BatchOnlySpends'
    BY <1>7, <1>10 DEF AccountInvariant, BatchOnlySpends
<1>12. ASSUME NEW u \in Users
       PROVE  Balance(u)' = Balance(u) /\ Exposure(u)' <= Exposure(u) /\ Gap(u)' = Gap(u)
    <2> DEFINE m == IF x = u THEN n ELSE 0
    <2>1. quota'[u] = quota[u] + m /\ redeemed'[u] = redeemed[u] + m
        <3>1. /\ quota \in [Users -> Int] /\ redeemed \in [Users -> Nat]
              /\ quota[u] \in Int /\ redeemed[u] \in Nat
            BY <1>8 DEF AccountTypes
        <3>2. CASE x = u
            BY <1>6, <3>1, <3>2
        <3>3. CASE x # u
            BY <1>6, <3>1, <3>3
        <3> QED
            BY <3>2, <3>3
    <2>2. /\ codes'[c].status = "used" /\ codes'[c].user = x /\ codes'[c].quota = n
          /\ \A d \in Codes : d # c => codes'[d] = codes[d]
        BY <1>3, <1>4, <1>5, <1>6, <1>8 DEF BookTypes, CodeType
    <2>3. RedeemedQuota(u)' = RedeemedQuota(u) - FromCode(u)[c] + FromCode(u)'[c]
        BY <1>5, <1>8, <1>9, <2>2, CodeChange
    <2>4. FromCode(u)[c] = 0 /\ FromCode(u)'[c] = m
        BY <1>5, <2>2 DEF FromCode
    <2>5. /\ m \in Nat /\ quota[u] \in Int /\ frozen[u] \in Int /\ Written(u) \in Int /\ redeemed[u] \in Int
          /\ ApplyOf(u, {"paid"}) \in Int /\ OutOrOpen(u) \in Int /\ CreditedTo(u) \in Int
          /\ RedeemedQuota(u) \in Int
        BY <1>5, <1>8 DEF NumbersOK
    <2> HIDE DEF m
    <2>6. RedeemedQuota(u)' = RedeemedQuota(u) + m
        BY <2>3, <2>4, <2>5
    <2>7. Balance(u)' = Balance(u)
        BY <1>7, <1>10, <2>1, <2>5 DEF Balance
    <2>8. Gap(u)' = Gap(u)
        BY <2>1, <2>5, <2>6 DEF Gap
    <2>9. Exposure(u)' <= Exposure(u)
        BY <1>10, <2>5 DEF Exposure, OutOrOpen
    <2> QED
        BY <2>7, <2>8, <2>9
<1> QED
    BY <1>7, <1>9, <1>11, <1>12, BooksKept

\* A change of one code that no user has redeemed, or that leaves what counts of it, moves nothing.
LEMMA CodeEditBooks ==
    ASSUME AccountInvariant, WithdrawalInvariant', TopUpInvariant', CodeInvariant', NEW c \in Codes,
           \A d \in Codes : d # c => codes'[d] = codes[d],
           UNCHANGED <<quota, frozen, batch, flush, withdrawals, topups, wtx, spent, redeemed, credits, crashes>>,
           edits' \in [count : 0..MaxEdits, afterUse : BOOLEAN],
           ~edits'.afterUse => /\ ~edits.afterUse
                               /\ \A u \in Users : FromCode(u)'[c] = FromCode(u)[c]
    PROVE  AccountInvariant'
<1>1. NumbersOK /\ AccountTypes /\ BookTypes /\ TermsAreNat
    BY FootingFacts, BookTerms DEF AccountInvariant, Footing
<1>2. Footing' /\ BookTypes'
    <2>1. AccountTypes'
        BY <1>1 DEF AccountTypes
    <2> QED
        BY <2>1, FootingNext DEF Footing
<1>3. \A u \in Users : /\ Written(u)' = Written(u) /\ CreditedTo(u)' = CreditedTo(u)
                       /\ \A S : ApplyOf(u, S)' = ApplyOf(u, S)
    BY BooksStay DEF Written
<1>4. BatchOnlySpends'
    BY <1>3 DEF AccountInvariant, BatchOnlySpends
<1>5. \A u \in Users : Balance(u)' = Balance(u) /\ Exposure(u)' = Exposure(u) /\ Exposure(u) \in Int
    BY <1>1, <1>3 DEF Balance, Exposure, OutOrOpen, NumbersOK
<1>6. ASSUME ~edits'.afterUse, NEW u \in Users PROVE Gap(u)' = Gap(u)
    <2>1. RedeemedQuota(u)' = RedeemedQuota(u) - FromCode(u)[c] + FromCode(u)'[c]
        BY <1>1, <1>2, CodeChange
    <2>2. FromCode(u)'[c] = FromCode(u)[c] /\ FromCode(u)[c] \in Int /\ RedeemedQuota(u) \in Int
        BY <1>1, <1>6 DEF TermsAreNat, NumbersOK
    <2>3. RedeemedQuota(u)' = RedeemedQuota(u)
        BY <2>1, <2>2
    <2> QED
        BY <2>3 DEF Gap
<1>7. ~edits'.afterUse => ~edits.afterUse /\ \A u \in Users : Gap(u)' = Gap(u)
    BY <1>6
<1>8. \A u \in Users : Exposure(u)' <= Exposure(u)
    BY <1>5
<1> QED
    BY <1>2, <1>4, <1>5, <1>7, <1>8, BooksKept

LEMMA EditBooks ==
    ASSUME AccountInvariant, WithdrawalInvariant', TopUpInvariant', CodeInvariant',
           \/ \E t \in Threads : UpdateRedemption(t)
           \/ \E c \in Codes : DeleteRedemption(c)
    PROVE  AccountInvariant'
<1>1. /\ codes \in [Codes -> CodeType]
      /\ edits \in [count : 0..MaxEdits, afterUse : BOOLEAN]
      /\ None \notin Users
    BY WalletAssumption DEF AccountInvariant, AccountTypes, CodeInvariant, CodeTypes
<1>2. ASSUME NEW t \in Threads, UpdateRedemption(t) PROVE AccountInvariant'
    <2>1. PICK c : c = ctx[t].id
        OBVIOUS
    <2>2. PICK r : r = ctx[t].row
        OBVIOUS
    <2>3. /\ codes' = IF codes[c].deleted THEN codes
                      ELSE [codes EXCEPT ![c].status = r.status, ![c].quota = r.quota]
          /\ edits' = [edits EXCEPT !.afterUse = @ \/ codes[c].user # None]
        BY <1>2, <2>1, <2>2 DEF UpdateRedemption
    <2>4. c \in Codes
        BY <1>2, <2>1 DEF UpdateRedemption, AccountInvariant, CodeInvariant, EditsKnown
    <2>5. UNCHANGED <<quota, frozen, batch, flush, withdrawals, topups, wtx, spent, redeemed, credits, crashes>>
        BY <1>2 DEF UpdateRedemption, walletVars
    <2>6. \A d \in Codes : d # c => codes'[d] = codes[d]
        BY <1>1, <2>3, <2>4
    <2>7. codes'[c].user = codes[c].user
        BY <1>1, <2>3, <2>4 DEF CodeType
    <2>8. edits'.afterUse = (edits.afterUse \/ codes[c].user # None)
        BY <1>1, <2>3
    <2>9. edits' \in [count : 0..MaxEdits, afterUse : BOOLEAN]
        BY <1>1, <2>3
    <2>10. ASSUME ~edits'.afterUse
           PROVE  ~edits.afterUse /\ \A u \in Users : FromCode(u)'[c] = FromCode(u)[c]
        <3>1. ~edits.afterUse /\ codes[c].user = None
            BY <2>8, <2>10
        <3> QED
            BY <1>1, <2>4, <2>7, <3>1 DEF FromCode
    <2> QED
        BY <2>4, <2>5, <2>6, <2>9, <2>10, CodeEditBooks
<1>3. ASSUME NEW c \in Codes, DeleteRedemption(c) PROVE AccountInvariant'
    <2>1. /\ codes' = [codes EXCEPT ![c].deleted = TRUE]
          /\ UNCHANGED <<quota, frozen, batch, flush, withdrawals, topups, wtx, spent, redeemed, credits, crashes>>
          /\ edits' = edits
        BY <1>3 DEF DeleteRedemption, walletVars, histories
    <2>2. \A d \in Codes : d # c => codes'[d] = codes[d]
        BY <1>1, <2>1
    <2>3. /\ codes'[c].user = codes[c].user /\ codes'[c].status = codes[c].status
          /\ codes'[c].quota = codes[c].quota
        BY <1>1, <2>1 DEF CodeType
    <2>4. \A u \in Users : FromCode(u)'[c] = FromCode(u)[c]
        BY <2>3 DEF FromCode
    <2> QED
        BY <1>1, <2>1, <2>2, <2>4, CodeEditBooks
<1> QED
    BY <1>2, <1>3

\* A step of a top-up keeps the accounts if the user's quota grows by what the order counts more.
LEMMA TopUpBooks ==
    ASSUME AccountInvariant, WithdrawalInvariant', TopUpInvariant', CodeInvariant', NEW o \in Orders,
           \A p \in Orders : p # o => topups'[p] = topups[p] /\ credits'[p] = credits[p],
           UNCHANGED <<frozen, batch, flush, withdrawals, codes, wtx, spent, redeemed, edits, crashes>>,
           quota' \in [Users -> Int],
           \A u \in Users : \E n \in Nat : /\ quota'[u] = quota[u] + n
                                           /\ FromTopUp(u)'[o] = FromTopUp(u)[o] + n
    PROVE  AccountInvariant'
<1>1. NumbersOK /\ AccountTypes /\ BookTypes /\ TermsAreNat
    BY FootingFacts, BookTerms DEF AccountInvariant, Footing
<1>2. Footing' /\ BookTypes'
    <2>1. AccountTypes'
        BY <1>1 DEF AccountTypes
    <2> QED
        BY <2>1, FootingNext DEF Footing
<1>3. \A u \in Users : /\ Written(u)' = Written(u) /\ RedeemedQuota(u)' = RedeemedQuota(u)
                       /\ \A S : ApplyOf(u, S)' = ApplyOf(u, S)
    BY BooksStay DEF Written
<1>4. BatchOnlySpends'
    BY <1>3 DEF AccountInvariant, BatchOnlySpends
<1>5. ASSUME NEW u \in Users
      PROVE  Balance(u)' = Balance(u) /\ Exposure(u)' <= Exposure(u) /\ Gap(u)' = Gap(u)
    <2>1. PICK n \in Nat : quota'[u] = quota[u] + n /\ FromTopUp(u)'[o] = FromTopUp(u)[o] + n
        OBVIOUS
    <2>2. CreditedTo(u)' = CreditedTo(u) - FromTopUp(u)[o] + FromTopUp(u)'[o]
        BY <1>1, <1>2, TopUpChange
    <2>3. /\ quota[u] \in Int /\ frozen[u] \in Int /\ Written(u) \in Int /\ redeemed[u] \in Int
          /\ ApplyOf(u, {"paid"}) \in Int /\ OutOrOpen(u) \in Int /\ CreditedTo(u) \in Int
          /\ FromTopUp(u)[o] \in Int
        BY <1>1 DEF NumbersOK, TermsAreNat
    <2>4. CreditedTo(u)' = CreditedTo(u) + n
        BY <2>1, <2>2, <2>3
    <2>5. Balance(u)' = Balance(u)
        BY <1>3, <2>1, <2>3, <2>4 DEF Balance
    <2>6. Exposure(u)' <= Exposure(u)
        BY <1>3, <2>3, <2>4 DEF Exposure, OutOrOpen
    <2>7. Gap(u)' = Gap(u)
        BY <1>3 DEF Gap
    <2> QED
        BY <2>5, <2>6, <2>7
<1> QED
    BY <1>2, <1>4, <1>5, BooksKept

\* An order that is created, saved or marked counts as before.
LEMMA TopUpSavedBooks ==
    ASSUME AccountInvariant, WithdrawalInvariant', TopUpInvariant', CodeInvariant',
           \/ \E o \in Orders, u \in Users, p \in Providers : RequestPay(o, u, p)
           \/ \E t \in Threads : EpaySave(t) \/ UpdatePendingTopUpStatus(t)
    PROVE  AccountInvariant'
<1>1. UNCHANGED <<quota, frozen, batch, flush, withdrawals, codes, wtx, spent, redeemed, credits, edits, crashes>>
    BY DEF RequestPay, EpaySave, UpdatePendingTopUpStatus, walletVars, histories
<1>2. BookTypes /\ quota \in [Users -> Int] /\ TermsAreNat
    BY FootingFacts, BookTerms DEF AccountInvariant, Footing, AccountTypes
<1>3. PICK o \in Orders : /\ \A p \in Orders : p # o => topups'[p] = topups[p]
                          /\ topups'[o].user = topups[o].user \/ credits[o] = 0
    <2>1. ASSUME NEW o \in Orders, NEW u \in Users, NEW p \in Providers, RequestPay(o, u, p)
          PROVE  (\A q \in Orders : q # o => topups'[q] = topups[q]) /\ credits[o] = 0
        <3>1. topups[o].status # "success"
            BY <2>1 DEF RequestPay, NoTopUp
        <3>2. credits[o] = 0
            BY <1>2, <3>1 DEF AccountInvariant, TopUpInvariant, TopUpCreditedOnce, BookTypes
        <3> QED
            BY <1>2, <2>1, <3>2 DEF RequestPay, BookTypes
    <2>2. ASSUME NEW t \in Threads, NEW st, SaveTopUp(t, st), ttx[t].pc \in Working, ttx[t].pc # "credit"
          PROVE  /\ ttx[t].id \in Orders
                 /\ \A p \in Orders : p # ttx[t].id => topups'[p] = topups[p]
                 /\ topups'[ttx[t].id].user = topups[ttx[t].id].user
        <3>1. ttx[t].id \in Orders /\ topups[ttx[t].id] = ttx[t].row
            BY <2>2 DEF AccountInvariant, TopUpInvariant, HandlersCurrent
        <3> QED
            BY <1>2, <2>2, <3>1 DEF SaveTopUp, BookTypes, TopUpType
    <2> QED
        BY <2>1, <2>2 DEF EpaySave, UpdatePendingTopUpStatus, Working
<1>4. ASSUME NEW u \in Users
      PROVE  quota'[u] = quota[u] + 0 /\ FromTopUp(u)'[o] = FromTopUp(u)[o] + 0
    <2>1. \A x \in Int : x + 0 = x
        OBVIOUS
    <2>2. FromTopUp(u)[o] \in Nat /\ quota[u] \in Int
        BY <1>2 DEF TermsAreNat
    <2>3. 0 * TopUpQuota = 0
        BY WalletAssumption
    <2>4. FromTopUp(u)'[o] = FromTopUp(u)[o]
        <3>1. CASE topups'[o].user = topups[o].user
            BY <1>1, <3>1 DEF FromTopUp
        <3>2. CASE credits[o] = 0
            BY <1>1, <2>3, <3>2 DEF FromTopUp
        <3> QED
            BY <1>3, <3>1, <3>2
    <2> QED
        BY <1>1, <2>1, <2>2, <2>4
<1>5. \A u \in Users : \E n \in Nat : quota'[u] = quota[u] + n /\ FromTopUp(u)'[o] = FromTopUp(u)[o] + n
    BY <1>4
<1> QED
    BY <1>1, <1>2, <1>3, <1>5, TopUpBooks

\* The user of a credited order gets what the order counts more.
LEMMA CreditBooks ==
    ASSUME AccountInvariant, WithdrawalInvariant', TopUpInvariant', CodeInvariant', NEW t \in Threads,
           EpayCredit(t) \/ Recharge(t)
    PROVE  AccountInvariant'
<1>1. PICK o : o = ttx[t].id
    OBVIOUS
<1>2. PICK x : x = ttx[t].row.user
    OBVIOUS
<1>3. BookTypes /\ quota \in [Users -> Int] /\ TopUpQuota \in Nat
    BY FootingFacts, WalletAssumption DEF AccountInvariant, Footing, AccountTypes
<1>4. o \in Orders /\ topups[o].user = x
    BY <1>1, <1>2 DEF EpayCredit, Recharge, Working, AccountInvariant, TopUpInvariant, HandlersCurrent
<1>5. /\ quota' = [quota EXCEPT ![x] = @ + TopUpQuota]
      /\ credits' = [credits EXCEPT ![o] = @ + 1]
      /\ UNCHANGED <<frozen, batch, flush, withdrawals, codes, wtx, spent, redeemed, edits, crashes>>
    BY <1>1, <1>2 DEF EpayCredit, Recharge, Credit
<1>6. topups'[o].user = x /\ \A p \in Orders : p # o => topups'[p] = topups[p]
    <2>1. CASE EpayCredit(t)
        BY <1>4, <2>1 DEF EpayCredit
    <2>2. CASE Recharge(t)
        <3>1. ttx[t].row = topups[o] /\ topups[o] \in TopUpType
            BY <1>1, <1>3, <1>4, <2>2
               DEF Recharge, Working, AccountInvariant, TopUpInvariant, HandlersCurrent, BookTypes
        <3> QED
            BY <1>1, <1>3, <1>4, <2>2, <3>1 DEF Recharge, SaveTopUp, BookTypes, TopUpType
    <2> QED
        BY <2>1, <2>2
<1>7. credits'[o] = credits[o] + 1 /\ credits[o] \in Nat /\ \A p \in Orders : p # o => credits'[p] = credits[p]
    BY <1>3, <1>4, <1>5 DEF BookTypes
<1>8. quota' \in [Users -> Int]
    <2>1. x \in Users => quota' \in [Users -> Int]
        BY <1>3, <1>5
    <2>2. x \notin Users => quota' = quota
        BY <1>3, <1>5
    <2> QED
        BY <1>3, <2>1, <2>2
<1>9. ASSUME NEW u \in Users
      PROVE  \E n \in Nat : quota'[u] = quota[u] + n /\ FromTopUp(u)'[o] = FromTopUp(u)[o] + n
    <2>1. CASE x = u
        <3>1. quota'[u] = quota[u] + TopUpQuota
            BY <1>3, <1>5, <2>1
        <3>2. \A a \in Nat : (a + 1) * TopUpQuota = a * TopUpQuota + TopUpQuota
            BY <1>3
        <3>3. FromTopUp(u)[o] = credits[o] * TopUpQuota /\ FromTopUp(u)'[o] = (credits[o] + 1) * TopUpQuota
            BY <1>4, <1>6, <1>7, <2>1 DEF FromTopUp
        <3> QED
            BY <1>3, <1>7, <3>1, <3>2, <3>3
    <2>2. CASE x # u
        <3>1. quota'[u] = quota[u] + 0
            BY <1>3, <1>5, <2>2
        <3>2. FromTopUp(u)[o] = 0 /\ FromTopUp(u)'[o] = 0
            BY <1>4, <1>6, <2>2 DEF FromTopUp
        <3> QED
            BY <3>1, <3>2
    <2> QED
        BY <2>1, <2>2
<1> QED
    BY <1>4, <1>5, <1>6, <1>7, <1>8, <1>9, TopUpBooks

\* The steps that only read rows, take or leave locks, or give up.
LEMMA ReadingBooks ==
    ASSUME AccountInvariant, WithdrawalInvariant', TopUpInvariant', CodeInvariant',
           \/ \E t \in Threads :
                  \/ \E w \in Withdrawals, op \in {"approve", "reject", "pay"} : DecideBegin(t, w, op)
                  \/ \E c \in Codes, u \in Users : RedeemBegin(t, c, u)
                  \/ \E c \in Codes : UpdateRedemptionBegin(t, c)
                  \/ \E o \in Orders : \/ HandlerLocks(t, o) \/ EpayNotify(t, o) \/ RechargeBegin(t, o)
                                       \/ MarkBegin(t, o) \/ WaffoFailed(t, o)
                  \/ HandlerWaits(t) \/ HandlerUnlocks(t) \/ HandlerEnds(t) \/ Rollback(t)
           \/ UNCHANGED vars
    PROVE  AccountInvariant'
<1> DEFINE Quiet == /\ UNCHANGED <<withdrawals, codes, topups, credits>>
                    /\ UNCHANGED <<quota, frozen, batch, flush, spent, redeemed, crashes>>
<1>1. wtx \in [Threads -> WtxType] /\ edits \in [count : 0..MaxEdits, afterUse : BOOLEAN] /\ AccountTypes
    BY DEF AccountInvariant, WithdrawalInvariant, WithdrawalTypes, AccountTypes
<1>2. ASSUME Quiet, edits' = edits, UNCHANGED wtx PROVE AccountInvariant'
    <2>1. Footing'
        BY <1>1, <1>2 DEF AccountTypes, Footing
    <2> QED
        BY <1>2, <2>1, BooksUntouched
<1>3. ASSUME NEW t \in Threads, NEW w \in Withdrawals, NEW op \in {"approve", "reject", "pay"},
             DecideBegin(t, w, op)
      PROVE  AccountInvariant'
    <2>1. /\ Quiet /\ edits' = edits
          /\ wtx' = [wtx EXCEPT ![t] = [op |-> op, id |-> w, row |-> withdrawals[w]]]
        BY <1>3 DEF DecideBegin, walletVars, histories
    <2>2. \A s \in Threads : wtx'[s].op = "create" => wtx'[s] = wtx[s]
        BY <1>1, <2>1
    <2>3. Footing'
        BY <1>1, <2>1 DEF AccountTypes, Footing
    <2> QED
        BY <2>1, <2>2, <2>3, BooksUntouched
<1>4. ASSUME NEW t \in Threads, Rollback(t) PROVE AccountInvariant'
    <2>1. Quiet /\ edits' = edits /\ wtx' = [wtx EXCEPT ![t] = NoWtx]
        BY <1>4 DEF Rollback, walletVars, histories
    <2>2. \A s \in Threads : wtx'[s].op = "create" => wtx'[s] = wtx[s]
        BY <1>1, <2>1, WithdrawalConstants
    <2>3. Footing'
        BY <1>1, <2>1 DEF AccountTypes, Footing
    <2> QED
        BY <2>1, <2>2, <2>3, BooksUntouched
<1>5. ASSUME NEW t \in Threads, NEW c \in Codes, UpdateRedemptionBegin(t, c) PROVE AccountInvariant'
    <2>1. Quiet /\ UNCHANGED wtx /\ edits' = [edits EXCEPT !.count = @ + 1] /\ edits.count < MaxEdits
        BY <1>5 DEF UpdateRedemptionBegin, walletVars
    <2>2. edits'.afterUse = edits.afterUse /\ edits' \in [count : 0..MaxEdits, afterUse : BOOLEAN]
        BY <1>1, <2>1, WalletAssumption
    <2>3. Footing'
        BY <1>1, <2>1, <2>2 DEF AccountTypes, Footing
    <2> QED
        BY <2>1, <2>2, <2>3, BooksUntouched
<1>6. ASSUME NEW t \in Threads, NEW c \in Codes, NEW u \in Users, RedeemBegin(t, c, u)
      PROVE  AccountInvariant'
    BY <1>2, <1>6 DEF RedeemBegin, walletVars, histories
<1>7. ASSUME NEW t \in Threads, NEW o \in Orders,
             HandlerLocks(t, o) \/ EpayNotify(t, o) \/ RechargeBegin(t, o) \/ MarkBegin(t, o) \/ WaffoFailed(t, o)
      PROVE  AccountInvariant'
    BY <1>2, <1>7 DEF HandlerLocks, EpayNotify, RechargeBegin, MarkBegin, WaffoFailed, HandlerReads,
                      walletVars, histories
<1>8. ASSUME NEW t \in Threads, HandlerWaits(t) \/ HandlerUnlocks(t) \/ HandlerEnds(t)
      PROVE  AccountInvariant'
    BY <1>2, <1>8 DEF HandlerWaits, HandlerUnlocks, HandlerEnds, walletVars, histories
<1>9. CASE UNCHANGED vars
    BY <1>2, <1>9 DEF vars, walletVars, histories
<1> QED
    BY <1>3, <1>4, <1>5, <1>6, <1>7, <1>8, <1>9

LEMMA AccountStep == AccountInvariant /\ [Next]_vars => AccountInvariant'
<1> SUFFICES ASSUME AccountInvariant, [Next]_vars PROVE AccountInvariant'
    OBVIOUS
<1>1. WithdrawalInvariant' /\ TopUpInvariant' /\ CodeInvariant'
    BY WithdrawalStepInvariant, TopUpStepInvariant, CodeStepInvariant DEF AccountInvariant
<1>2. ASSUME NEW t \in Threads, WithdrawalStep(t) PROVE AccountInvariant'
    BY <1>1, <1>2, CreateBeginBooks, CreateBooks, DecideBooks, ReadingBooks DEF WithdrawalStep
<1>3. ASSUME NEW t \in Threads, CodeStep(t) PROVE AccountInvariant'
    BY <1>1, <1>3, RedeemBooks, EditBooks, ReadingBooks DEF CodeStep
<1>4. ASSUME NEW t \in Threads, TopUpStep(t) PROVE AccountInvariant'
    BY <1>1, <1>4, TopUpSavedBooks, CreditBooks, ReadingBooks DEF TopUpStep
<1>5. ASSUME NEW t \in Threads, Rollback(t) PROVE AccountInvariant'
    BY <1>1, <1>5, ReadingBooks
<1>6. CASE \/ \E u \in Users : DecreaseUserQuota(u) \/ updateUserQuota(u) \/ updateUserQuotaFails(u)
           \/ batchUpdate \/ Crash
    BY <1>1, <1>6, BatchStepBooks
<1>7. CASE \E c \in Codes : DeleteRedemption(c)
    BY <1>1, <1>7, EditBooks
<1>8. CASE \E o \in Orders, u \in Users, p \in Providers : RequestPay(o, u, p)
    BY <1>1, <1>8, TopUpSavedBooks
<1>9. CASE UNCHANGED vars
    BY <1>1, <1>9, ReadingBooks
<1> QED
    BY <1>2, <1>3, <1>4, <1>5, <1>6, <1>7, <1>8, <1>9 DEF Next

LEMMA AccountInit == LockingReads /\ Init => AccountInvariant
<1> SUFFICES ASSUME LockingReads, Init PROVE AccountInvariant
    OBVIOUS
<1>1. WithdrawalInvariant /\ TopUpInvariant /\ CodeInvariant
    BY WithdrawalInit, TopUpInit, CodeInit
<1>2. /\ quota = [u \in Users |-> InitQuota] /\ frozen = [u \in Users |-> 0]
      /\ batch = [u \in Users |-> 0] /\ flush = [u \in Users |-> 0]
      /\ spent = [u \in Users |-> [all |-> 0, lost |-> 0]] /\ redeemed = [u \in Users |-> 0]
      /\ edits = [count |-> 0, afterUse |-> FALSE] /\ crashes = 0
    BY DEF Init
<1>3. AccountTypes
    BY <1>2, WalletAssumption DEF AccountTypes
<1>4. \A u \in Users : Written(u) = 0
    BY <1>2 DEF Written
<1>5. BatchOnlySpends
    BY <1>2, <1>4 DEF BatchOnlySpends
<1>6. /\ \A u \in Users : \A S : ApplyOf(u, S) = 0
      /\ \A u \in Users : RedeemedQuota(u) = 0 /\ CreditedTo(u) = 0
    <2>1. ASSUME NEW u \in Users PROVE \A S : ApplyOf(u, S) = 0
        <3>1. \A S : \A w \in Withdrawals : Applied(u, S)[w] = 0
            BY DEF Applied, Init, NoWithdrawal
        <3> QED
            BY <3>1, WalletAssumption, SumOfZeros DEF ApplyOf
    <2>2. ASSUME NEW u \in Users PROVE RedeemedQuota(u) = 0
        <3>1. \A c \in Codes : FromCode(u)[c] = 0
            BY DEF FromCode, Init, NoCode
        <3> QED
            BY <3>1, WalletAssumption, SumOfZeros DEF RedeemedQuota
    <2>3. ASSUME NEW u \in Users PROVE CreditedTo(u) = 0
        <3>1. 0 * TopUpQuota = 0
            BY WalletAssumption
        <3>2. \A o \in Orders : FromTopUp(u)[o] = 0
            BY <3>1 DEF FromTopUp, Init
        <3> QED
            BY <3>2, WalletAssumption, SumOfZeros DEF CreditedTo
    <2> QED
        BY <2>1, <2>2, <2>3
<1>7. QuotaConserved
    <2>1. \A u \in Users : Balance(u) = InitQuota
        BY <1>2, <1>4, <1>6, WalletAssumption DEF Balance
    <2> QED
        BY <1>1, <1>3, <2>1, ConservedIsBalanced DEF AllBalanced
<1>8. CodesCounted
    BY <1>2, <1>6 DEF CodesCounted
<1>9. CreatesCovered
    <2>1. \A t \in Threads : wtx[t].op # "create"
        BY DEF Init, NoWtx
    <2> QED
        BY <2>1 DEF CreatesCovered
<1>10. RedeemedStaysInside
    BY <1>6, WalletAssumption DEF RedeemedStaysInside
<1> QED
    BY <1>1, <1>3, <1>5, <1>7, <1>8, <1>9, <1>10 DEF AccountInvariant

\* However requests, the batch updater, withdrawals, administrators, codes and
\* callbacks interleave, and wherever the process dies: frozen quota is never
\* negative, every unit of a user's quota is accounted for, and what codes gave
\* is never paid out.
THEOREM WalletAccountsExact == LockingReads /\ Spec => []AccountsExact
<1>1. AccountInvariant => AccountsExact
    BY InvariantTypes DEF AccountInvariant, AccountsExact
<1> QED
    BY <1>1, AccountInit, AccountStep, PTL DEF Spec
=============================================================================
