------------------------- MODULE SharedRateLimitProofs -------------------------
(***************************************************************************)
(* Proofs about SharedRateLimit, for any number of processes and threads,  *)
(* any interval and any number of kills.                                   *)
(***************************************************************************)
EXTENDS SharedRateLimit, TLAPS

\* A thread belongs to a process, and is not the sign for no owner.
LEMMA ThreadParts ==
  ASSUME NEW t \in Thread
  PROVE  ProcessOf(t) \in Process /\ t # None
BY NoneAssumption DEF Thread, ProcessOf

(***************************************************************************)
(* Type correctness.                                                       *)
(***************************************************************************)
LEMMA TypeInit == Init => TypeOK
BY IntervalAssumption DEF Init, TypeOK, Age

\* Every step keeps the types (all actions of the limiter).
LEMMA TypeStep == TypeOK /\ [Next]_vars => TypeOK'
<1> SUFFICES ASSUME TypeOK, [Next]_vars
             PROVE  TypeOK'
  OBVIOUS
<1> USE IntervalAssumption, NoneAssumption, ThreadParts DEF TypeOK, Age
<1>1. ASSUME NEW t \in Thread, Pick(t) PROVE TypeOK'
  BY <1>1 DEF Pick, TakeMutex, Goto
<1>2. ASSUME NEW t \in Thread, TryLock(t) PROVE TypeOK'
  BY <1>2 DEF TryLock, Goto
<1>3. ASSUME NEW t \in Thread, Locked(t) PROVE TypeOK'
  BY <1>3 DEF Locked, ReleaseMutex, Goto
<1>4. ASSUME NEW t \in Thread, Peek(t) PROVE TypeOK'
  BY <1>4 DEF Peek, ReleaseMutex, Goto
<1>5. ASSUME NEW t \in Thread, Enter(t) PROVE TypeOK'
  BY <1>5 DEF Enter, TakeMutex, Goto
<1>6. ASSUME NEW t \in Thread, Lock(t) PROVE TypeOK'
  <2>1. WaitTime \in 0 .. Interval
    BY DEF WaitTime
  <2> QED
    BY <1>6, <2>1 DEF Lock, Goto
<1>7. ASSUME NEW t \in Thread, Truncate(t) PROVE TypeOK'
  BY <1>7 DEF Truncate, locks, Goto
<1>8. ASSUME NEW t \in Thread, Stamp(t) PROVE TypeOK'
  BY <1>8 DEF Stamp, locks, Goto
<1>9. ASSUME NEW t \in Thread, Unlock(t) PROVE TypeOK'
  BY <1>9 DEF Unlock, ReleaseMutex, Goto
<1>10. ASSUME Tick PROVE TypeOK'
  <2>1. \A a \in 0 .. Interval : Older(a) \in 0 .. Interval
    BY DEF Older
  <2>2. \A t \in Thread :
          (IF sleep[t] > 0 THEN sleep[t] - 1 ELSE 0) \in 0 .. Interval
    OBVIOUS
  <2> QED
    BY <1>10, <2>1, <2>2 DEF Tick, locks
<1>11. ASSUME NEW p \in Process, Kill(p) PROVE TypeOK'
  BY <1>11 DEF Kill
<1>12. CASE UNCHANGED vars
  BY <1>12 DEF vars, locks
<1> QED
  BY <1>1, <1>2, <1>3, <1>4, <1>5, <1>6, <1>7, <1>8, <1>9, <1>10, <1>11, <1>12
  DEF Next, ThreadStep

\* The limiter's state keeps its type.
THEOREM TypeCorrect == Spec => []TypeOK
<1>1. Init => TypeOK
  BY TypeInit
<1>2. TypeOK /\ [Next]_vars => TypeOK'
  BY TypeStep
<1> QED
  BY <1>1, <1>2, PTL DEF Spec

(***************************************************************************)
(* The locks.                                                              *)
(***************************************************************************)
LEMMA LocksInit == Init => LocksHeld
BY ThreadParts DEF Init, LocksHeld, HasMutex, HasFlock

\* No step gives a lock away or keeps one for a thread that has left.
LEMMA LocksStep == TypeOK /\ LocksHeld /\ [Next]_vars => LocksHeld'
<1> SUFFICES ASSUME TypeOK, LocksHeld, [Next]_vars
             PROVE  LocksHeld'
  OBVIOUS
<1> USE NoneAssumption, ThreadParts DEF TypeOK, LocksHeld, HasMutex, HasFlock
<1>1. ASSUME NEW t \in Thread, Pick(t) PROVE LocksHeld'
  BY <1>1 DEF Pick, TakeMutex, Goto
<1>2. ASSUME NEW t \in Thread, TryLock(t) PROVE LocksHeld'
  BY <1>2 DEF TryLock, Goto
<1>3. ASSUME NEW t \in Thread, Locked(t) PROVE LocksHeld'
  BY <1>3 DEF Locked, ReleaseMutex, Goto
<1>4. ASSUME NEW t \in Thread, Peek(t) PROVE LocksHeld'
  BY <1>4 DEF Peek, ReleaseMutex, Goto
<1>5. ASSUME NEW t \in Thread, Enter(t) PROVE LocksHeld'
  BY <1>5 DEF Enter, TakeMutex, Goto
<1>6. ASSUME NEW t \in Thread, Lock(t) PROVE LocksHeld'
  BY <1>6 DEF Lock, Goto
<1>7. ASSUME NEW t \in Thread, Truncate(t) PROVE LocksHeld'
  BY <1>7 DEF Truncate, locks, Goto
<1>8. ASSUME NEW t \in Thread, Stamp(t) PROVE LocksHeld'
  BY <1>8 DEF Stamp, locks, Goto
<1>9. ASSUME NEW t \in Thread, Unlock(t) PROVE LocksHeld'
  BY <1>9 DEF Unlock, ReleaseMutex, Goto
<1>10. ASSUME Tick PROVE LocksHeld'
  BY <1>10 DEF Tick, locks
<1>11. ASSUME NEW p \in Process, Kill(p) PROVE LocksHeld'
  BY <1>11 DEF Kill
<1>12. CASE UNCHANGED vars
  BY <1>12 DEF vars, locks
<1> QED
  BY <1>1, <1>2, <1>3, <1>4, <1>5, <1>6, <1>7, <1>8, <1>9, <1>10, <1>11, <1>12
  DEF Next, ThreadStep

(***************************************************************************)
(* The spacing.                                                            *)
(***************************************************************************)
LEMMA SpacingInit == Init => SpacingInv
BY IntervalAssumption DEF Init, SpacingInv

\* The lock on the file keeps a second thread from reading an old stamp.
LEMMA SpacingStep == IInv /\ [Next]_vars => SpacingInv'
<1> SUFFICES ASSUME IInv, [Next]_vars
             PROVE  SpacingInv'
  OBVIOUS
<1> USE IntervalAssumption, NoneAssumption DEF IInv, TypeOK, Age, SpacingInv
<1>1. ASSUME NEW t \in Thread, Pick(t) PROVE SpacingInv'
  BY <1>1 DEF Pick, Goto
<1>2. ASSUME NEW t \in Thread, TryLock(t) PROVE SpacingInv'
  BY <1>2 DEF TryLock, Goto
<1>3. ASSUME NEW t \in Thread, Locked(t) PROVE SpacingInv'
  BY <1>3 DEF Locked, Goto
<1>4. ASSUME NEW t \in Thread, Peek(t) PROVE SpacingInv'
  BY <1>4 DEF Peek, Goto
<1>5. ASSUME NEW t \in Thread, Enter(t) PROVE SpacingInv'
  BY <1>5 DEF Enter, Goto
<1>6. ASSUME NEW t \in Thread, Lock(t) PROVE SpacingInv'
  BY <1>6 DEF Lock, WaitTime, Goto
<1>7. ASSUME NEW t \in Thread, Truncate(t) PROVE SpacingInv'
  BY <1>7 DEF Truncate, Goto
<1>8. ASSUME NEW t \in Thread, Stamp(t) PROVE SpacingInv'
  <2>1. \A u \in Thread : u # t => pc[u] \notin {"sleep", "stamp"}
    BY <1>8 DEF Stamp, LocksHeld, HasFlock
  <2> QED
    BY <1>8, <2>1 DEF Stamp, Goto
<1>9. ASSUME NEW t \in Thread, Unlock(t) PROVE SpacingInv'
  BY <1>9 DEF Unlock, Goto
<1>10. ASSUME Tick PROVE SpacingInv'
  BY <1>10 DEF Tick, Older
<1>11. ASSUME NEW p \in Process, Kill(p) PROVE SpacingInv'
  BY <1>11 DEF Kill
<1>12. CASE UNCHANGED vars
  BY <1>12 DEF vars
<1> QED
  BY <1>1, <1>2, <1>3, <1>4, <1>5, <1>6, <1>7, <1>8, <1>9, <1>10, <1>11, <1>12
  DEF Next, ThreadStep

\* The inductive invariant.
LEMMA InvCorrect == Spec => []IInv
<1>1. Init => IInv
  BY TypeInit, LocksInit, SpacingInit DEF IInv
<1>2. IInv /\ [Next]_vars => IInv'
  BY TypeStep, LocksStep, SpacingStep DEF IInv
<1> QED
  BY <1>1, <1>2, PTL DEF Spec

(***************************************************************************)
(* At most one thread of a process is in the limiter and at most one of    *)
(* all has the file; no lock outlives its thread.                          *)
(***************************************************************************)
THEOREM LocksCorrect == Spec => []LocksHeld
<1>1. IInv => LocksHeld
  BY DEF IInv
<1> QED
  BY <1>1, InvCorrect, PTL

(***************************************************************************)
(* Requests through one proxy are granted at least an interval apart, for  *)
(* any number of processes and however often they are killed.              *)
(***************************************************************************)
THEOREM SpacingCorrect == Spec => GrantsSpaced
<1>1. IInv /\ [Next]_vars => [requests' # requests => elapsed = Interval]_vars
  <2> SUFFICES ASSUME IInv, Next, requests' # requests
               PROVE  elapsed = Interval
    OBVIOUS
  <2>1. ASSUME NEW t \in Thread, ThreadStep(t) PROVE Stamp(t)
    BY <2>1 DEF ThreadStep, Pick, TryLock, Locked, Peek, Enter, Lock, Truncate,
                Unlock
  <2>2. ~Tick /\ \A p \in Process : ~Kill(p)
    BY DEF Tick, Kill
  <2>3. PICK t \in Thread : Stamp(t)
    BY <2>1, <2>2 DEF Next
  <2> QED
    BY <2>3 DEF IInv, SpacingInv, Stamp
<1> QED
  BY <1>1, InvCorrect, PTL DEF Spec, GrantsSpaced
===============================================================================
