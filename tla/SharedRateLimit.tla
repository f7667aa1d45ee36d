---------------------------- MODULE SharedRateLimit ----------------------------
(***************************************************************************)
(* SharedRateLimiter of scripts/common.py, for one proxy: the worker       *)
(* processes of all pods keep the time of the last request through the     *)
(* proxy in one .rate file.  A thread holds a mutex of its process and a   *)
(* lock on the file while it sleeps until the next request is due, and     *)
(* then stamps the file.  ProxyPool.pick only looks at the file, and gives *)
(* up when it is locked.                                                   *)
(*                                                                         *)
(* Only differences of times count, and those above the interval are all   *)
(* the same: a time is modelled by its age, up to Interval.  The clock is  *)
(* taken to be common to the pods and never set back.                      *)
(***************************************************************************)
EXTENDS Integers, FiniteSets

CONSTANTS
  Process,      \* the worker processes
  Lane,         \* the threads of a process
  Interval,     \* min_interval, in units of the clock
  MaxRequests,  \* bound: the requests of a thread
  MaxKills,     \* bound: how often a process is killed
  None          \* no stamp, no owner

Thread == Process \X Lane
ProcessOf(t) == t[1]

ASSUME IntervalAssumption == Interval \in Nat
ASSUME BoundsAssumption == MaxRequests \in Nat /\ MaxKills \in Nat
ASSUME NoneAssumption == None \notin Thread /\ None \notin Nat

VARIABLES
  age,       \* the age of the stamp in the .rate file, None when it is empty
  flock,     \* the thread that has the lock on the file, or None
  mutex,     \* _lock of each process: the thread that has it, or None
  pc,        \* where each thread is
  sleep,     \* how long each thread still sleeps
  elapsed,   \* observed: the time since a request was last granted
  requests,  \* observed: the requests granted to each thread
  kills

locks == <<flock, mutex>>
vars == <<age, locks, pc, sleep, elapsed, requests, kills>>

Age == 0 .. Interval

TypeOK ==
  /\ age \in Age \cup {None}
  /\ flock \in Thread \cup {None}
  /\ mutex \in [Process -> Thread \cup {None}]
  /\ pc \in [Thread -> {"idle", "tryLock", "peek", "picked", "lock", "sleep",
                        "stamp", "unlock"}]
  /\ sleep \in [Thread -> Age]
  /\ elapsed \in Age
  /\ requests \in [Thread -> Nat]
  /\ kills \in Nat

\* The file may be left from earlier work, all of it long ago.
Init ==
  /\ age \in {None, Interval}
  /\ flock = None
  /\ mutex = [p \in Process |-> None]
  /\ pc = [t \in Thread |-> "idle"]
  /\ sleep = [t \in Thread |-> 0]
  /\ elapsed = Interval
  /\ requests = [t \in Thread |-> 0]
  /\ kills = 0

Goto(t, label) == pc' = [pc EXCEPT ![t] = label]
TakeMutex(t) ==
  /\ mutex[ProcessOf(t)] = None
  /\ mutex' = [mutex EXCEPT ![ProcessOf(t)] = t]
ReleaseMutex(t) == mutex' = [mutex EXCEPT ![ProcessOf(t)] = None]

(***************************************************************************)
(* expected_wait, by which pick compares proxies.                          *)
(***************************************************************************)
Pick(t) ==
  /\ pc[t] = "idle" /\ requests[t] < MaxRequests
  /\ TakeMutex(t)
  /\ Goto(t, "tryLock")
  /\ UNCHANGED <<age, flock, sleep, elapsed, requests, kills>>

TryLock(t) ==
  /\ pc[t] = "tryLock" /\ flock = None
  /\ flock' = t
  /\ Goto(t, "peek")
  /\ UNCHANGED <<age, mutex, sleep, elapsed, requests, kills>>

\* Plausible mistake: the mutex is kept when the file is found locked.
LockedKeepingMutex(t) ==
  /\ pc[t] = "tryLock" /\ flock # None
  /\ Goto(t, "picked")
  /\ UNCHANGED <<age, locks, sleep, elapsed, requests, kills>>

\* BlockingIOError: the answer is the whole interval.
Locked(t) ==
  /\ pc[t] = "tryLock" /\ flock # None
  /\ ReleaseMutex(t)
  /\ Goto(t, "picked")
  /\ UNCHANGED <<age, flock, sleep, elapsed, requests, kills>>

Peek(t) ==
  /\ pc[t] = "peek"
  /\ flock' = None
  /\ ReleaseMutex(t)
  /\ Goto(t, "picked")
  /\ UNCHANGED <<age, sleep, elapsed, requests, kills>>

(***************************************************************************)
(* wait, which grants the request.                                         *)
(***************************************************************************)
Enter(t) ==
  /\ pc[t] = "picked"
  /\ TakeMutex(t)
  /\ Goto(t, "lock")
  /\ UNCHANGED <<age, flock, sleep, elapsed, requests, kills>>

\* Plausible mistake: the signs of the times are confused.
WaitTimeReversed == IF age = None THEN 0 ELSE Interval + age

\* An empty file counts as a stamp of the distant past.
WaitTime == IF age = None THEN 0 ELSE Interval - age

\* Plausible mistake: the file is truncated as soon as it has been read.
LockTruncating(t) ==
  /\ pc[t] = "lock" /\ flock = None
  /\ flock' = t
  /\ sleep' = [sleep EXCEPT ![t] = WaitTime]
  /\ age' = None
  /\ Goto(t, "sleep")
  /\ UNCHANGED <<mutex, elapsed, requests, kills>>

Lock(t) ==
  /\ pc[t] = "lock" /\ flock = None
  /\ flock' = t
  /\ sleep' = [sleep EXCEPT ![t] = WaitTime]
  /\ Goto(t, "sleep")
  /\ UNCHANGED <<age, mutex, elapsed, requests, kills>>

Truncate(t) ==
  /\ pc[t] = "sleep" /\ sleep[t] = 0
  /\ age' = None
  /\ Goto(t, "stamp")
  /\ UNCHANGED <<locks, sleep, elapsed, requests, kills>>

Stamp(t) ==
  /\ pc[t] = "stamp"
  /\ age' = 0
  /\ elapsed' = 0
  /\ requests' = [requests EXCEPT ![t] = @ + 1]
  /\ Goto(t, "unlock")
  /\ UNCHANGED <<locks, sleep, kills>>

Unlock(t) ==
  /\ pc[t] = "unlock"
  /\ flock' = None
  /\ ReleaseMutex(t)
  /\ Goto(t, "idle")
  /\ UNCHANGED <<age, sleep, elapsed, requests, kills>>

ThreadStep(t) ==
  \/ Pick(t) \/ TryLock(t) \/ Locked(t) \/ Peek(t)
  \/ Enter(t) \/ Lock(t) \/ Truncate(t) \/ Stamp(t) \/ Unlock(t)

Older(a) == IF a < Interval THEN a + 1 ELSE a

Tick ==
  /\ age' = IF age = None THEN None ELSE Older(age)
  /\ elapsed' = Older(elapsed)
  /\ sleep' = [t \in Thread |-> IF sleep[t] > 0 THEN sleep[t] - 1 ELSE 0]
  /\ UNCHANGED <<locks, pc, requests, kills>>

(***************************************************************************)
(* A pod is killed: its locks are gone, the file stays as it is.  Another  *)
(* process takes its place.                                                *)
(***************************************************************************)
Kill(p) ==
  /\ kills < MaxKills
  /\ kills' = kills + 1
  /\ mutex' = [mutex EXCEPT ![p] = None]
  /\ flock' = IF flock # None /\ ProcessOf(flock) = p THEN None ELSE flock
  /\ pc' = [t \in Thread |-> IF ProcessOf(t) = p THEN "idle" ELSE pc[t]]
  /\ sleep' = [t \in Thread |-> IF ProcessOf(t) = p THEN 0 ELSE sleep[t]]
  /\ UNCHANGED <<age, elapsed, requests>>

Next ==
  \/ \E t \in Thread : ThreadStep(t)
  \/ Tick
  \/ \E p \in Process : Kill(p)

Spec == Init /\ [][Next]_vars

\* Threads are scheduled and time passes.  No fairness of the locks is assumed.
FairSpec ==
  /\ Spec
  /\ WF_vars(Tick)
  /\ \A t \in Thread : WF_vars(ThreadStep(t))

(***************************************************************************)
(* Properties.                                                             *)
(***************************************************************************)

HasMutex(t) == pc[t] \notin {"idle", "picked"}
HasFlock(t) == pc[t] \in {"peek", "sleep", "stamp", "unlock"}

(***************************************************************************)
(* The locks are held by the threads that are inside, and by no one else:  *)
(* at most one thread of a process is in the limiter, at most one of all   *)
(* processes has the file, and no lock outlives its thread.                *)
(***************************************************************************)
LocksHeld ==
  /\ \A t \in Thread : HasMutex(t) <=> mutex[ProcessOf(t)] = t
  /\ \A t \in Thread : HasFlock(t) <=> flock = t
  /\ \A p \in Process : mutex[p] # None => ProcessOf(mutex[p]) = p

(***************************************************************************)
(* README.md: row concurrency does not multiply the request rate.  Two     *)
(* requests through the proxy are granted at least an interval apart,      *)
(* whichever processes they are of, although processes are killed while    *)
(* the file is locked, even while it is empty.                             *)
(***************************************************************************)
GrantsSpaced == [][requests' # requests => elapsed = Interval]_vars

(***************************************************************************)
(* The nested locks block no one for ever: all requests are granted, also  *)
(* after kills.                                                            *)
(***************************************************************************)
AllGranted == <>(\A t \in Thread : requests[t] = MaxRequests)

(***************************************************************************)
(* Why the spacing holds: the file has the time of the last grant, or is   *)
(* empty when the next one is due, and whoever sleeps has the lock and     *)
(* sleeps until it is due.                                                 *)
(***************************************************************************)
SpacingInv ==
  /\ age # None => age = elapsed
  /\ age = None => elapsed = Interval
  /\ \A t \in Thread :
       /\ pc[t] = "sleep" => sleep[t] + elapsed >= Interval
       /\ pc[t] = "stamp" => elapsed = Interval

IInv == TypeOK /\ LocksHeld /\ SpacingInv
===============================================================================
