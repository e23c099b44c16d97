---------------------------- MODULE ControlLease ----------------------------
(***************************************************************************)
(* The control lease of one Run: the file control.lock under the Run's     *)
(* directory, the flock that guards it (control.lock.guard), and the lease *)
(* handles of the engine processes that compete for it.                    *)
(*                                                                         *)
(* An Owner is one lease handle: every acquire draws a fresh random owner  *)
(* id, so a handle that lost the competition is again unused.  A process   *)
(* may hold several handles over time (a controller's lease, the lease of  *)
(* a resume or a cancel); PidOf says which process a handle lives in.      *)
(***************************************************************************)
EXTENDS Integers, TLAPS

CONSTANTS Owner,      \* lease handles
          Pid,        \* engine processes
          PidOf,      \* the process a handle lives in
          TTL,        \* DefaultLeaseTTL, in clock ticks
          MaxClock,   \* bound on the clock
          NoOwner     \* no handle

\* The program points of a handle.
Points == {"unused", "ask", "create", "write", "held", "beat", "lost"}

ASSUME LeaseAssumption ==
    /\ PidOf \in [Owner -> Pid]
    /\ TTL \in Nat \ {0}
    /\ MaxClock \in Nat
    /\ NoOwner \notin Owner

\* The lock file does not exist.
Absent == [kind |-> "absent"]

\* The lock file was created and its record is not written yet.
Partial == [kind |-> "partial"]

\* A complete lease record: the owner it names and when it expires.
Record(o, e) == [kind |-> "record", owner |-> o, exp |-> e]

\* What readLease can find at the path of the lock.
LockFile == {Absent, Partial} \cup
            [kind : {"record"}, owner : Owner, exp : Nat]

VARIABLES now,      \* the clock
          lock,     \* control.lock
          guard,    \* the handle whose process holds the flock
          alive,    \* which processes run
          pc,       \* where each handle is
          stamp,    \* the time acquire read before it asked for the guard
          recovery, \* whether this acquire is AcquireRecovery
          view      \* ExpiresAt in the handle's own record

vars == <<now, lock, guard, alive, pc, stamp, recovery, view>>

TypeOK ==
    /\ now \in Nat
    /\ lock \in LockFile
    /\ guard \in Owner \cup {NoOwner}
    /\ alive \in [Pid -> BOOLEAN]
    /\ pc \in [Owner -> Points]
    /\ stamp \in [Owner -> Nat]
    /\ recovery \in [Owner -> BOOLEAN]
    /\ view \in [Owner -> Nat]

Init ==
    /\ now = 0
    /\ lock = Absent
    /\ guard = NoOwner
    /\ alive = [p \in Pid |-> TRUE]
    /\ pc = [o \in Owner |-> "unused"]
    /\ stamp = [o \in Owner |-> 0]
    /\ recovery = [o \in Owner |-> FALSE]
    /\ view = [o \in Owner |-> 0]

-----------------------------------------------------------------------------
\* The lock file holds a complete record that names o.
Names(o) == lock.kind = "record" /\ lock.owner = o

\* The process of o runs.
Runs(o) == alive[PidOf[o]]

\* The handles in gone are given up; a later acquire draws a new owner id.
Forget(gone) ==
    /\ pc' = [o \in Owner |-> IF o \in gone THEN "unused" ELSE pc[o]]
    /\ stamp' = [o \in Owner |-> IF o \in gone THEN 0 ELSE stamp[o]]
    /\ recovery' = [o \in Owner |-> IF o \in gone THEN FALSE ELSE recovery[o]]
    /\ view' = [o \in Owner |-> IF o \in gone THEN 0 ELSE view[o]]

\* The clock advances.
Tick ==
    /\ now < MaxClock
    /\ now' = now + 1
    /\ UNCHANGED <<lock, guard, alive, pc, stamp, recovery, view>>

\* Acquire and AcquireRecovery read the clock before they ask for the guard.
AcquireBegin(o, r) ==
    /\ Runs(o)
    /\ pc[o] = "unused"
    /\ pc' = [pc EXCEPT ![o] = "ask"]
    /\ stamp' = [stamp EXCEPT ![o] = now]
    /\ recovery' = [recovery EXCEPT ![o] = r]
    /\ UNCHANGED <<now, lock, guard, alive, view>>

\* A record blocks an acquire while it is unexpired at the time the acquire
\* read, unless the acquire is a recovery.
BlocksOn(o) == lock.kind = "record" /\ lock.exp > stamp[o]

\* A recovery may replace an unexpired record when its process is dead.
OwnerDead == lock.kind = "record" /\ ~alive[PidOf[lock.owner]]

\* Under the guard: no lock, an expired one, or for a recovery one whose
\* process is confirmed dead; the old file is removed.
AcquireTake(o) ==
    /\ Runs(o)
    /\ pc[o] = "ask"
    /\ guard = NoOwner
    /\ lock # Partial
    /\ BlocksOn(o) => recovery[o] /\ OwnerDead
    /\ guard' = o
    /\ lock' = Absent
    /\ pc' = [pc EXCEPT ![o] = "create"]
    /\ recovery' = [recovery EXCEPT ![o] = FALSE]
    /\ UNCHANGED <<now, alive, stamp, view>>

\* Under the guard: a conflict, an owner that cannot be verified, or a lock
\* file that cannot be read.
AcquireRefused(o) ==
    /\ Runs(o)
    /\ pc[o] = "ask"
    /\ guard = NoOwner
    /\ lock = Partial \/ BlocksOn(o)
    /\ Forget({o})
    /\ UNCHANGED <<now, lock, guard, alive>>

\* createLeaseExclusive opens the file with O_EXCL.
CreateOpen(o) ==
    /\ Runs(o)
    /\ pc[o] = "create"
    /\ lock = Absent
    /\ lock' = Partial
    /\ pc' = [pc EXCEPT ![o] = "write"]
    /\ UNCHANGED <<now, guard, alive, stamp, recovery, view>>

\* createLeaseExclusive writes and syncs the record; the guard is released.
CreateWrite(o) ==
    /\ Runs(o)
    /\ pc[o] = "write"
    /\ lock' = Record(o, stamp[o] + TTL)
    /\ view' = [view EXCEPT ![o] = stamp[o] + TTL]
    /\ stamp' = [stamp EXCEPT ![o] = 0]
    /\ guard' = NoOwner
    /\ pc' = [pc EXCEPT ![o] = "held"]
    /\ UNCHANGED <<now, alive, recovery>>

\* The open, the write or the sync fails: the deferred cleanup removes the
\* file and the guard is released.
CreateFails(o) ==
    /\ Runs(o)
    /\ pc[o] \in {"create", "write"}
    /\ lock' = Absent
    /\ guard' = NoOwner
    /\ Forget({o})
    /\ UNCHANGED <<now, alive>>

\* Heartbeat reads the lock without the guard first.
HeartbeatCheck(o) ==
    /\ Runs(o)
    /\ pc[o] = "held"
    /\ pc' = [pc EXCEPT ![o] = IF Names(o) THEN "beat" ELSE "lost"]
    /\ UNCHANGED <<now, lock, guard, alive, stamp, recovery, view>>

\* Faulty variant: the renewal trusts the unguarded read.
HeartbeatWriteUnchecked(o) ==
    /\ Runs(o)
    /\ pc[o] = "beat"
    /\ guard = NoOwner
    /\ lock' = Record(o, now + TTL)
    /\ view' = [view EXCEPT ![o] = now + TTL]
    /\ pc' = [pc EXCEPT ![o] = "held"]
    /\ UNCHANGED <<now, guard, alive, stamp, recovery>>

\* Then, under the guard, it reads the lock again and renews it, expired or
\* not, while it still names this handle.
HeartbeatWrite(o) ==
    /\ Runs(o)
    /\ pc[o] = "beat"
    /\ guard = NoOwner
    /\ IF Names(o)
         THEN /\ lock' = Record(o, now + TTL)
              /\ view' = [view EXCEPT ![o] = now + TTL]
              /\ pc' = [pc EXCEPT ![o] = "held"]
         ELSE /\ pc' = [pc EXCEPT ![o] = "lost"]
              /\ UNCHANGED <<lock, view>>
    /\ UNCHANGED <<now, guard, alive, stamp, recovery>>

\* Faulty variant: the release removes whatever lock it finds.
ReleaseAny(o) ==
    /\ Runs(o)
    /\ pc[o] \in {"held", "lost"}
    /\ guard = NoOwner
    /\ lock' = Absent
    /\ Forget({o})
    /\ UNCHANGED <<now, guard, alive>>

\* Release removes the lock only while it names this handle; the handle is
\* given up either way.
Release(o) ==
    /\ Runs(o)
    /\ pc[o] \in {"held", "lost"}
    /\ guard = NoOwner
    /\ lock' = IF Names(o) THEN Absent ELSE lock
    /\ Forget({o})
    /\ UNCHANGED <<now, guard, alive>>

\* The process is killed: its handles are gone and the flock is released; the
\* lock file stays as it is.
Crash(p) ==
    /\ alive[p]
    /\ alive' = [alive EXCEPT ![p] = FALSE]
    /\ guard' = IF guard # NoOwner /\ PidOf[guard] = p THEN NoOwner ELSE guard
    /\ Forget({o \in Owner : PidOf[o] = p})
    /\ UNCHANGED <<now, lock>>

Next ==
    \/ Tick
    \/ \E o \in Owner :
         \/ \E r \in BOOLEAN : AcquireBegin(o, r)
         \/ AcquireTake(o)
         \/ AcquireRefused(o)
         \/ CreateOpen(o)
         \/ CreateWrite(o)
         \/ CreateFails(o)
         \/ HeartbeatCheck(o)
         \/ HeartbeatWrite(o)
         \/ Release(o)
    \/ \E p \in Pid : Crash(p)

Spec == Init /\ [][Next]_vars

-----------------------------------------------------------------------------
\* A handle that its process still uses and whose own record says that the
\* lease is unexpired.
Believes(o) == pc[o] \in {"held", "beat"} /\ view[o] > now

\* No two handles believe at the same time that they hold an unexpired lease:
\* the guarded second read of Heartbeat and the takeover rule of acquire
\* together leave at most one (lease.go acquire, Heartbeat, Release).
LeaseExclusion ==
    \A a, b \in Owner : Believes(a) /\ Believes(b) => a = b

\* A record stops naming its owner only when that owner releases it, when it
\* has expired, or when its process is dead: neither another handle's release
\* nor a late heartbeat removes or replaces a valid lease
\* (docs/fishyume-m4-implementation-plan.md, M4.1: a recovery lease is
\* replaced only when the old PID is confirmed dead or the lease expired).
TakeoverJustified ==
    [][\A o \in Owner :
         Names(o) /\ ~Names(o)' =>
             \/ pc[o] # "unused" /\ pc'[o] = "unused"
             \/ lock.exp <= now
             \/ ~Runs(o)]_vars

-----------------------------------------------------------------------------
\* The inductive strengthening of LeaseExclusion.

\* A handle is in the creation of the lock file exactly while it has the guard.
GuardMatchesPoint ==
    \A o \in Owner : pc[o] \in {"create", "write"} <=> guard = o

\* No complete record exists while one is being created.
NoRecordUnderGuard == guard # NoOwner => lock.kind # "record"

\* The time an acquire works with is never ahead of the clock.
StampNotAhead == \A o \in Owner : stamp[o] <= now

\* A dead process has no handles.
DeadHoldNothing == \A o \in Owner : ~Runs(o) => pc[o] = "unused"

\* A handle in use is named by the lock with its own expiry, or has expired.
NamedOrExpired ==
    \A o \in Owner : pc[o] \in {"held", "beat"} =>
        (Names(o) /\ lock.exp = view[o]) \/ view[o] <= now

LeaseInv ==
    /\ TypeOK
    /\ GuardMatchesPoint
    /\ NoRecordUnderGuard
    /\ StampNotAhead
    /\ DeadHoldNothing
    /\ NamedOrExpired

-----------------------------------------------------------------------------
(***************************************************************************)
(* Exclusion of lease holders, and justification of every takeover, for    *)
(* every set of handles and processes, every TTL and every clock bound.    *)
(***************************************************************************)
USE LeaseAssumption

\* The initial state satisfies the inductive invariant.
LEMMA InitLeaseInv == Init => LeaseInv
  BY DEF Init, LeaseInv, TypeOK, GuardMatchesPoint, NoRecordUnderGuard,
         StampNotAhead, DeadHoldNothing, NamedOrExpired, LockFile, Absent,
         Points, Names, Runs

\* What Forget leaves: the handles it names are unused, the others untouched.
LEMMA ForgetEffect ==
  ASSUME NEW gone \in SUBSET Owner, TypeOK, Forget(gone)
  PROVE  /\ pc' \in [Owner -> Points]
         /\ stamp' \in [Owner -> Nat]
         /\ recovery' \in [Owner -> BOOLEAN]
         /\ view' \in [Owner -> Nat]
         /\ \A o \in gone : pc'[o] = "unused" /\ stamp'[o] = 0
         /\ \A o \in Owner \ gone : /\ pc'[o] = pc[o]
                                    /\ stamp'[o] = stamp[o]
                                    /\ view'[o] = view[o]
  BY DEF Forget, TypeOK, Points

\* Every step of Next preserves the inductive invariant.
LEMMA NextLeaseInv == LeaseInv /\ [Next]_vars => LeaseInv'
<1> SUFFICES ASSUME LeaseInv, [Next]_vars PROVE LeaseInv'
  OBVIOUS
<1> USE DEF LeaseInv, TypeOK, LockFile, Points, GuardMatchesPoint,
            NoRecordUnderGuard, StampNotAhead, DeadHoldNothing,
            NamedOrExpired, Names, Runs, Absent, Partial, Record
<1>1. CASE Tick
  BY <1>1 DEF Tick
<1>2. ASSUME NEW o \in Owner, NEW r \in BOOLEAN, AcquireBegin(o, r)
      PROVE  LeaseInv'
  BY <1>2 DEF AcquireBegin
<1>3. ASSUME NEW o \in Owner, AcquireTake(o)
      PROVE  LeaseInv'
  <2>1. TypeOK' /\ GuardMatchesPoint' /\ NoRecordUnderGuard'
    BY <1>3 DEF AcquireTake
  <2>2. StampNotAhead' /\ DeadHoldNothing'
    BY <1>3 DEF AcquireTake
  <2>3. NamedOrExpired'
    <3> SUFFICES ASSUME NEW h \in Owner, pc'[h] \in {"held", "beat"}
                 PROVE  view[h] <= now
      BY <1>3 DEF AcquireTake
    <3>1. pc[h] \in {"held", "beat"} /\ h # o
      BY <1>3 DEF AcquireTake
    <3>2. CASE Names(h) /\ lock.exp = view[h]
      <4>1. alive[PidOf[h]]
        BY <3>1
      <4>2. ~BlocksOn(o)
        BY <1>3, <3>2, <4>1 DEF AcquireTake, OwnerDead
      <4>3. lock.exp <= stamp[o]
        BY <3>2, <4>2 DEF BlocksOn
      <4> QED
        BY <3>2, <4>3
    <3> QED
      BY <3>1, <3>2
  <2> QED
    BY <2>1, <2>2, <2>3
<1>4. ASSUME NEW o \in Owner, AcquireRefused(o)
      PROVE  LeaseInv'
  BY <1>4, ForgetEffect DEF AcquireRefused
<1>5. ASSUME NEW o \in Owner, CreateOpen(o)
      PROVE  LeaseInv'
  BY <1>5 DEF CreateOpen
<1>6. ASSUME NEW o \in Owner, CreateWrite(o)
      PROVE  LeaseInv'
  BY <1>6 DEF CreateWrite
<1>7. ASSUME NEW o \in Owner, CreateFails(o)
      PROVE  LeaseInv'
  BY <1>7, ForgetEffect DEF CreateFails
<1>8. ASSUME NEW o \in Owner, HeartbeatCheck(o)
      PROVE  LeaseInv'
  BY <1>8 DEF HeartbeatCheck
<1>9. ASSUME NEW o \in Owner, HeartbeatWrite(o)
      PROVE  LeaseInv'
  BY <1>9 DEF HeartbeatWrite
<1>10. ASSUME NEW o \in Owner, Release(o)
       PROVE  LeaseInv'
  BY <1>10, ForgetEffect DEF Release
<1>11. ASSUME NEW p \in Pid, Crash(p)
       PROVE  LeaseInv'
  BY <1>11, ForgetEffect DEF Crash
<1>12. CASE UNCHANGED vars
  BY <1>12 DEF vars
<1> QED
  BY <1>1, <1>2, <1>3, <1>4, <1>5, <1>6, <1>7, <1>8, <1>9, <1>10, <1>11, <1>12
     DEF Next

\* The inductive invariant holds in every reachable state.
THEOREM LeaseInvariant == Spec => []LeaseInv
  BY InitLeaseInv, NextLeaseInv, PTL DEF Spec

\* The variables keep their types.
THEOREM LeaseTypes == Spec => []TypeOK
<1>1. LeaseInv => TypeOK
  BY DEF LeaseInv
<1> QED
  BY <1>1, LeaseInvariant, PTL

\* At most one handle at a time believes in an unexpired lease.
THEOREM LeaseIsExclusive == Spec => []LeaseExclusion
<1>1. LeaseInv => LeaseExclusion
  BY DEF LeaseInv, LeaseExclusion, NamedOrExpired, Believes, Names, TypeOK
<1> QED
  BY <1>1, LeaseInvariant, PTL

\* No step takes a valid lease of a running process away from its owner.
THEOREM TakeoverIsJustified == Spec => TakeoverJustified
<1>1. LeaseInv /\ [Next]_vars =>
        [\A o \in Owner :
           Names(o) /\ ~Names(o)' =>
             \/ pc[o] # "unused" /\ pc'[o] = "unused"
             \/ lock.exp <= now
             \/ ~Runs(o)]_vars
  <2> SUFFICES ASSUME LeaseInv, Next, NEW o \in Owner, Names(o), ~Names(o)'
               PROVE  \/ pc[o] # "unused" /\ pc'[o] = "unused"
                      \/ lock.exp <= now
                      \/ ~Runs(o)
    OBVIOUS
  <2> USE DEF LeaseInv, TypeOK, LockFile, Points, GuardMatchesPoint,
              NoRecordUnderGuard, StampNotAhead, Names, Runs, Absent, Partial,
              Record
  <2>1. CASE Tick
    BY <2>1 DEF Tick
  <2>2. ASSUME NEW h \in Owner, NEW r \in BOOLEAN, AcquireBegin(h, r)
        PROVE  FALSE
    BY <2>2 DEF AcquireBegin
  <2>3. ASSUME NEW h \in Owner, AcquireTake(h)
        PROVE  lock.exp <= now \/ ~Runs(o)
    BY <2>3 DEF AcquireTake, BlocksOn, OwnerDead
  <2>4. ASSUME NEW h \in Owner, AcquireRefused(h) \/ HeartbeatCheck(h)
        PROVE  FALSE
    BY <2>4 DEF AcquireRefused, HeartbeatCheck
  <2>5. ASSUME NEW h \in Owner, CreateOpen(h) \/ CreateWrite(h) \/ CreateFails(h)
        PROVE  FALSE
    BY <2>5 DEF CreateOpen, CreateWrite, CreateFails
  <2>6. ASSUME NEW h \in Owner, HeartbeatWrite(h)
        PROVE  FALSE
    BY <2>6 DEF HeartbeatWrite
  <2>7. ASSUME NEW h \in Owner, Release(h)
        PROVE  pc[o] # "unused" /\ pc'[o] = "unused"
    BY <2>7, ForgetEffect DEF Release
  <2>8. ASSUME NEW p \in Pid, Crash(p)
        PROVE  FALSE
    BY <2>8 DEF Crash
  <2> QED
    BY <2>1, <2>2, <2>3, <2>4, <2>5, <2>6, <2>7, <2>8 DEF Next
<1> QED
  BY <1>1, LeaseInvariant, PTL DEF Spec, TakeoverJustified
=============================================================================
