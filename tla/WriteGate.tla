------------------------------ MODULE WriteGate ------------------------------
(****************************************************************************)
(* The writer slot of the native engine: a `held` flag under a mutex and a  *)
(* condition variable `free`, with an optional deadline per waiter          *)
(* (crates/dr-strange-core/src/storage/native/mod.rs, WriteGate).           *)
(*                                                                          *)
(* Every step below is one critical section of the mutex: between two of    *)
(* them any other thread may run.  A thread that finds the slot taken parks *)
(* on the condition variable, which releases the mutex; it comes back when  *)
(* it is notified, when its deadline passes, or for no reason at all, and   *)
(* looks at the flag again before it decides.                               *)
(****************************************************************************)
EXTENDS Naturals, FiniteSets

CONSTANT Threads   \* the threads that may ask for the writer slot

VARIABLES
    held,       \* WriteGate.held: some thread owns the slot
    pc,         \* pc[t]: where thread t is
    bounded,    \* bounded[t]: t's acquire was called with Some(limit)
    expired,    \* expired[t]: t's deadline has passed
    timeoutSet  \* write_timeout_ms # 0: the bound the next acquire captures

gateVars == <<held, pc, bounded, expired, timeoutSet>>

Waiting == {"parked", "awake"}
PcStates == {"idle", "holding"} \cup Waiting

Parked == {t \in Threads : pc[t] = "parked"}
Awake == {t \in Threads : pc[t] = "awake"}

GateInit ==
    /\ held = FALSE
    /\ pc = [t \in Threads |-> "idle"]
    /\ bounded = [t \in Threads |-> FALSE]
    /\ expired = [t \in Threads |-> FALSE]
    /\ timeoutSet = FALSE

(* set_write_timeout: one already waiting keeps the bound it began with.     *)
SetWriteTimeout ==
    /\ timeoutSet' = ~timeoutSet
    /\ UNCHANGED <<held, pc, bounded, expired>>

(* The first look at the flag, from begin_write_unchecked, apply_replicated  *)
(* or upgrade_runs: take a free slot, or park.                               *)
Acquire(t) ==
    /\ pc[t] = "idle"
    /\ bounded' = [bounded EXCEPT ![t] = timeoutSet]
    /\ expired' = [expired EXCEPT ![t] = FALSE]
    /\ \/ /\ ~held
          /\ held' = TRUE
          /\ pc' = [pc EXCEPT ![t] = "holding"]
       \/ /\ held
          /\ held' = held
          /\ pc' = [pc EXCEPT ![t] = "parked"]
    /\ UNCHANGED timeoutSet

(* The deadline of a bounded waiter passes (wall-clock time, at any point).  *)
Expire(t) ==
    /\ pc[t] \in Waiting
    /\ bounded[t]
    /\ ~expired[t]
    /\ expired' = [expired EXCEPT ![t] = TRUE]
    /\ UNCHANGED <<held, pc, bounded, timeoutSet>>

(* wait_timeout returns because the deadline passed.                         *)
TimeoutWake(t) ==
    /\ pc[t] = "parked"
    /\ expired[t]
    /\ pc' = [pc EXCEPT ![t] = "awake"]
    /\ UNCHANGED <<held, bounded, expired, timeoutSet>>

(* A condition variable may return with no notification at all.              *)
SpuriousWake(t) ==
    /\ pc[t] = "parked"
    /\ pc' = [pc EXCEPT ![t] = "awake"]
    /\ UNCHANGED <<held, bounded, expired, timeoutSet>>

(* Slip: trusting the timeout without a last look at the flag.               *)
ResumeTrustsTimeout(t) ==
    /\ pc[t] = "awake"
    /\ \/ /\ ~held
          /\ ~expired[t]
          /\ held' = TRUE
          /\ pc' = [pc EXCEPT ![t] = "holding"]
       \/ /\ expired[t]
          /\ held' = held
          /\ pc' = [pc EXCEPT ![t] = "idle"]
       \/ /\ held
          /\ ~expired[t]
          /\ held' = held
          /\ pc' = [pc EXCEPT ![t] = "parked"]
    /\ UNCHANGED <<bounded, expired, timeoutSet>>

(* Slip: `if` in place of `while`: a woken waiter takes the slot unchecked.   *)
ResumeUnchecked(t) ==
    /\ pc[t] = "awake"
    /\ held' = TRUE
    /\ pc' = [pc EXCEPT ![t] = "holding"]
    /\ UNCHANGED <<bounded, expired, timeoutSet>>

(* Slip: a per-wait budget: every wake-up restarts the clock.                 *)
ResumeRestartsClock(t) ==
    /\ pc[t] = "awake"
    /\ \/ /\ ~held
          /\ held' = TRUE
          /\ pc' = [pc EXCEPT ![t] = "holding"]
       \/ /\ held
          /\ held' = held
          /\ pc' = [pc EXCEPT ![t] = "parked"]
    /\ expired' = [expired EXCEPT ![t] = FALSE]
    /\ UNCHANGED <<bounded, timeoutSet>>

(* Back under the mutex: the flag is examined before the deadline, so waking *)
(* exactly as the slot frees is a success even past the deadline.            *)
Resume(t) ==
    /\ pc[t] = "awake"
    /\ \/ /\ ~held
          /\ held' = TRUE
          /\ pc' = [pc EXCEPT ![t] = "holding"]
       \/ /\ held
          /\ expired[t]                              \* Err(timed_out)
          /\ held' = held
          /\ pc' = [pc EXCEPT ![t] = "idle"]
       \/ /\ held
          /\ ~expired[t]
          /\ held' = held
          /\ pc' = [pc EXCEPT ![t] = "parked"]
    /\ UNCHANGED <<bounded, expired, timeoutSet>>

(* Slip: the slot is freed but nobody is notified.                           *)
ReleaseSilently(t) ==
    /\ pc[t] = "holding"
    /\ held' = FALSE
    /\ pc' = [pc EXCEPT ![t] = "idle"]
    /\ UNCHANGED <<bounded, expired, timeoutSet>>

(* WriteGuard::drop: the slot is freed and one parked waiter is notified.    *)
Release(t) ==
    /\ pc[t] = "holding"
    /\ held' = FALSE
    /\ \/ /\ Parked = {}
          /\ pc' = [pc EXCEPT ![t] = "idle"]
       \/ \E w \in Parked : pc' = [pc EXCEPT ![t] = "idle", ![w] = "awake"]
    /\ UNCHANGED <<bounded, expired, timeoutSet>>

GateNext ==
    \/ SetWriteTimeout
    \/ \E t \in Threads :
          \/ Acquire(t) \/ Expire(t) \/ TimeoutWake(t)
          \/ SpuriousWake(t) \/ Resume(t) \/ Release(t)

(* Time passes, the scheduler runs every runnable thread, and a transaction  *)
(* ends: a WriteGuard is dropped on every path out of a write.               *)
Fairness ==
    \A t \in Threads :
        /\ WF_gateVars(Expire(t))
        /\ WF_gateVars(TimeoutWake(t))
        /\ WF_gateVars(Resume(t))
        /\ WF_gateVars(Release(t))

GateSpec == GateInit /\ [][GateNext]_gateVars
FairSpec == GateSpec /\ Fairness

-----------------------------------------------------------------------------
(* Every variable has its type, and a deadline has passed only for a waiter  *)
(* whose acquire was given a limit.                                          *)
GateTypeOK ==
    /\ held \in BOOLEAN
    /\ pc \in [Threads -> PcStates]
    /\ bounded \in [Threads -> BOOLEAN]
    /\ expired \in [Threads -> BOOLEAN]
    /\ \A t \in Threads : expired[t] => bounded[t]
    /\ timeoutSet \in BOOLEAN

(* "Serializes writers within one process": at most one thread is past       *)
(* acquire, and the flag says so exactly when one is.                        *)
MutualExclusion ==
    /\ \A t, u \in Threads : pc[t] = "holding" /\ pc[u] = "holding" => t = u
    /\ held <=> \E t \in Threads : pc[t] = "holding"

(* Waking one waiter is enough: the slot is never free with a thread parked  *)
(* and nobody on the way to look at the flag, even when the notified thread  *)
(* gives up, or another thread takes the slot first.                         *)
NoLostWakeup ==
    ~held /\ Parked # {} => Awake # {}

(* An acquire with a limit ends, with the slot or with Error::Timeout, and   *)
(* spurious wake-ups never turn it into an unbounded wait.                   *)
BoundedWaitEnds ==
    \A t \in Threads :
        (pc[t] \in Waiting /\ bounded[t]) ~> (pc[t] \notin Waiting)

(* A free slot with threads waiting for it does not stay free.               *)
SlotIsTaken ==
    (~held /\ (Parked # {} \/ Awake # {})) ~> (held \/ (Parked = {} /\ Awake = {}))

(* Giving up: a waiter that leaves with Timeout saw the slot taken at that   *)
(* very step.                                                                *)
TimeoutOnlyWhenHeld ==
    [][\A t \in Threads :
         (pc[t] \in Waiting /\ pc'[t] = "idle") => held /\ expired[t]]_gateVars
=============================================================================
