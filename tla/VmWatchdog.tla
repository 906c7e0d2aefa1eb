------------------------------ MODULE VmWatchdog ------------------------------
(***************************************************************************)
(* VmWatchdog (src/vm/vm_runtime.js): pings a worker every Interval, takes  *)
(* any pong for an outstanding ping as a sign of life, and gives the worker *)
(* up when there was none for Timeout.                                     *)
(*                                                                         *)
(* Time passes in units (Elapse), never beyond a timer that is due or a     *)
(* pong the worker owes: a live worker answers within MaxDelay, in order,   *)
(* and one that hangs (external) answers nothing any more.                  *)
(***************************************************************************)
EXTENDS Naturals, Sequences

CONSTANTS
    Interval,   \* intervalMs
    Timeout,    \* timeoutMs
    MaxDelay,   \* a live worker's pong arrives within this time
    MaxSeq      \* bound: pings issued

ASSUME TimeAssumption ==
    /\ Interval \in Nat \ {0} /\ Timeout \in Nat /\ MaxDelay \in Nat /\ MaxSeq \in Nat
    /\ Interval + MaxDelay < Timeout

VARIABLES
    seq, ackedSeq,
    silence,      \* time since lastPongTime
    timerId,      \* the interval timer is set
    phase,        \* time since it was set or last fired
    isActive,
    pings,        \* outstanding pings, as [seq, age]
    hung,         \* the worker answers no more
    watched,      \* history: time it has been hung under an active watchdog (capped)
    timedOut      \* handleWatchdogTimeout was called

vars == <<seq, ackedSeq, silence, timerId, phase, isActive, pings, hung, watched, timedOut>>

TypeOK ==
    /\ seq \in 0..MaxSeq /\ ackedSeq \in 0..seq
    /\ silence \in 0..(Timeout + Interval) /\ phase \in 0..Interval
    /\ timerId \in BOOLEAN /\ isActive \in BOOLEAN /\ hung \in BOOLEAN /\ timedOut \in BOOLEAN
    /\ pings \in Seq([seq : 1..MaxSeq, age : Nat])
    /\ watched \in Nat

Init ==
    /\ seq = 0 /\ ackedSeq = 0 /\ silence = 0
    /\ timerId = FALSE /\ phase = 0 /\ isActive = FALSE
    /\ pings = <<>> /\ hung = FALSE /\ watched = 0 /\ timedOut = FALSE

(* start: a running timer is replaced.                                     *)
Start ==
    /\ silence' = 0 /\ isActive' = TRUE /\ timerId' = TRUE /\ phase' = 0
    /\ watched' = 0
    /\ UNCHANGED <<seq, ackedSeq, pings, hung, timedOut>>

(* pause leaves the timer running; its ticks do nothing.                   *)
Pause ==
    /\ isActive
    /\ isActive' = FALSE
    /\ watched' = 0
    /\ UNCHANGED <<seq, ackedSeq, silence, timerId, phase, pings, hung, timedOut>>

(* resume sets no timer: after stop it leaves the watchdog active with none. *)
Resume ==
    /\ silence' = 0 /\ isActive' = TRUE
    /\ watched' = 0
    /\ UNCHANGED <<seq, ackedSeq, timerId, phase, pings, hung, timedOut>>

Stop ==
    /\ isActive' = FALSE /\ timerId' = FALSE /\ phase' = 0
    /\ watched' = 0
    /\ UNCHANGED <<seq, ackedSeq, silence, pings, hung, timedOut>>

TickDue == timerId /\ phase = Interval

(* tick.  A ping to a hung worker is lost.                                 *)
TickPaused ==
    /\ TickDue /\ ~isActive
    /\ phase' = 0
    /\ UNCHANGED <<seq, ackedSeq, silence, timerId, isActive, pings, hung, watched, timedOut>>

TickTimeout ==
    /\ TickDue /\ isActive /\ silence >= Timeout
    /\ timedOut' = TRUE /\ isActive' = FALSE /\ timerId' = FALSE /\ phase' = 0
    /\ watched' = 0
    /\ UNCHANGED <<seq, ackedSeq, silence, pings, hung>>

\* Mutant: issuing a ping counts as a sign of life.
TickPingRefreshes ==
    /\ TickDue /\ isActive /\ silence < Timeout /\ seq < MaxSeq
    /\ phase' = 0 /\ silence' = 0
    /\ seq' = seq + 1
    /\ pings' = IF hung THEN pings ELSE Append(pings, [seq |-> seq + 1, age |-> 0])
    /\ UNCHANGED <<ackedSeq, timerId, isActive, hung, watched, timedOut>>

TickPing ==
    /\ TickDue /\ isActive /\ silence < Timeout /\ seq < MaxSeq
    /\ phase' = 0
    /\ seq' = seq + 1
    /\ pings' = IF hung THEN pings ELSE Append(pings, [seq |-> seq + 1, age |-> 0])
    /\ UNCHANGED <<ackedSeq, silence, timerId, isActive, hung, watched, timedOut>>

\* Mutant: only the pong of the newest ping counts.
AcceptsNewestOnly(s) == s = seq

Accepts(s) == s > ackedSeq /\ s <= seq

(* The worker answers its oldest ping (cmdPing) and handlePong takes it.   *)
HandlePong ==
    /\ pings # <<>> /\ ~hung
    /\ pings' = Tail(pings)
    /\ IF Accepts(Head(pings).seq)
       THEN ackedSeq' = Head(pings).seq /\ silence' = 0
       ELSE UNCHANGED <<ackedSeq, silence>>
    /\ UNCHANGED <<seq, timerId, phase, isActive, hung, watched, timedOut>>

(* External: the worker stops answering.                                   *)
Hang ==
    /\ ~hung
    /\ hung' = TRUE /\ pings' = <<>>
    /\ UNCHANGED <<seq, ackedSeq, silence, timerId, phase, isActive, watched, timedOut>>

PongDue == ~hung /\ pings # <<>> /\ Head(pings).age >= MaxDelay

Elapse ==
    /\ ~TickDue /\ ~PongDue
    /\ silence' = IF silence < Timeout + Interval THEN silence + 1 ELSE silence
    /\ phase' = IF timerId THEN phase + 1 ELSE phase
    /\ pings' = [i \in DOMAIN pings |-> [pings[i] EXCEPT !.age = @ + 1]]
    /\ watched' = IF hung /\ isActive /\ watched < Timeout + Interval THEN watched + 1 ELSE watched
    /\ UNCHANGED <<seq, ackedSeq, timerId, isActive, hung, timedOut>>

Next == \/ Start \/ Pause \/ Resume \/ Stop
        \/ TickPaused \/ TickTimeout \/ TickPing
        \/ HandlePong \/ Hang \/ Elapse
Spec == Init /\ [][Next]_vars

-----------------------------------------------------------------------------
(* A live worker that answers within MaxDelay is never given up, however    *)
(* its pongs are delayed past newer pings and whenever the VM is paused,    *)
(* resumed or restarted: strict equality "caused false-positive termination *)
(* under normal worker scheduling jitter" (vm_runtime.js:71-76).            *)
NoFalseKill == timedOut => hung

(* A watchdog that was resumed after it was stopped: nothing fires, so it    *)
(* pings nobody and gives nobody up until it is started.                     *)
Unwatched == isActive /\ ~timerId

(* A worker that hangs under an active watchdog is given up within Timeout  *)
(* plus one Interval, although pings keep being issued to it.  The one      *)
(* exception is Unwatched (vm_runtime.js:88-91 after :93-99).               *)
HangDetected == Unwatched \/ watched < Timeout + Interval

=============================================================================
