----------------------------- MODULE TimerGate -----------------------------
(***************************************************************************)
(* engine/timer_gate.go: a Go timer with the time it is set for, and a     *)
(* goroutine that turns each tick of it into a signal for the queue.       *)
(*                                                                         *)
(*   active  isActive: set, and no tick handled since                      *)
(*   armed   the Go timer is pending                                       *)
(*   wake    nextWakeupTime                                                *)
(*   tick    a tick is in timer.C, the goroutine has not taken it          *)
(*   signal  fireChan, of capacity one, is full                            *)
(*                                                                         *)
(* Stopping or resetting a timer (of a Go before 1.23) leaves in timer.C   *)
(* what is there, and nothing ever empties fireChan but the queue.         *)
(***************************************************************************)
EXTENDS Naturals

NewGate == [active |-> FALSE, armed |-> FALSE, wake |-> 0, tick |-> FALSE, signal |-> FALSE]

IsActive(gate) == gate.active

(* Faulty variant: the time of an active gate is not looked at. *)
InactiveOnly(gate, t) == ~gate.active

InactiveOrFireAfter(gate, t) == ~gate.active \/ gate.wake > t

(* Update: a pending timer that is set for an earlier time stays. *)
Update(gate, t) ==
    IF gate.armed /\ gate.wake < t
    THEN [gate EXCEPT !.active = TRUE]
    ELSE [gate EXCEPT !.active = TRUE, !.armed = TRUE, !.wake = t]

Stop(gate) == [gate EXCEPT !.active = FALSE, !.armed = FALSE]

(* The Go timer expires into timer.C; the goroutine takes the tick. *)
Due(gate, now) == gate.armed /\ gate.wake <= now
Expire(gate) == [gate EXCEPT !.armed = FALSE, !.tick = TRUE]
Forward(gate) == [gate EXCEPT !.tick = FALSE, !.active = FALSE, !.signal = TRUE]

Received(gate) == [gate EXCEPT !.signal = FALSE]

(* The gate will signal, without anybody's help, once it is t. *)
WillSignalBy(gate, t) == gate.signal \/ gate.tick \/ (gate.armed /\ gate.wake <= t)
=============================================================================
