----------------------------- MODULE SignalView -----------------------------
(***************************************************************************)
(* Signals as the application sees them when nothing sits between it and   *)
(* the kernel: one disposition per signal, handlers that nest and return,  *)
(* and a process that a signal ends only when its disposition says so.  One *)
(* departure is allowed for: to change the disposition of a signal may be  *)
(* unsafe while a signal of that kind is on its way to the handler.        *)
(***************************************************************************)
EXTENDS Naturals, Sequences

CONSTANTS Thread, Sig, Handler,
          Fatal      \* the signals whose default action ends the process

VARIABLES
    disp,      \* "dfl", "ign" or a handler, for each signal
    stack,     \* the application's handlers that are running in each thread
    status,    \* "up", "exiting", "signalled" or "dead"
    loose      \* the signals whose disposition was changed at a bad time

vars == <<disp, stack, status, loose>>

Init ==
    /\ disp \in [Sig -> {"dfl", "ign"}]
    /\ stack = [t \in Thread |-> <<>>]
    /\ status = "up" /\ loose = {}

SetDisposition == \E s \in Sig, d \in {"dfl", "ign"} \cup Handler :
    /\ disp' = [disp EXCEPT ![s] = d]
    /\ loose' \in {loose, loose \cup {s}}
    /\ UNCHANGED <<stack, status>>

Handle(t, s) ==
    /\ disp[s] \in Handler
    /\ stack' = [stack EXCEPT ![t] = Append(@, [sig |-> s, hand |-> disp[s]])]
    /\ UNCHANGED <<disp, status, loose>>

Return(t) ==
    /\ stack[t] # <<>>
    /\ stack' = [stack EXCEPT ![t] = SubSeq(@, 1, Len(@) - 1)]
    /\ UNCHANGED <<disp, status, loose>>

\* exit, or a signal whose default action ends the process and whose disposition
\* is the default.
Exit ==
    /\ status = "up"
    /\ status' \in {"exiting", "dead"}
    /\ UNCHANGED <<disp, stack, loose>>

Strike(s) ==
    /\ s \in Fatal /\ disp[s] = "dfl" /\ status # "dead"
    /\ status' \in {"signalled", "dead"}
    /\ UNCHANGED <<disp, stack, loose>>

\* The handler of a signal is called when there is none any more.
Crash ==
    /\ loose # {} /\ status' = "dead"
    /\ UNCHANGED <<disp, stack, loose>>

\* What is left of the stacks then is of no interest.
Die ==
    /\ status \in {"exiting", "signalled"} /\ status' = "dead"
    /\ stack' \in {stack, [t \in Thread |-> <<>>]}
    /\ UNCHANGED <<disp, loose>>

\* exec, which may fail.  In a new image there are no handlers; what is ignored
\* there is not promised to be what was ignored before.
Exec ==
    /\ status # "dead" /\ status' = "up"
    /\ \/ UNCHANGED <<disp, stack, loose>>
       \/ /\ disp' \in [Sig -> {"dfl", "ign"}]
          /\ stack' = [t \in Thread |-> <<>>] /\ loose' = {}

Next ==
    \/ SetDisposition
    \/ \E t \in Thread, s \in Sig : Handle(t, s)
    \/ \E t \in Thread : Return(t)
    \/ Exit \/ Crash \/ Die \/ Exec
    \/ \E s \in Sig : Strike(s)

Spec == Init /\ [][Next]_vars
=============================================================================
