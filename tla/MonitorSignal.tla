---------------------------- MODULE MonitorSignal ----------------------------
(***************************************************************************)
(* The signal layer of libmonitor (src/monitor/src/signal.c), with what    *)
(* pthread.c and fork.c do to dispositions and masks: monitor catches      *)
(* every signal itself, keeps the application's dispositions in a table,   *)
(* and must keep one signal open in every thread for the shootdown.        *)
(*                                                                         *)
(* What a thread is doing is a stack of frames: the thread's own code at   *)
(* the bottom, a frame of monitor_signal_handler or of the shootdown       *)
(* handler on top of whatever a signal interrupted.  A signal that is not  *)
(* blocked may arrive at any time, so pending signals need no variable.    *)
(***************************************************************************)
EXTENDS Naturals, FiniteSets, SequencesExt

CONSTANTS
    Thread, Main, NoThread,
    Sig, NoSig,
    Avoid,         \* monitor_signal_avoid_list
    Invalid,       \* signals whose sigaction the kernel refuses
    NoTerm,        \* monitor_signal_noterm_list
    NoRaise,       \* monitor_signal_noraise_list
    Stopping,      \* monitor_signal_stop_list
    OpenList,      \* monitor_signal_open_list, from configure
    Candidates,    \* the real-time signals, then monitor_extra_list
    LastResort,    \* last_resort_signal
    FromEnv,       \* values of MONITOR_SHOOTDOWN_SIGNAL (NoSig: not set)
    FromConfig,    \* MONITOR_CONFIG_SHOOTDOWN_SIGNAL, or NoSig
    SystemIgnores, \* the signals that system ignores
    SystemBlocks,  \* the signal that system blocks
    ClientSig,     \* the signals for which the client registers a handler
    Handler, NoHandler,   \* the application's handlers
    Act,           \* the actions that the application asks for, for each signal
    MaskOf,        \* the sets of signals that the application blocks
    InheritedMask, \* the masks that the first image may start with
    InheritedIgn,  \* the sets of signals that it may find ignored
    MaxCalls,      \* bound: calls that the application and the client make
    MaxFrames      \* bound: handlers that run at one time

Disposition == {"dfl", "ign"} \cup Handler

ASSUME SignalAssumption ==
    /\ Main \in Thread /\ NoThread \notin Thread /\ NoSig \notin Sig
    /\ {Avoid, Invalid, NoTerm, NoRaise, Stopping, OpenList, SystemIgnores, SystemBlocks,
        ClientSig} \subseteq SUBSET Sig
    /\ Candidates \in Seq(Sig) /\ LastResort \in Sig \ Avoid
    /\ FromEnv \subseteq Sig \cup {NoSig} /\ FromConfig \in Sig \cup {NoSig}
    /\ SystemIgnores \cap (Avoid \cup Invalid) = {}
    /\ {"dfl", "ign", "monitor", "shootdown", NoHandler} \cap Handler = {}
    /\ Act \in [Sig -> SUBSET [hand : Disposition, mask : SUBSET Sig]]
    /\ InheritedIgn \subseteq SUBSET Sig
    /\ MaskOf \subseteq SUBSET Sig /\ InheritedMask \subseteq SUBSET Sig
    /\ MaxCalls \in Nat /\ MaxFrames \in Nat

VARIABLES
    shoot,     \* shootdown_signal
    keepOpen,  \* the signals with mse_keep_open
    appl,      \* mse_appl_act: the application's disposition and mask
    kernAct,   \* mse_kern_act.sa_mask
    kern,      \* what the kernel has: who catches a signal, and the mask
    client,    \* the signals with mse_client_handler
    mask,      \* signal mask of each thread
    th,        \* stack of frames of each thread, empty if it has not started
    status,    \* "up", "exiting" (exit or exec), "signalled" or "dead"
    winner,    \* the thread that won the end of the process, or NoThread
    over,      \* monitor_fini_thread_done and monitor_fini_process_done
    calls,     \* calls made so far (a bound)
    inherited, \* history: the mask with which this image started
    tangled,   \* history: the signals about which two calls have overlapped
    late,      \* history: those the client took in the course of a sigprocmask
    loose      \* history: those given an action while a handler reads theirs

tableVars == <<shoot, keepOpen, appl, kernAct, kern, client>>
endVars == <<winner, over>>
histVars == <<inherited, tangled, late, loose>>
vars == <<tableVars, mask, th, status, endVars, calls, histVars>>

\* Fault: the avoid list is forgotten.
ManagedAll == Sig \ Invalid

\* The signals that are neither avoided nor invalid: monitor catches them.
Managed == Sig \ (Avoid \cup Invalid)
Fatal   == Sig \ (NoTerm \cup Stopping)

KernRecord == [by : {"monitor", "shootdown"} \cup Disposition, mask : SUBSET Sig]
ApplRecord == [hand : Disposition, mask : SUBSET Sig]
How        == {"block", "unblock", "setmask"}
CallLoc    == {"adjust", "install", "system"} \cup How
EndLoc     == {"ending", "winning", "reset", "bare"}
Loc        == {"run", "handler", "default", "apply", "fault", "fini", "late"}
                \cup CallLoc \cup EndLoc

\* sig: the signal that is handled; saved: the mask to return to; hand: the
\* application's handler that runs; on: the signal a call is about; set: the
\* set that sigprocmask has prepared; old: the locals of system.  The mask that
\* system restores is in saved.
Frame == [sig : Sig \cup {NoSig}, saved : SUBSET Sig, at : Loc,
          hand : Handler \cup {NoHandler}, on : Sig \cup {NoSig}, set : SUBSET Sig,
          old : [SystemIgnores -> KernRecord]]

NoOld == [s \in SystemIgnores |-> [by |-> "monitor", mask |-> {}]]
Base == [sig |-> NoSig, saved |-> {}, at |-> "run", hand |-> NoHandler,
         on |-> NoSig, set |-> {}, old |-> NoOld]

Top(t) == Last(th[t])
At(t, l) == th[t] # <<>> /\ Top(t).at = l /\ status # "dead"
SetTop(t, f) == th' = [th EXCEPT ![t][Len(th[t])] = f]
Goto(t, l) == SetTop(t, [Top(t) EXCEPT !.at = l])

-----------------------------------------------------------------------------
(***************************************************************************)
(* monitor_signal_init.                                                    *)
(***************************************************************************)

\* monitor_choose_shootdown_early.  It runs before the handlers are installed,
\* so no signal is known to be invalid yet, and its tests of mse_invalid pass.
ChooseShootdown(env) ==
    LET allowed(s) == s \in Sig \ (Avoid \cup Stopping)
        free(i)    == allowed(Candidates[i]) /\ Candidates[i] \notin OpenList
        first      == {i \in DOMAIN Candidates : free(i) /\ \A j \in 1..(i - 1) : ~free(j)}
    IN  CASE allowed(env) -> env
          [] ~allowed(env) /\ allowed(FromConfig) -> FromConfig
          [] OTHER -> IF first = {} THEN LastResort ELSE Candidates[CHOOSE i \in first : TRUE]

\* monitor_adjust_samask, on a set that a caller has prepared.
AdjustSamask(set) == set \cup {shoot}

\* What the tables hold in an image that starts with the dispositions inh.
Fresh(inh, env) ==
    LET sd == ChooseShootdown(env) IN
    [shoot    |-> sd,
     keepOpen |-> OpenList \cup {sd},
     appl     |-> [s \in Sig |-> [hand |-> inh[s], mask |-> {}]],
     kernAct  |-> [s \in Sig |-> IF s \in Avoid THEN {} ELSE {sd}],
     kern     |-> [s \in Sig |->
                     IF s \in Managed THEN [by |-> "monitor", mask |-> {sd}]
                                      ELSE [by |-> inh[s], mask |-> {}]]]

Init ==
    /\ \E ign \in InheritedIgn, env \in FromEnv :
         LET f == Fresh([s \in Sig |-> IF s \in ign THEN "ign" ELSE "dfl"], env) IN
         /\ shoot = f.shoot /\ keepOpen = f.keepOpen
         /\ appl = f.appl /\ kernAct = f.kernAct /\ kern = f.kern
    /\ client = {}
    /\ inherited \in InheritedMask
    /\ mask = [t \in Thread |-> IF t = Main THEN inherited ELSE {}]
    /\ th = [t \in Thread |-> IF t = Main THEN <<Base>> ELSE <<>>]
    /\ status = "up" /\ winner = NoThread /\ over = FALSE
    /\ calls = 0 /\ tangled = {} /\ late = {} /\ loose = {}

\* The application, or the client for it, makes one more call.
Call(t) ==
    /\ At(t, "run") /\ calls < MaxCalls
    /\ calls' = calls + 1

-----------------------------------------------------------------------------
(***************************************************************************)
(* sigaction and signal of the application; the client's sigaction.        *)
(***************************************************************************)

Frames == UNION {ToSet(th[t]) : t \in Thread}
InMaskCall == \E f \in Frames : f.at \in How
Reading(s) == \E f \in Frames : f.at \in {"default", "apply"} /\ f.sig = s
InCallOn(s) == \E f \in Frames : f.at \in {"adjust", "install"} /\ f.on = s
InSystem == \E f \in Frames : f.at = "system"
Overlapping(s) ==
    {r \in {s} : InCallOn(r) \/ (InSystem /\ r \in SystemIgnores)}

\* The first of three steps: the application's action is stored, its mask as it
\* is.  The entry is shared, and no lock protects it.
StoreAction(t, s, act) ==
    /\ Call(t)
    /\ s \in Managed
    /\ appl' = [appl EXCEPT ![s] = act]
    /\ kernAct' = [kernAct EXCEPT ![s] = act.mask]
    /\ SetTop(t, [Top(t) EXCEPT !.at = "adjust", !.on = s])
    /\ tangled' = tangled \cup Overlapping(s)
    /\ loose' = loose \cup {r \in {s} : Reading(r)}
    /\ UNCHANGED <<shoot, keepOpen, kern, client, mask, status, endVars, inherited, late>>

\* The mask for the kernel: without the signals that are kept open, and with
\* the shootdown signal.
AdjustAction(t) ==
    /\ At(t, "adjust")
    /\ kernAct' = [kernAct EXCEPT
                     ![Top(t).on] = AdjustSamask(@ \ (keepOpen \cap Managed))]
    /\ Goto(t, "install")
    /\ UNCHANGED <<shoot, keepOpen, appl, kern, client, mask, status, endVars, calls,
                   histVars>>

\* real_sigaction with what mse_kern_act is by now.
InstallAction(t) ==
    /\ At(t, "install")
    /\ kern' = [kern EXCEPT ![Top(t).on] =
                  [by |-> "monitor", mask |-> kernAct[Top(t).on]]]
    /\ SetTop(t, [Top(t) EXCEPT !.at = "run", !.on = NoSig])
    /\ UNCHANGED <<shoot, keepOpen, appl, kernAct, client, mask, status, endVars, calls,
                   histVars>>

\* Signals to avoid are the system's business.
AvoidAction(t, s, act) ==
    /\ Call(t)
    /\ s \in Avoid
    /\ kern' = [kern EXCEPT ![s] = [by |-> act.hand, mask |-> act.mask]]
    /\ UNCHANGED <<shoot, keepOpen, appl, kernAct, client, mask, th, status, endVars,
                   histVars>>

\* monitor_sigaction, with act or without.
ClientAction(t, s) ==
    /\ Call(t) /\ Len(th[t]) = 1
    /\ s \in Managed \cap ClientSig
    /\ keepOpen' = keepOpen \cup {s}
    /\ client' = client \cup {s}
    /\ \/ UNCHANGED <<kernAct, kern, tangled>>
       \/ \E m \in MaskOf :
            /\ kernAct' = [kernAct EXCEPT ![s] = AdjustSamask(m)]
            /\ kern' = [kern EXCEPT ![s] = [by |-> "monitor", mask |-> AdjustSamask(m)]]
            /\ tangled' = tangled \cup Overlapping(s)
    /\ late' = late \cup {r \in {s} \ keepOpen : InMaskCall}
    /\ UNCHANGED <<shoot, appl, mask, th, status, endVars, inherited, loose>>

-----------------------------------------------------------------------------
(***************************************************************************)
(* sigprocmask and pthread_sigmask; new threads.                           *)
(***************************************************************************)

\* Fault: SIG_SETMASK is left as it is.
RemoveClientSignalsNot(t, set, how) ==
    IF how = "setmask" THEN set ELSE set \ (keepOpen \cap Managed)

\* Fault: only the signals of the image's start are kept open.
RemoveClientSignalsOfStart(t, set, how) ==
    LET open == (OpenList \cup {shoot}) \cap Managed IN
    IF how = "setmask" THEN (set \ open) \cup (mask[t] \cap open) ELSE set \ open

\* monitor_remove_client_signals: what is left of the application's set.
RemoveClientSignals(t, set, how) ==
    LET open == keepOpen \cap Managed IN
    IF how = "setmask" THEN (set \ open) \cup (mask[t] \cap open) ELSE set \ open

\* The mask after the real sigprocmask.
NewMask(t, how, set) ==
    CASE how = "block"   -> mask[t] \cup set
      [] how = "unblock" -> mask[t] \ set
      [] how = "setmask" -> set

\* The set is prepared from what is kept open now; the real call comes later,
\* and a client may have another signal kept open in between.
Sigprocmask(t, how, set) ==
    /\ Call(t)
    /\ SetTop(t, [Top(t) EXCEPT !.at = how, !.set = RemoveClientSignals(t, set, how)])
    /\ UNCHANGED <<tableVars, mask, status, endVars, histVars>>

RealSigprocmask(t) ==
    /\ \E how \in How : At(t, how)
    /\ mask' = [mask EXCEPT ![t] = NewMask(t, Top(t).at, Top(t).set)]
    /\ SetTop(t, [Top(t) EXCEPT !.at = "run", !.set = {}])
    /\ UNCHANGED <<tableVars, status, endVars, calls, histVars>>

\* A new thread starts with the mask of its creator; pthread_create is not
\* called from a handler.
CreateThread(t, u) ==
    /\ At(t, "run") /\ Len(th[t]) = 1
    /\ th[u] = <<>>
    /\ th' = [th EXCEPT ![u] = <<Base>>]
    /\ mask' = [mask EXCEPT ![u] = mask[t]]
    /\ UNCHANGED <<tableVars, status, endVars, calls, histVars>>

-----------------------------------------------------------------------------
(***************************************************************************)
(* A signal arrives.                                                       *)
(***************************************************************************)

Running == UNION {{u} \X (2..Len(th[u])) : u \in Thread}

Push(t, s, m, l, hand) ==
    /\ Cardinality(Running) < MaxFrames
    /\ th' = [th EXCEPT ![t] = Append(@, [Base EXCEPT !.sig = s, !.saved = mask[t],
                                                      !.at = l, !.hand = hand])]
    /\ mask' = [mask EXCEPT ![t] = @ \cup m \cup {s}]

\* The handler returns to what it interrupted.
Pop(t) ==
    /\ th' = [th EXCEPT ![t] = Front(@)]
    /\ mask' = [mask EXCEPT ![t] = Top(t).saved]

Arrives(t, s) == th[t] # <<>> /\ s \notin mask[t] /\ status # "dead"

\* monitor_signal_handler is entered.
Deliver(t, s) ==
    /\ Arrives(t, s) /\ kern[s].by = "monitor"
    /\ Push(t, s, kern[s].mask, "handler", NoHandler)
    /\ UNCHANGED <<tableVars, status, endVars, calls, histVars>>

\* Fault: the handler does not ask whether it is too late.
DeliverShootdownLate(t, s) ==
    /\ Arrives(t, s) /\ kern[s].by = "shootdown"
    /\ Push(t, s, kern[s].mask, "fini", NoHandler)
    /\ UNCHANGED <<tableVars, status, endVars, calls, histVars>>

\* monitor_shootdown_handler is entered.  It calls fini-thread, unless it is too
\* late for that.
DeliverShootdown(t, s) ==
    /\ Arrives(t, s) /\ kern[s].by = "shootdown"
    /\ Push(t, s, kern[s].mask, IF over THEN "late" ELSE "fini", NoHandler)
    /\ UNCHANGED <<tableVars, status, endVars, calls, histVars>>

\* A signal that monitor does not manage, or that is not to be caught now.
DeliverRaw(t, s) ==
    /\ Arrives(t, s)
    /\ IF kern[s].by \in Handler
         THEN Push(t, s, kern[s].mask, "run", kern[s].by) /\ UNCHANGED status
         ELSE /\ kern[s].by = "dfl" /\ s \in Fatal
              /\ status' = "dead"
              /\ UNCHANGED <<th, mask>>
    /\ UNCHANGED <<tableVars, endVars, calls, histVars>>

\* The client has its turn first; with 0 it has dealt with the signal.  With
\* another answer the application's disposition is what the table has by then.
ClientAccepts(t) ==
    /\ At(t, "handler") /\ Top(t).sig \in client
    /\ Pop(t)
    /\ UNCHANGED <<tableVars, status, endVars, calls, histVars>>

\* Fault: the signals that do not terminate are forgotten.
DefaultEndsAny(s) == s \notin Stopping

\* Does the default action of the signal end the process?
DefaultEnds(s) == s \notin NoTerm \cup Stopping

\* The application's disposition is read where it is shared, once for each test
\* and once more for the call.
TestIgnore(t) ==
    /\ At(t, "handler")
    /\ \/ appl[Top(t).sig].hand = "ign" /\ Pop(t)
       \/ appl[Top(t).sig].hand # "ign" /\ Goto(t, "default") /\ UNCHANGED mask
    /\ UNCHANGED <<tableVars, status, endVars, calls, histVars>>

\* Its default is nothing, or a stop until the process is continued.
ApplyNothing(t) ==
    /\ At(t, "default")
    /\ appl[Top(t).sig].hand = "dfl" /\ ~DefaultEnds(Top(t).sig)
    /\ Pop(t)
    /\ UNCHANGED <<tableVars, status, endVars, calls, histVars>>

\* The end of the process begins: what follows is MonitorExit's.  It is not taken
\* back when an exec of another thread fails.
ApplyDefault(t) ==
    /\ At(t, "default")
    /\ appl[Top(t).sig].hand = "dfl" /\ DefaultEnds(Top(t).sig)
    /\ status' = "signalled"
    /\ Goto(t, "ending")
    /\ UNCHANGED <<tableVars, mask, endVars, calls, histVars>>

NotDefault(t) ==
    /\ At(t, "default")
    /\ appl[Top(t).sig].hand # "dfl"
    /\ Goto(t, "apply")
    /\ UNCHANGED <<tableVars, mask, status, endVars, calls, histVars>>

\* The handler is called, or what is no function, if by now there is none.
ApplyHandler(t) ==
    /\ At(t, "apply")
    /\ LET d == appl[Top(t).sig].hand IN
         \/ d \in Handler /\ SetTop(t, [Top(t) EXCEPT !.at = "run", !.hand = d])
         \/ d \notin Handler /\ Goto(t, "fault")
    /\ UNCHANGED <<tableVars, mask, status, endVars, calls, histVars>>

\* The kernel's signal for that is one that arrives, or ends the process at once.
Fault(t) ==
    /\ At(t, "fault")
    /\ status' = "dead"
    /\ UNCHANGED <<tableVars, mask, th, endVars, calls, histVars>>

\* The application's handler, or the shootdown handler, returns.
HandlerReturn(t) ==
    /\ At(t, "run") \/ At(t, "fini") \/ At(t, "late")
    /\ Len(th[t]) > 1
    /\ Pop(t)
    /\ UNCHANGED <<tableVars, status, endVars, calls, histVars>>

-----------------------------------------------------------------------------
(***************************************************************************)
(* system, exit and exec.                                                  *)
(***************************************************************************)

\* monitor_system up to the fork: dispositions are saved, then replaced.
System(t) ==
    /\ Call(t) /\ Len(th[t]) = 1
    /\ kern' = [s \in Sig |-> IF s \in SystemIgnores THEN [by |-> "ign", mask |-> {}]
                                                     ELSE kern[s]]
    /\ SetTop(t, [Top(t) EXCEPT !.at = "system", !.saved = mask[t],
                    !.old = [s \in SystemIgnores |-> kern[s]]])
    /\ mask' = [mask EXCEPT ![t] = @ \cup SystemBlocks]
    /\ tangled' = tangled \cup UNION {Overlapping(s) : s \in SystemIgnores}
    /\ UNCHANGED <<shoot, keepOpen, appl, kernAct, client, status, endVars, inherited,
                   late, loose>>

\* Fault: the mask is restored, the dispositions are not.
SystemReturnHalf(t) ==
    /\ At(t, "system")
    /\ mask' = [mask EXCEPT ![t] = Top(t).saved]
    /\ SetTop(t, [Top(t) EXCEPT !.at = "run", !.saved = {}, !.old = NoOld])
    /\ UNCHANGED <<tableVars, status, endVars, calls, histVars>>

\* The child has ended: what was saved is put back.
SystemReturn(t) ==
    /\ At(t, "system")
    /\ kern' = [s \in Sig |-> IF s \in SystemIgnores THEN Top(t).old[s] ELSE kern[s]]
    /\ mask' = [mask EXCEPT ![t] = Top(t).saved]
    /\ SetTop(t, [Top(t) EXCEPT !.at = "run", !.saved = {}, !.old = NoOld])
    /\ UNCHANGED <<shoot, keepOpen, appl, kernAct, client, status, endVars, calls, histVars>>

\* exit, exec or the default of a signal: the first thread to get here ends the
\* process.  monitor_thread_shootdown, if there have been threads, takes the
\* signal for its own handler, in the kernel only.  When the kernel refuses, the
\* process ends there.
Win(t) ==
    /\ At(t, "run") \/ At(t, "ending")
    /\ winner = NoThread
    /\ winner' = t
    /\ Goto(t, "winning")
    /\ LET threads == \E u \in Thread \ {Main} : th[u] # <<>> IN
       /\ status' = CASE threads /\ shoot \in Invalid -> "dead"
                      [] ~(threads /\ shoot \in Invalid) /\ status = "up" -> "exiting"
                      [] OTHER -> status
       /\ kern' = IF threads /\ shoot \notin Invalid
                  THEN [kern EXCEPT ![shoot] = [by |-> "shootdown", mask |-> {}]]
                  ELSE kern
    /\ UNCHANGED <<shoot, keepOpen, appl, kernAct, client, mask, over, calls, histVars>>

\* The callbacks are through: the thread goes on to the real exit or exec, or to
\* what its handler does next.
WinOver(t) ==
    /\ At(t, "winning")
    /\ over' = TRUE
    /\ Goto(t, IF Top(t).sig # NoSig /\ Top(t).hand = NoHandler THEN "ending" ELSE "run")
    /\ UNCHANGED <<tableVars, mask, status, winner, calls, histVars>>

\* The others wait for the winner, who does not wait for itself.
Through(t) == over \/ winner = t

\* exit or exec, once more in this image.
ExitAgain(t) ==
    /\ At(t, "run") /\ Through(t) /\ status = "up"
    /\ status' = "exiting"
    /\ UNCHANGED <<tableVars, mask, th, endVars, calls, histVars>>

\* The handler whose signal ends the process: first the default disposition.
ResetAction(t) ==
    /\ At(t, "ending") /\ Through(t)
    /\ kern' = [kern EXCEPT ![Top(t).sig] = [by |-> "dfl", mask |-> {}]]
    /\ Goto(t, "reset")
    /\ UNCHANGED <<shoot, keepOpen, appl, kernAct, client, mask, status, endVars, calls,
                   histVars>>

\* Then an empty mask, so that anything that was blocked arrives on top of it.
ClearMask(t) ==
    /\ At(t, "reset")
    /\ mask' = [mask EXCEPT ![t] = {}]
    /\ Goto(t, "bare")
    /\ UNCHANGED <<tableVars, status, endVars, calls, histVars>>

\* The signal is raised, which ends the process (DeliverRaw), unless another
\* thread has just set an action for it; or the handler returns to have it again.
\* If it was sent by kill it does not come again, and the process runs on.
ReturnBare(t) ==
    /\ At(t, "bare")
    /\ Top(t).sig \in NoRaise \/ kern[Top(t).sig].by # "dfl"
    /\ Pop(t)
    /\ UNCHANGED <<tableVars, status, endVars, calls, histVars>>

\* The real exit.
Die(t) ==
    /\ status \in {"exiting", "signalled"}
    /\ At(t, "run") /\ Through(t)
    /\ status' = "dead"
    /\ th' = [u \in Thread |-> <<>>]
    /\ UNCHANGED <<tableVars, mask, endVars, calls, histVars>>

\* The kernel keeps what is ignored, and forgets handlers: monitor's too.
KeptByExec == [s \in Sig |-> IF kern[s].by = "ign" THEN "ign" ELSE "dfl"]

\* A new image, in which monitor starts afresh with the mask of the caller: after
\* the end of the process or, when the file did not look executable, without it.
Exec(t) ==
    /\ At(t, "run")
    /\ \E env \in FromEnv :
         LET f == Fresh(KeptByExec, env) IN
         /\ shoot' = f.shoot /\ keepOpen' = f.keepOpen
         /\ appl' = f.appl /\ kernAct' = f.kernAct /\ kern' = f.kern
    /\ client' = {}
    /\ th' = [u \in Thread |-> IF u = Main THEN <<Base>> ELSE <<>>]
    /\ inherited' = mask[t]
    /\ mask' = [u \in Thread |-> IF u = Main THEN mask[t] ELSE {}]
    /\ status' = "up" /\ winner' = NoThread /\ over' = FALSE
    /\ tangled' = {} /\ late' = {} /\ loose' = {}
    /\ UNCHANGED calls

\* The exec fails and the process goes on, with the shootdown handler in place.
ExecFails(t) ==
    /\ status = "exiting" /\ At(t, "run") /\ Through(t)
    /\ status' = "up"
    /\ UNCHANGED <<tableVars, mask, th, endVars, calls, histVars>>

-----------------------------------------------------------------------------

CallStep(t) ==
    \/ \E s \in Sig : \E act \in Act[s] : StoreAction(t, s, act) \/ AvoidAction(t, s, act)
    \/ \E s \in Sig : ClientAction(t, s)
    \/ \E how \in How, set \in MaskOf : Sigprocmask(t, how, set)
    \/ \E u \in Thread : CreateThread(t, u)
    \/ System(t)

SignalStep(t) ==
    \/ \E s \in Sig : Deliver(t, s) \/ DeliverShootdown(t, s) \/ DeliverRaw(t, s)
    \/ ClientAccepts(t) \/ TestIgnore(t) \/ ApplyNothing(t) \/ ApplyDefault(t)
    \/ NotDefault(t) \/ ApplyHandler(t) \/ Fault(t) \/ HandlerReturn(t)

EndStep(t) ==
    \/ Win(t) \/ WinOver(t) \/ ExitAgain(t)
    \/ ResetAction(t) \/ ClearMask(t) \/ ReturnBare(t)
    \/ Die(t) \/ Exec(t) \/ ExecFails(t)

Next ==
    \/ \E t \in Thread :
         \/ CallStep(t) \/ SignalStep(t) \/ EndStep(t)
         \/ AdjustAction(t) \/ InstallAction(t) \/ RealSigprocmask(t) \/ SystemReturn(t)
    \/ status = "dead" /\ UNCHANGED vars

Spec == Init /\ [][Next]_vars

-----------------------------------------------------------------------------
(***************************************************************************)
(* Properties.                                                             *)
(***************************************************************************)

\* Types, and the shape of a stack: a thread's own code at the bottom, handlers
\* above it; system is never called by a handler, and the signals of the avoid
\* list never reach the handler of monitor.
TypeOK ==
    /\ shoot \in Sig /\ keepOpen \subseteq Sig /\ client \subseteq ClientSig
    /\ appl \in [Sig -> ApplRecord] /\ kernAct \in [Sig -> SUBSET Sig]
    /\ kern \in [Sig -> KernRecord]
    /\ \A s \in Avoid \cup Invalid : kern[s].by # "monitor"
    /\ mask \in [Thread -> SUBSET Sig]
    /\ \A set \in {inherited, tangled, late, loose} : set \subseteq Sig
    /\ winner \in Thread \cup {NoThread} /\ over \in BOOLEAN
    /\ status \in {"up", "exiting", "signalled", "dead"} /\ calls \in 0..MaxCalls
    /\ \A t \in Thread :
         /\ th[t] \in Seq(Frame)
         /\ \A i \in DOMAIN th[t] :
              /\ (i = 1) = (th[t][i].sig = NoSig)
              /\ th[t][i].at = "system" => i = 1
              /\ i < Len(th[t]) => th[t][i].at # "fini" \/ th[t][i + 1].sig # shoot

\* The mask in which a thread's own code runs, whatever interrupts it now.
BaseMask(t) ==
    CASE th[t][1].at = "system" -> th[t][1].saved
      [] th[t][1].at # "system" /\ Len(th[t]) = 1 -> mask[t]
      [] OTHER -> th[t][2].saved

\* No call of the application closes a thread to the shootdown, or to a signal
\* that configure reserves for the client: the mask of a thread's own code has
\* such a signal only if the image was started with it blocked.
ShootOpen ==
    \A t \in Thread : th[t] # <<>> =>
        BaseMask(t) \cap (OpenList \cup {shoot}) \cap Managed \subseteq inherited

\* A signal that is kept open for the client, and to which a thread is open, stays
\* open there as long as the image lasts, whatever calls and handlers follow: if
\* the client did not ask for it between the two steps of some sigprocmask.
Kept == (keepOpen \ late) \cap Managed
OpenStays ==
    [][ (\E t \in Thread, s \in Kept :
            th[t] # <<>> /\ th'[t] # <<>> /\ s \notin BaseMask(t) /\ s \in BaseMask(t)')
        => \E u \in Thread : Exec(u) ]_vars

\* The handler of monitor runs for signal s in a frame of thread t below frame i.
InsideHandler(t, i, s) == \E j \in 2..(i - 1) : th[t][j].sig = s

\* fini-thread is not called from inside another handler, as the comment above
\* monitor_adjust_samask wants it: for the signals that monitor catches, and
\* about which no two calls of sigaction have overlapped, and in the threads
\* other than the one that ends the process.
NoNestedFini ==
    \A t \in Thread \ {winner}, s \in Managed \ tangled : \A i \in 2..Len(th[t]) :
        ~(th[t][i].at = "fini" /\ InsideHandler(t, i, s))

\* After any sequence of sigaction, system, exit and failed exec the kernel has
\* for a signal what the table says: monitor's handler, with the mask that the
\* application asked for, except what is kept open, and the shootdown signal.
KernelAsTable ==
    (status = "up" /\ ~InSystem) =>
    \A s \in Managed \ tangled :
        \/ InCallOn(s)
        \/ kern[s].by = "shootdown" /\ s = shoot
        \/ /\ kern[s].by = "monitor" /\ kern[s].mask = kernAct[s]
           /\ shoot \in kernAct[s]
           /\ s \notin client =>
                kernAct[s] \in {AdjustSamask(appl[s].mask \ k) : k \in SUBSET keepOpen}

\* The frames of a stack in which a handler of the application runs, and of
\* them the k-th from the bottom: one frame, if there are as many.
HandlerFrames(st) == {i \in DOMAIN st : st[i].hand # NoHandler}
Nth(st, k) == {i \in HandlerFrames(st) : Cardinality(HandlerFrames(st) \cap 1..i) = k}

\* The handlers of the application that run, from the bottom up.
AsSeen(f) == [sig |-> f.sig, hand |-> f.hand]
Handlers(st) == [k \in 1..Cardinality(HandlerFrames(st)) |->
                    CHOOSE h \in {AsSeen(st[i]) : i \in Nth(st, k)} : TRUE]

\* The disposition that the application has asked for, and its handlers.
ApplDisp  == [s \in Sig |-> IF s \in Managed THEN appl[s].hand ELSE kern[s].by]
ApplStack == [t \in Thread |-> Handlers(th[t])]

View == INSTANCE SignalView WITH disp <- ApplDisp, stack <- ApplStack

\* What the application sees is a process without monitor: a handler runs only
\* while it is the disposition, and a signal ends the process only when its
\* disposition is the default and its default action says so, or when the
\* disposition was changed just as a handler was about to act on it.
ImplementsSignals == View!Spec
=============================================================================
