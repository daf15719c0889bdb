------------------------- MODULE MonitorSignalProofs -------------------------
(***************************************************************************)
(* Proofs about MonitorSignal, for any threads, signals, lists and         *)
(* handlers: what a thread is closed to, whatever calls and handlers nest  *)
(* and whatever images follow; then what the kernel has against what the   *)
(* table says, and which handlers nest, for signals no two calls raced on. *)
(***************************************************************************)
EXTENDS MonitorSignal, SequenceTheorems, TLAPS

-----------------------------------------------------------------------------
(* What the constants are, and the choice of the shootdown signal. *)

LEMMA Constants ==
  /\ Main \in Thread /\ NoSig \notin Sig /\ NoHandler \notin Handler
  /\ Managed \subseteq Sig /\ SystemIgnores \subseteq Managed /\ OpenList \subseteq Sig
  /\ SystemBlocks \subseteq Sig /\ ClientSig \subseteq Sig
  /\ \A set \in MaskOf \cup InheritedMask : set \subseteq Sig
  /\ \A s \in Sig : \A act \in Act[s] : act.hand \in Disposition /\ act.mask \subseteq Sig
  /\ "monitor" \notin Disposition /\ "shootdown" \notin Disposition
  /\ MaxCalls \in Nat /\ NoThread \notin Thread
BY SignalAssumption DEF Managed, Disposition

LEMMA ChoiceFacts ==
  ASSUME NEW env \in FromEnv
  PROVE  ChooseShootdown(env) \in Sig \ Avoid
<1> DEFINE allowed(s) == s \in Sig \ (Avoid \cup Stopping)
           free(i)    == allowed(Candidates[i]) /\ Candidates[i] \notin OpenList
           first      == {i \in DOMAIN Candidates :
                            free(i) /\ \A j \in 1..(i - 1) : ~free(j)}
<1>1. CASE first = {}
  BY <1>1, SignalAssumption DEF ChooseShootdown
<1>2. CASE first # {}
  <2>1. (CHOOSE i \in first : TRUE) \in first
    BY <1>2
  <2>2. Candidates[CHOOSE i \in first : TRUE] \in Sig \ Avoid
    BY <2>1
  <2> HIDE DEF first
  <2> QED
    BY <2>2, <1>2 DEF ChooseShootdown, first
<1> QED
  BY <1>1, <1>2

-----------------------------------------------------------------------------
(* The invariant, one thread at a time.  A thread is a stack st of frames and *)
(* the mask m in which its top frame runs.                                    *)

\* The mask in which a thread's own code runs.
BaseOf(st, m) ==
    IF st[1].at = "system" THEN st[1].saved
    ELSE IF Len(st) = 1 THEN m ELSE st[2].saved

\* The mask in which frame i runs, or ran until a signal interrupted it.
MaskIn(st, m, i) == IF i = Len(st) THEN m ELSE st[i + 1].saved

\* What system puts back for signal s, when sd is the shootdown signal.
OldOK(k, s, sd) ==
    /\ k.by \in {"monitor", "shootdown", "ign", "dfl"}
    /\ k.by = "shootdown" => s = sd /\ s \in Managed

\* Where only a handler can be.
HandlerLoc == {"handler", "default", "apply", "fault", "fini", "late",
               "ending", "reset", "bare"}

\* Whose code a frame is: monitor's, a handler's of the application, or the
\* thread's own.
HandOK(f) ==
    /\ f.at \in HandlerLoc => f.sig # NoSig /\ f.hand = NoHandler
    /\ f.sig = NoSig => f.hand = NoHandler
    /\ f.at \in CallLoc \cup {"run"} /\ f.sig # NoSig => f.hand # NoHandler

\* What frame i may be: the thread's own code, or a handler above it.
FrameOK(f, i, sd) ==
    /\ i = 1 <=> f.sig = NoSig
    /\ HandOK(f)
    /\ f.at = "system" => /\ i = 1
                          /\ \A s \in SystemIgnores : OldOK(f.old[s], s, sd)
    /\ f.at \in {"adjust", "install"} => f.on \in Managed

\* A set that sigprocmask has prepared leaves the signals of kp as they are in m.
SetOK(f, m, kp) ==
    /\ f.at \in {"block", "unblock"} => f.set \cap kp = {}
    /\ f.at = "setmask" => f.set \cap kp = m \cap kp

\* Shootdown handlers are not interrupted by the shootdown signal, and nothing that
\* stays open, which is kp, is in a set that is about to be applied.
StackOK(st, m, sd, kp) ==
    /\ \A i \in 1..Len(st) : FrameOK(st[i], i, sd)
    /\ \A i \in 1..Len(st) : st[i].at = "fini" => sd \in MaskIn(st, m, i)
    /\ \A i \in 1..Len(st) : st[i].at = "fini" /\ i < Len(st) => st[i + 1].sig # sd
    /\ \A i \in 1..Len(st) : SetOK(st[i], MaskIn(st, m, i), kp)

\* The thread's own code is open to what is reserved, but for what it inherited.
OpenOK(st, m, sd, inh) ==
    st # <<>> => BaseOf(st, m) \cap (OpenList \cup {sd}) \cap Managed \subseteq inh

TableTypes ==
    /\ shoot \in Sig \ Avoid
    /\ OpenList \cup {shoot} \subseteq keepOpen \ late /\ keepOpen \subseteq Sig
    /\ client \subseteq ClientSig
    /\ appl \in [Sig -> ApplRecord] /\ kernAct \in [Sig -> SUBSET Sig]
    /\ kern \in [Sig -> KernRecord]
    /\ \A set \in {inherited, tangled, late, loose} : set \subseteq Sig
    /\ winner \in Thread \cup {NoThread} /\ over \in BOOLEAN
    /\ status \in {"up", "exiting", "signalled", "dead"} /\ calls \in 0..MaxCalls

\* Who may catch a signal.
KernPart ==
    /\ \A s \in Managed : kern[s].by \in {"monitor", "shootdown", "ign", "dfl"}
    /\ \A s \in Sig : kern[s].by = "monitor" => s \in Managed
    /\ \A s \in Sig : kern[s].by = "shootdown" => s = shoot /\ s \in Managed

StacksOK ==
    /\ mask \in [Thread -> SUBSET Sig]
    /\ th \in [Thread -> Seq(Frame)]
    /\ \A t \in Thread : StackOK(th[t], mask[t], shoot, Kept)
    /\ \A t \in Thread : OpenOK(th[t], mask[t], shoot, inherited)

SignalInv == TableTypes /\ KernPart /\ StacksOK

-----------------------------------------------------------------------------
(* Stacks. *)

LEMMA BaseIsMask ==
  ASSUME NEW t \in Thread, th[t] \in Seq(Frame)
  PROVE  BaseMask(t) = BaseOf(th[t], mask[t])
BY DEF BaseMask, BaseOf

LEMMA StackFacts ==
  ASSUME NEW st \in Seq(Frame), st # <<>>
  PROVE  /\ Len(st) \in Nat \ {0} /\ Last(st) = st[Len(st)] /\ Last(st) \in Frame
         /\ \A i \in 1..Len(st) : st[i] \in Frame
<1>1. Len(st) \in Nat \ {0}
  BY EmptySeq
<1>2. \A i \in 1..Len(st) : st[i] \in Frame
  BY ElementOfSeq
<1>3. Len(st) \in 1..Len(st)
  BY <1>1
<1>4. Last(st) = st[Len(st)]
  BY DEF Last
<1> QED
  BY <1>1, <1>2, <1>3, <1>4

\* The three ways in which a stack changes.
Replaced(st, new, f) ==
    /\ new \in Seq(Frame) /\ new # <<>> /\ Len(new) = Len(st) /\ new[Len(st)] = f
    /\ \A i \in 1..Len(st) : i # Len(st) => new[i] = st[i]

Pushed(st, new, f) ==
    /\ new \in Seq(Frame) /\ new # <<>> /\ Len(new) = Len(st) + 1 /\ new[Len(st) + 1] = f
    /\ \A i \in 1..Len(st) : new[i] = st[i]

Popped(st, new) ==
    /\ new \in Seq(Frame) /\ new # <<>> /\ Len(new) = Len(st) - 1
    /\ \A i \in 1..(Len(st) - 1) : new[i] = st[i]

LEMMA ReplaceFacts ==
  ASSUME NEW st \in Seq(Frame), st # <<>>, NEW f \in Frame
  PROVE  Replaced(st, [st EXCEPT ![Len(st)] = f], f)
<1> DEFINE new == [st EXCEPT ![Len(st)] = f]
<1>1. Len(st) \in 1..Len(st)
  BY StackFacts
<1>2. /\ new \in Seq(Frame) /\ Len(new) = Len(st)
      /\ \A i \in 1..Len(st) : new[i] = IF i = Len(st) THEN f ELSE st[i]
  BY <1>1, ExceptSeq
<1> HIDE DEF new
<1>3. new # <<>>
  BY <1>1, <1>2, EmptySeq
<1> QED
  BY <1>1, <1>2, <1>3, Zenon DEF Replaced, new

LEMMA PushFacts ==
  ASSUME NEW st \in Seq(Frame), NEW f \in Frame
  PROVE  Pushed(st, Append(st, f), f)
BY AppendProperties DEF Pushed

LEMMA PopFacts ==
  ASSUME NEW st \in Seq(Frame), Len(st) > 1
  PROVE  Popped(st, Front(st))
<1>1. Len(st) \in Nat /\ \A i \in 1..Len(st) : st[i] \in Frame
  BY LenProperties, ElementOfSeq
<1>2. \A i \in 1..(Len(st) - 1) : st[i] \in Frame
  BY <1>1
<1>3. /\ SubSeq(st, 1, Len(st) - 1) \in Seq(Frame)
      /\ Len(SubSeq(st, 1, Len(st) - 1)) = Len(st) - 1
      /\ \A i \in 1..(Len(st) - 1) : SubSeq(st, 1, Len(st) - 1)[i] = st[i]
  BY <1>1, <1>2, SubSeqProperties
<1>4. SubSeq(st, 1, Len(st) - 1) # <<>>
  BY <1>1, <1>3, EmptySeq
<1> QED
  BY <1>3, <1>4 DEF Popped, Front

LEMMA PushKeeps ==
  ASSUME NEW st \in Seq(Frame), st # <<>>, NEW new, NEW f \in Frame, Pushed(st, new, f),
         NEW m, NEW m2, NEW sd, NEW kp, StackOK(st, m, sd, kp), f.saved = m, f.sig \notin m,
         FrameOK(f, Len(st) + 1, sd), f.at = "fini" => sd \in m2, f.at \notin How
  PROVE  StackOK(new, m2, sd, kp) /\ BaseOf(new, m2) = BaseOf(st, m)
<1>1. Len(st) \in Nat \ {0} /\ Len(new) = Len(st) + 1
  BY StackFacts DEF Pushed
<1>2. /\ \A i \in 1..Len(st) : new[i] = st[i]
      /\ new[Len(st) + 1] = f
  BY DEF Pushed
<1>3. \A i \in 1..Len(st) : MaskIn(new, m2, i) = MaskIn(st, m, i)
  BY <1>1, <1>2 DEF MaskIn
<1>4. MaskIn(new, m2, Len(st) + 1) = m2
  BY <1>1 DEF MaskIn
<1>5. ASSUME NEW i \in 1..Len(new)
      PROVE  FrameOK(new[i], i, sd)
  <2>1. CASE i \in 1..Len(st)
    BY <1>2, <2>1 DEF StackOK
  <2>2. CASE i = Len(st) + 1
    BY <1>2, <2>2
  <2> QED
    BY <1>1, <2>1, <2>2
<1>6. ASSUME NEW i \in 1..Len(new), new[i].at = "fini"
      PROVE  sd \in MaskIn(new, m2, i)
  <2>1. CASE i \in 1..Len(st)
    BY <1>2, <1>3, <1>6, <2>1 DEF StackOK
  <2>2. CASE i = Len(st) + 1
    BY <1>2, <1>4, <1>6, <2>2
  <2> QED
    BY <1>1, <2>1, <2>2
<1>7. ASSUME NEW i \in 1..Len(new), new[i].at = "fini", i < Len(new)
      PROVE  new[i + 1].sig # sd
  <2>1. i \in 1..Len(st) /\ st[i].at = "fini"
    BY <1>1, <1>2, <1>7
  <2>2. CASE i < Len(st)
    BY <1>1, <1>2, <2>1, <2>2 DEF StackOK
  <2>3. CASE i = Len(st)
    <3>1. sd \in m
      BY <2>1, <2>3 DEF StackOK, MaskIn
    <3> QED
      BY <1>2, <2>3, <3>1
  <2> QED
    BY <1>1, <2>1, <2>2, <2>3
<1>10. ASSUME NEW i \in 1..Len(new)
       PROVE  SetOK(new[i], MaskIn(new, m2, i), kp)
  <2>1. CASE i \in 1..Len(st)
    BY <1>2, <1>3, <2>1 DEF StackOK
  <2>2. CASE i = Len(st) + 1
    BY <1>2, <2>2 DEF SetOK, How
  <2> QED
    BY <1>1, <2>1, <2>2
<1>8. StackOK(new, m2, sd, kp)
  BY <1>5, <1>6, <1>7, <1>10 DEF StackOK
<1>9. BaseOf(new, m2) = BaseOf(st, m)
  <2>1. new[1] = st[1] /\ Len(new) # 1
    BY <1>1, <1>2
  <2>2. CASE Len(st) = 1
    BY <1>2, <2>1, <2>2 DEF BaseOf
  <2>3. CASE Len(st) # 1
    <3>1. 2 \in 1..Len(st)
      <4>1. ASSUME NEW k \in Nat \ {0}, k # 1
            PROVE  2 \in 1..k
        BY <4>1
      <4> QED
        BY <1>1, <2>3, <4>1
    <3>2. new[2] = st[2]
      BY <1>2, <3>1
    <3> QED
      BY <2>1, <2>3, <3>2, Zenon DEF BaseOf
  <2> QED
    BY <2>2, <2>3
<1> QED
  BY <1>8, <1>9

LEMMA PopKeeps ==
  ASSUME NEW st \in Seq(Frame), NEW new, Len(st) > 1, Popped(st, new),
         NEW m, NEW m2, NEW sd, NEW kp, StackOK(st, m, sd, kp), m2 = st[Len(st)].saved
  PROVE  StackOK(new, m2, sd, kp) /\ BaseOf(new, m2) = BaseOf(st, m)
<1>1. Len(st) \in Nat \ {0, 1} /\ Len(new) = Len(st) - 1
  BY LenProperties DEF Popped
<1>2. \A i \in 1..Len(new) : i \in 1..Len(st) /\ new[i] = st[i]
  BY <1>1 DEF Popped
<1>3. \A i \in 1..Len(new) : MaskIn(new, m2, i) = MaskIn(st, m, i)
  BY <1>1, <1>2 DEF MaskIn
<1>4. \A i \in 1..Len(new) : FrameOK(new[i], i, sd)
  BY <1>2 DEF StackOK
<1>5. \A i \in 1..Len(new) : new[i].at = "fini" => sd \in MaskIn(new, m2, i)
  BY <1>2, <1>3 DEF StackOK
<1>6. ASSUME NEW i \in 1..Len(new), new[i].at = "fini", i < Len(new)
      PROVE  new[i + 1].sig # sd
  <2>1. i + 1 \in 1..Len(new) /\ i < Len(st)
    BY <1>1, <1>6
  <2>2. new[i] = st[i] /\ new[i + 1] = st[i + 1] /\ i \in 1..Len(st)
    BY <1>2, <2>1
  <2> QED
    BY <1>6, <2>1, <2>2 DEF StackOK
<1>7. BaseOf(new, m2) = BaseOf(st, m)
  <2>1. new[1] = st[1] /\ Len(st) # 1
    <3>1. 1 \in 1..Len(new)
      BY <1>1
    <3> QED
      BY <1>1, <1>2, <3>1
  <2>2. CASE Len(st) = 2
    BY <1>1, <2>1, <2>2 DEF BaseOf
  <2>3. CASE Len(st) # 2
    <3>1. new[2] = st[2] /\ Len(new) # 1
      BY <1>1, <1>2, <2>3
    <3> QED
      BY <2>1, <3>1 DEF BaseOf
  <2> QED
    BY <2>2, <2>3
<1>8. \A i \in 1..Len(new) : SetOK(new[i], MaskIn(new, m2, i), kp)
  BY <1>2, <1>3 DEF StackOK
<1> QED
  BY <1>4, <1>5, <1>6, <1>7, <1>8 DEF StackOK

\* A frame that may take the place of the top frame.
Replaces(st, f, sd) ==
    /\ f.sig = st[Len(st)].sig /\ f.at # "fini" /\ FrameOK(f, Len(st), sd)
    /\ Len(st) # 1 => f.saved = st[Len(st)].saved

LEMMA ReplaceKeeps ==
  ASSUME NEW st \in Seq(Frame), st # <<>>, NEW new, NEW f, Replaced(st, new, f),
         NEW m, NEW m2, NEW sd, NEW kp, StackOK(st, m, sd, kp), Replaces(st, f, sd),
         SetOK(f, m2, kp)
  PROVE  StackOK(new, m2, sd, kp) /\ (Len(st) # 1 => BaseOf(new, m2) = BaseOf(st, m))
<1>1. Len(st) \in Nat \ {0} /\ Len(new) = Len(st) /\ new[Len(st)] = f
  BY StackFacts DEF Replaced
<1>2. \A i \in 1..Len(st) : i # Len(st) => new[i] = st[i]
  BY DEF Replaced
<1>0. /\ f.sig = st[Len(st)].sig /\ f.at # "fini" /\ FrameOK(f, Len(st), sd)
      /\ Len(st) # 1 => f.saved = st[Len(st)].saved
  BY DEF Replaces
<1>3. \A i \in 1..Len(st) : i # Len(st) => MaskIn(new, m2, i) = MaskIn(st, m, i)
  <2> TAKE i \in 1..Len(st)
  <2>1. HAVE i # Len(st)
  <2>2. i + 1 \in 1..Len(st) /\ i + 1 # 1
    BY <1>0, <1>1, <2>1
  <2>3. new[i + 1].saved = st[i + 1].saved
    <3>1. CASE i + 1 = Len(st)
      <4>1. Len(st) # 1
        BY <1>0, <1>1, <2>2, <3>1
      <4> QED
        BY <1>0, <1>1, <3>1, <4>1
    <3>2. CASE i + 1 # Len(st)
      BY <1>2, <2>2, <3>2
    <3> QED
      BY <3>1, <3>2
  <2> QED
    BY <1>0, <1>1, <2>1, <2>3 DEF MaskIn
<1>4. ASSUME NEW i \in 1..Len(st)
      PROVE  FrameOK(new[i], i, sd)
  <2>1. CASE i = Len(st)
    BY <1>0, <1>1, <2>1
  <2>2. CASE i # Len(st)
    BY <1>2, <2>2 DEF StackOK
  <2> QED
    BY <2>1, <2>2
<1>5. ASSUME NEW i \in 1..Len(st), new[i].at = "fini"
      PROVE  sd \in MaskIn(new, m2, i)
  <2>1. i # Len(st)
    BY <1>0, <1>1, <1>5
  <2> QED
    BY <1>2, <1>3, <1>5, <2>1 DEF StackOK
<1>6. ASSUME NEW i \in 1..Len(st), new[i].at = "fini", i < Len(st)
      PROVE  new[i + 1].sig # sd
  <2>1. i # Len(st) /\ i + 1 \in 1..Len(st) /\ new[i] = st[i]
    BY <1>0, <1>1, <1>2, <1>6
  <2>2. new[i + 1].sig = st[i + 1].sig
    BY <1>0, <1>1, <1>2, <2>1
  <2> QED
    BY <1>6, <2>1, <2>2 DEF StackOK
<1>9. ASSUME NEW i \in 1..Len(st)
      PROVE  SetOK(new[i], MaskIn(new, m2, i), kp)
  <2>1. CASE i = Len(st)
    BY <1>1, <2>1 DEF MaskIn
  <2>2. CASE i # Len(st)
    BY <1>2, <1>3, <2>2 DEF StackOK
  <2> QED
    BY <2>1, <2>2
<1>7. StackOK(new, m2, sd, kp)
  BY <1>0, <1>1, <1>4, <1>5, <1>6, <1>9 DEF StackOK
<1>8. ASSUME Len(st) # 1
      PROVE  BaseOf(new, m2) = BaseOf(st, m)
  <2>1. 1 \in 1..Len(st) /\ 2 \in 1..Len(st) /\ new[1] = st[1]
    BY <1>0, <1>1, <1>2, <1>8
  <2>2. new[2].saved = st[2].saved
    BY <1>0, <1>1, <1>2, <1>8, <2>1
  <2> QED
    BY <1>0, <1>1, <1>8, <2>1, <2>2 DEF BaseOf
<1> QED
  BY <1>7, <1>8

-----------------------------------------------------------------------------
(* What a step of one thread does to the stacks. *)

Others(t) == \A u \in Thread \ {t} : th'[u] = th[u] /\ mask'[u] = mask[u]

SameImage == UNCHANGED <<shoot, keepOpen, inherited, late>>

\* A thread stays open to what is kept open and to which it is open.
StaysOpen(t) ==
    th[t] # <<>> => BaseOf(th'[t], mask'[t]) \cap Kept \subseteq BaseOf(th[t], mask[t])
OpenKept == \A t \in Thread : th'[t] # <<>> => StaysOpen(t)

LEMMA OneThread ==
  ASSUME StacksOK, NEW t \in Thread, SameImage, Others(t),
         th' \in [Thread -> Seq(Frame)], mask' \in [Thread -> SUBSET Sig],
         StackOK(th'[t], mask'[t], shoot, Kept), OpenOK(th'[t], mask'[t], shoot, inherited),
         StaysOpen(t)
  PROVE  StacksOK' /\ OpenKept
<1>0. shoot' = shoot /\ inherited' = inherited /\ Kept' = Kept
  BY DEF SameImage, Kept
<1>1. ASSUME NEW u \in Thread
      PROVE  StackOK(th'[u], mask'[u], shoot', Kept') /\ OpenOK(th'[u], mask'[u], shoot', inherited')
  <2>1. CASE u = t
    BY <1>0, <2>1
  <2>2. CASE u # t
    <3>1. th'[u] = th[u] /\ mask'[u] = mask[u]
      BY <2>2 DEF Others
    <3>2. StackOK(th[u], mask[u], shoot, Kept) /\ OpenOK(th[u], mask[u], shoot, inherited)
      BY DEF StacksOK
    <3> QED
      BY <1>0, <3>1, <3>2
  <2> QED
    BY <2>1, <2>2
<1>2. OpenKept
  <2>1. \A u \in Thread \ {t} : StaysOpen(u)
    BY DEF Others, StaysOpen
  <2> QED
    BY <2>1 DEF OpenKept
<1> QED
  BY <1>1, <1>2 DEF StacksOK

\* What is known of a thread that runs.
LEMMA RunFacts ==
  ASSUME StacksOK, NEW t \in Thread, th[t] # <<>>
  PROVE  /\ th[t] \in Seq(Frame) /\ Len(th[t]) \in Nat \ {0}
         /\ Top(t) = th[t][Len(th[t])] /\ Top(t) \in Frame
         /\ StackOK(th[t], mask[t], shoot, Kept)
         /\ FrameOK(Top(t), Len(th[t]), shoot)
         /\ mask[t] \in SUBSET Sig
         /\ OpenOK(th[t], mask[t], shoot, inherited)
<1>1. th[t] \in Seq(Frame) /\ mask[t] \in SUBSET Sig
  BY DEF StacksOK
<1>2. /\ Len(th[t]) \in Nat \ {0} /\ Last(th[t]) = th[t][Len(th[t])]
      /\ Last(th[t]) \in Frame
  BY <1>1, StackFacts
<1>3. /\ StackOK(th[t], mask[t], shoot, Kept)
      /\ OpenOK(th[t], mask[t], shoot, inherited)
  BY DEF StacksOK
<1>4. Len(th[t]) \in 1..Len(th[t])
  BY <1>2
<1>5. FrameOK(th[t][Len(th[t])], Len(th[t]), shoot)
  BY <1>3, <1>4 DEF StackOK
<1> QED
  BY <1>1, <1>2, <1>3, <1>5 DEF Top

NewTop(t, f) == [th[t] EXCEPT ![Len(th[t])] = f]

LEMMA SetTopFacts ==
  ASSUME StacksOK, NEW t \in Thread, th[t] # <<>>, NEW f \in Frame, SetTop(t, f)
  PROVE  /\ Replaced(th[t], NewTop(t, f), f)
         /\ th' \in [Thread -> Seq(Frame)] /\ th'[t] = NewTop(t, f)
         /\ \A u \in Thread \ {t} : th'[u] = th[u]
<1>1. th \in [Thread -> Seq(Frame)] /\ th[t] \in Seq(Frame)
  BY DEF StacksOK
<1>2. Replaced(th[t], NewTop(t, f), f)
  BY <1>1, ReplaceFacts DEF NewTop
<1>3. th' = [th EXCEPT ![t] = NewTop(t, f)]
  BY DEF SetTop, NewTop
<1>4. NewTop(t, f) \in Seq(Frame)
  BY <1>2 DEF Replaced
<1> QED
  BY <1>1, <1>2, <1>3, <1>4

\* What is kept open is open but for what the image inherited.
LEMMA KeptFacts ==
  ASSUME TableTypes
  PROVE  (OpenList \cup {shoot}) \cap Managed \subseteq Kept
BY DEF TableTypes, Kept

\* Code goes on from one place to another, and its mask changes with it.
LEMMA TopMaskStep ==
  ASSUME TableTypes, StacksOK, NEW t \in Thread, th[t] # <<>>, NEW f \in Frame, SetTop(t, f),
         SameImage, NEW m2 \in SUBSET Sig, mask' = [mask EXCEPT ![t] = m2],
         Top(t).at # "system", f.at \notin {"system", "fini"},
         f.sig = Top(t).sig, f.saved = Top(t).saved, FrameOK(f, Len(th[t]), shoot),
         SetOK(f, m2, Kept), Len(th[t]) = 1 => m2 \cap Kept \subseteq mask[t]
  PROVE  StacksOK' /\ OpenKept
<1> DEFINE new == NewTop(t, f)
<1>1. /\ th[t] \in Seq(Frame) /\ Len(th[t]) \in Nat \ {0} /\ Top(t) = th[t][Len(th[t])]
      /\ StackOK(th[t], mask[t], shoot, Kept)
      /\ OpenOK(th[t], mask[t], shoot, inherited)
  BY RunFacts
<1>2. /\ Replaced(th[t], new, f)
      /\ th' \in [Thread -> Seq(Frame)] /\ th'[t] = new
      /\ \A u \in Thread \ {t} : th'[u] = th[u]
  BY SetTopFacts
<1> HIDE DEF new
<1>3. StackOK(new, m2, shoot, Kept)
      /\ (Len(th[t]) # 1 => BaseOf(new, m2) = BaseOf(th[t], mask[t]))
  <2>1. Replaces(th[t], f, shoot)
    BY <1>1 DEF Replaces
  <2>2. /\ Replaced(th[t], new, f) /\ th[t] \in Seq(Frame)
        /\ StackOK(th[t], mask[t], shoot, Kept)
    BY <1>1, <1>2
  <2> QED
    BY <2>1, <2>2, ReplaceKeeps
<1>4. /\ mask' \in [Thread -> SUBSET Sig] /\ mask'[t] = m2
      /\ \A u \in Thread \ {t} : mask'[u] = mask[u]
  BY DEF StacksOK
<1>5. Others(t)
  BY <1>2, <1>4 DEF Others
<1>6. BaseOf(new, m2) \cap Kept \subseteq BaseOf(th[t], mask[t])
  <2>1. CASE Len(th[t]) = 1
    <3>1. new[1] = f /\ Len(new) = 1 /\ th[t][1].at # "system"
      BY <1>1, <1>2, <2>1 DEF Replaced
    <3>2. BaseOf(new, m2) = m2 /\ BaseOf(th[t], mask[t]) = mask[t]
      BY <2>1, <3>1 DEF BaseOf
    <3> QED
      BY <2>1, <3>2
  <2>2. CASE Len(th[t]) # 1
    BY <1>3, <2>2
  <2> QED
    BY <2>1, <2>2
<1>7. OpenOK(new, m2, shoot, inherited)
  BY <1>1, <1>6, KeptFacts DEF OpenOK
<1>8. StaysOpen(t)
  BY <1>2, <1>4, <1>6 DEF StaysOpen
<1> QED
  BY <1>2, <1>3, <1>4, <1>5, <1>7, <1>8, OneThread

LEMMA TopStep ==
  ASSUME TableTypes, StacksOK, NEW t \in Thread, th[t] # <<>>, NEW f \in Frame, SetTop(t, f),
         SameImage, mask' = mask, Top(t).at # "system", f.at \notin {"system", "fini"},
         f.sig = Top(t).sig, f.saved = Top(t).saved, FrameOK(f, Len(th[t]), shoot),
         f.at \notin How
  PROVE  StacksOK' /\ OpenKept
<1>1. mask' = [mask EXCEPT ![t] = mask[t]] /\ mask[t] \in SUBSET Sig
  BY DEF StacksOK
<1>2. SetOK(f, mask[t], Kept)
  BY DEF SetOK, How
<1> QED
  BY <1>1, <1>2, TopMaskStep

LEMMA PushStep ==
  ASSUME StacksOK, NEW t \in Thread, th[t] # <<>>, NEW s \in Sig, NEW m \in SUBSET Sig,
         NEW l \in {"handler", "fini", "late", "run"}, NEW h \in Handler \cup {NoHandler},
         Push(t, s, m, l, h), SameImage, s \notin mask[t], l = "fini" => s = shoot,
         l = "run" <=> h # NoHandler
  PROVE  StacksOK' /\ OpenKept
<1> DEFINE f == [Base EXCEPT !.sig = s, !.saved = mask[t], !.at = l, !.hand = h]
           m2 == mask[t] \cup m \cup {s}
<1>1. /\ th[t] \in Seq(Frame) /\ StackOK(th[t], mask[t], shoot, Kept) /\ mask[t] \in SUBSET Sig
      /\ OpenOK(th[t], mask[t], shoot, inherited)
  BY RunFacts
<1>2. th \in [Thread -> Seq(Frame)] /\ mask \in [Thread -> SUBSET Sig]
  BY DEF StacksOK
<1>3. NoOld \in [SystemIgnores -> KernRecord]
  BY DEF NoOld, KernRecord
<1>4. f \in Frame /\ f.sig = s /\ f.saved = mask[t] /\ f.at = l /\ f.hand = h
  BY <1>1, <1>3 DEF Base, Frame, Loc
<1>5. FrameOK(f, Len(th[t]) + 1, shoot)
  <2>1. Len(th[t]) + 1 # 1
    BY RunFacts
  <2>2. HandOK(f)
    BY <1>4, Constants DEF HandOK, HandlerLoc, CallLoc, How
  <2> QED
    BY <1>4, <2>1, <2>2, Constants DEF FrameOK
<1>6. th' = [th EXCEPT ![t] = Append(th[t], f)] /\ mask' = [mask EXCEPT ![t] = m2]
  BY DEF Push
<1>7. Pushed(th[t], Append(th[t], f), f)
  BY <1>1, <1>4, PushFacts
<1>8. f.at = "fini" => shoot \in m2
  BY <1>4
<1>10. Append(th[t], f) \in Seq(Frame) /\ m2 \in SUBSET Sig
  BY <1>1, <1>7 DEF Pushed
<1> HIDE DEF f, m2
<1>9. /\ StackOK(Append(th[t], f), m2, shoot, Kept)
      /\ BaseOf(Append(th[t], f), m2) = BaseOf(th[t], mask[t])
  <2>1. f.sig \notin mask[t] /\ f \in Frame /\ f.saved = mask[t] /\ f.at \notin How
    BY <1>4 DEF How
  <2>2. FrameOK(f, Len(th[t]) + 1, shoot) /\ (f.at = "fini" => shoot \in m2)
    BY <1>5, <1>8
  <2>3. /\ th[t] \in Seq(Frame) /\ StackOK(th[t], mask[t], shoot, Kept)
        /\ Pushed(th[t], Append(th[t], f), f)
    BY <1>1, <1>7
  <2> QED
    BY <2>1, <2>2, <2>3, PushKeeps
<1>11. /\ th'[t] = Append(th[t], f) /\ mask'[t] = m2 /\ Others(t)
       /\ th' \in [Thread -> Seq(Frame)] /\ mask' \in [Thread -> SUBSET Sig]
  <2>1. th' \in [Thread -> Seq(Frame)] /\ th'[t] = Append(th[t], f)
        /\ \A u \in Thread \ {t} : th'[u] = th[u]
    BY <1>2, <1>6, <1>10
  <2>2. mask' \in [Thread -> SUBSET Sig] /\ mask'[t] = m2
        /\ \A u \in Thread \ {t} : mask'[u] = mask[u]
    BY <1>2, <1>6, <1>10
  <2> QED
    BY <2>1, <2>2 DEF Others
<1>12. OpenOK(th'[t], mask'[t], shoot, inherited)
  BY <1>1, <1>9, <1>11 DEF OpenOK
<1>13. StaysOpen(t)
  BY <1>9, <1>11 DEF StaysOpen
<1> QED
  BY <1>9, <1>11, <1>12, <1>13, OneThread

LEMMA PopStep ==
  ASSUME StacksOK, NEW t \in Thread, Len(th[t]) > 1, Pop(t), SameImage
  PROVE  StacksOK' /\ OpenKept
<1>0. /\ th \in [Thread -> Seq(Frame)] /\ mask \in [Thread -> SUBSET Sig]
      /\ th[t] \in Seq(Frame)
  BY DEF StacksOK
<1>00. th[t] # <<>>
  BY <1>0, EmptySeq
<1>1. /\ StackOK(th[t], mask[t], shoot, Kept) /\ Top(t) = th[t][Len(th[t])] /\ Top(t) \in Frame
      /\ OpenOK(th[t], mask[t], shoot, inherited)
  BY <1>00, RunFacts
<1> DEFINE m2 == Top(t).saved
<1>2. th' = [th EXCEPT ![t] = Front(th[t])] /\ mask' = [mask EXCEPT ![t] = m2]
  BY DEF Pop
<1>3. Popped(th[t], Front(th[t])) /\ Front(th[t]) \in Seq(Frame) /\ m2 \in SUBSET Sig
  BY <1>0, <1>1, PopFacts DEF Popped, Frame
<1>4. /\ StackOK(Front(th[t]), m2, shoot, Kept)
      /\ BaseOf(Front(th[t]), m2) = BaseOf(th[t], mask[t])
  BY <1>0, <1>1, <1>3, PopKeeps
<1> HIDE DEF m2
<1>5. /\ th'[t] = Front(th[t]) /\ mask'[t] = m2 /\ Others(t)
      /\ th' \in [Thread -> Seq(Frame)] /\ mask' \in [Thread -> SUBSET Sig]
  BY <1>0, <1>2, <1>3 DEF Others
<1>6. OpenOK(th'[t], mask'[t], shoot, inherited)
  BY <1>1, <1>4, <1>5 DEF OpenOK
<1>7. StaysOpen(t)
  BY <1>4, <1>5 DEF StaysOpen
<1> QED
  BY <1>4, <1>5, <1>6, <1>7, OneThread


LEMMA BaseFacts ==
  ASSUME NEW m, NEW sd, NEW kp
  PROVE  /\ Base \in Frame /\ <<Base>> \in Seq(Frame)
         /\ StackOK(<<Base>>, m, sd, kp) /\ BaseOf(<<Base>>, m) = m /\ StackOK(<<>>, m, sd, kp)
<1>1. NoOld \in [SystemIgnores -> KernRecord]
  BY DEF NoOld, KernRecord
<1>2. Base \in Frame
  BY <1>1 DEF Base, Frame, Loc
<1>3. <<Base>>[1] = Base /\ Len(<<Base>>) = 1
  OBVIOUS
<1>4. FrameOK(Base, 1, sd) /\ SetOK(Base, m, kp)
  BY DEF FrameOK, HandOK, HandlerLoc, SetOK, Base
<1>5. Base.at = "run"
  BY DEF Base
<1>6. <<Base>> \in Seq(Frame)
  BY <1>2
<1> HIDE DEF Base
<1>7. StackOK(<<Base>>, m, sd, kp)
  BY <1>3, <1>4, <1>5 DEF StackOK, MaskIn
<1>8. BaseOf(<<Base>>, m) = m
  BY <1>3, <1>5 DEF BaseOf
<1>9. StackOK(<<>>, m, sd, kp)
  BY DEF StackOK
<1> QED
  BY <1>2, <1>6, <1>7, <1>8, <1>9

LEMMA CreateStep ==
  ASSUME StacksOK, NEW t \in Thread, NEW u \in Thread, CreateThread(t, u)
  PROVE  StacksOK' /\ OpenKept
<1>1. /\ th[t] # <<>> /\ Top(t).at = "run" /\ Len(th[t]) = 1 /\ th[u] = <<>>
      /\ th' = [th EXCEPT ![u] = <<Base>>] /\ mask' = [mask EXCEPT ![u] = mask[t]]
      /\ SameImage
  BY DEF CreateThread, At, tableVars, histVars, SameImage
<1>2. /\ Top(t) = th[t][Len(th[t])] /\ OpenOK(th[t], mask[t], shoot, inherited)
      /\ mask[t] \in SUBSET Sig
  BY <1>1, RunFacts
<1>3. th \in [Thread -> Seq(Frame)] /\ mask \in [Thread -> SUBSET Sig]
  BY DEF StacksOK
<1>4. th'[u] = <<Base>> /\ th' \in [Thread -> Seq(Frame)]
      /\ \A v \in Thread \ {u} : th'[v] = th[v]
  BY <1>1, <1>3, BaseFacts
<1>5. mask'[u] = mask[t] /\ mask' \in [Thread -> SUBSET Sig]
      /\ \A v \in Thread \ {u} : mask'[v] = mask[v]
  BY <1>1, <1>2, <1>3
<1>6. BaseOf(th[t], mask[t]) = mask[t]
  BY <1>1, <1>2 DEF BaseOf
<1>7. OpenOK(th'[u], mask'[u], shoot, inherited)
  BY <1>1, <1>2, <1>4, <1>5, <1>6, BaseFacts DEF OpenOK
<1>8. StackOK(th'[u], mask'[u], shoot, Kept)
  BY <1>4, BaseFacts
<1>9. Others(u)
  BY <1>4, <1>5 DEF Others
<1>10. StaysOpen(u)
  BY <1>1 DEF StaysOpen
<1> QED
  BY <1>1, <1>4, <1>5, <1>7, <1>8, <1>9, <1>10, OneThread

\* A new image, or the end of the process.
LEMMA ImageStep ==
  ASSUME StacksOK, NEW live \in SUBSET Thread, NEW m \in SUBSET Sig,
         th' = [u \in Thread |-> IF u \in live THEN <<Base>> ELSE <<>>],
         mask' \in [Thread -> SUBSET Sig], \A u \in live : mask'[u] \subseteq m,
         inherited' = m
  PROVE  StacksOK'
<1>1. ASSUME NEW u \in Thread
      PROVE  /\ StackOK(th'[u], mask'[u], shoot', Kept')
             /\ OpenOK(th'[u], mask'[u], shoot', inherited')
  <2>1. CASE u \in live
    <3>1. th'[u] = <<Base>>
      BY <2>1
    <3>2. StackOK(<<Base>>, mask'[u], shoot', Kept') /\ BaseOf(<<Base>>, mask'[u]) = mask'[u]
      BY BaseFacts
    <3> QED
      BY <2>1, <3>1, <3>2 DEF OpenOK
  <2>2. CASE u \notin live
    <3>1. th'[u] = <<>>
      BY <2>2
    <3>2. StackOK(<<>>, mask'[u], shoot', Kept')
      BY BaseFacts
    <3> QED
      BY <3>1, <3>2 DEF OpenOK
  <2> QED
    BY <2>1, <2>2
<1>2. th' \in [Thread -> Seq(Frame)]
  <2>1. <<Base>> \in Seq(Frame) /\ <<>> \in Seq(Frame)
    BY BaseFacts, EmptySeq
  <2> QED
    BY <2>1
<1> QED
  BY <1>1, <1>2 DEF StacksOK

\* What a thread's own code runs in is put aside, or put back.
LEMMA BottomStep ==
  ASSUME StacksOK, NEW t \in Thread, th[t] # <<>>, Len(th[t]) = 1, NEW f \in Frame,
         SetTop(t, f), SameImage, NEW m2 \in SUBSET Sig, mask' = [mask EXCEPT ![t] = m2],
         Replaces(th[t], f, shoot), f.at \notin How,
         BaseOf(th[t], mask[t]) = IF f.at = "system" THEN f.saved ELSE m2
  PROVE  StacksOK' /\ OpenKept
<1> DEFINE new == NewTop(t, f)
<1>1. /\ th[t] \in Seq(Frame) /\ StackOK(th[t], mask[t], shoot, Kept)
      /\ OpenOK(th[t], mask[t], shoot, inherited)
  BY RunFacts
<1>2. /\ Replaced(th[t], new, f)
      /\ th' \in [Thread -> Seq(Frame)] /\ th'[t] = new
      /\ \A u \in Thread \ {t} : th'[u] = th[u]
  BY SetTopFacts
<1> HIDE DEF new
<1>3. StackOK(new, m2, shoot, Kept)
  <2>1. SetOK(f, m2, Kept)
    BY DEF SetOK, How
  <2> QED
    BY <1>1, <1>2, <2>1, ReplaceKeeps
<1>4. /\ mask' \in [Thread -> SUBSET Sig] /\ mask'[t] = m2
      /\ \A u \in Thread \ {t} : mask'[u] = mask[u]
  BY DEF StacksOK
<1>5. BaseOf(new, m2) = BaseOf(th[t], mask[t])
  <2>1. new[1] = f /\ Len(new) = 1
    BY <1>2 DEF Replaced
  <2> QED
    BY <2>1 DEF BaseOf
<1>6. OpenOK(new, m2, shoot, inherited)
  BY <1>1, <1>5 DEF OpenOK
<1>7. Others(t)
  BY <1>2, <1>4 DEF Others
<1>8. StaysOpen(t)
  BY <1>2, <1>4, <1>5 DEF StaysOpen
<1> QED
  BY <1>2, <1>3, <1>4, <1>6, <1>7, <1>8, OneThread

LEMMA SystemStep ==
  ASSUME TableTypes, KernPart, StacksOK, NEW t \in Thread, System(t)
  PROVE  StacksOK' /\ OpenKept
<1> DEFINE old == [s \in SystemIgnores |-> kern[s]]
           f == [Top(t) EXCEPT !.at = "system", !.saved = mask[t], !.old = old]
<1>1. /\ th[t] # <<>> /\ Top(t).at = "run" /\ Len(th[t]) = 1
      /\ SetTop(t, f) /\ SameImage
      /\ mask' = [mask EXCEPT ![t] = @ \cup SystemBlocks]
  BY DEF System, Call, At, SameImage
<1>2. /\ Top(t) = th[t][Len(th[t])] /\ Top(t) \in Frame /\ mask[t] \in SUBSET Sig
      /\ FrameOK(Top(t), 1, shoot) /\ th[t] \in Seq(Frame)
  BY <1>1, RunFacts
<1>3. old \in [SystemIgnores -> KernRecord]
  BY Constants DEF TableTypes
<1>4. \A s \in SystemIgnores : OldOK(old[s], s, shoot)
  BY Constants DEF KernPart, OldOK
<1> HIDE DEF old
<1>5. /\ f \in Frame /\ f.at = "system" /\ f.saved = mask[t] /\ f.sig = Top(t).sig
      /\ f.old = old /\ f.at \notin How /\ f.hand = Top(t).hand
  BY <1>2, <1>3 DEF Frame, Loc, CallLoc, How
<1> HIDE DEF f
<1>6. FrameOK(f, 1, shoot)
  BY <1>1, <1>2, <1>4, <1>5 DEF FrameOK, HandOK, HandlerLoc, CallLoc
<1>7. Replaces(th[t], f, shoot)
  BY <1>1, <1>2, <1>5, <1>6 DEF Replaces
<1>8. BaseOf(th[t], mask[t]) = mask[t]
  BY <1>1, <1>2 DEF BaseOf
<1>9. mask[t] \cup SystemBlocks \in SUBSET Sig
  BY <1>2, Constants
<1>10. BaseOf(th[t], mask[t]) = IF f.at = "system" THEN f.saved ELSE mask[t] \cup SystemBlocks
  BY <1>5, <1>8
<1> QED
  BY <1>1, <1>5, <1>7, <1>9, <1>10, BottomStep

LEMMA SystemReturnStep ==
  ASSUME TableTypes, StacksOK, NEW t \in Thread, SystemReturn(t)
  PROVE  StacksOK' /\ OpenKept /\ \A s \in SystemIgnores : OldOK(Top(t).old[s], s, shoot)
<1> DEFINE f == [Top(t) EXCEPT !.at = "run", !.saved = {}, !.old = NoOld]
<1>1. /\ th[t] # <<>> /\ Top(t).at = "system"
      /\ SetTop(t, f) /\ SameImage
      /\ mask' = [mask EXCEPT ![t] = Top(t).saved]
  BY DEF SystemReturn, At, SameImage, histVars
<1>2. /\ Top(t) = th[t][Len(th[t])] /\ Top(t) \in Frame
      /\ FrameOK(Top(t), Len(th[t]), shoot) /\ th[t] \in Seq(Frame)
  BY <1>1, RunFacts
<1>3. Len(th[t]) = 1 /\ \A s \in SystemIgnores : OldOK(Top(t).old[s], s, shoot)
  BY <1>1, <1>2 DEF FrameOK
<1>4. NoOld \in [SystemIgnores -> KernRecord] /\ Top(t).saved \in SUBSET Sig
  BY <1>2 DEF NoOld, KernRecord, Frame
<1>5. f \in Frame /\ f.at = "run" /\ f.sig = Top(t).sig /\ f.at \notin How
      /\ f.hand = Top(t).hand
  BY <1>2, <1>4 DEF Frame, Loc, How
<1> HIDE DEF f
<1>6. FrameOK(f, 1, shoot)
  BY <1>1, <1>2, <1>3, <1>5 DEF FrameOK, HandOK, HandlerLoc, CallLoc
<1>7. Replaces(th[t], f, shoot)
  BY <1>2, <1>3, <1>5, <1>6 DEF Replaces
<1>8. BaseOf(th[t], mask[t]) = Top(t).saved
  BY <1>1, <1>2, <1>3 DEF BaseOf
<1>9. BaseOf(th[t], mask[t]) = IF f.at = "system" THEN f.saved ELSE Top(t).saved
  BY <1>5, <1>8
<1>10. StacksOK' /\ OpenKept
  BY <1>1, <1>3, <1>4, <1>5, <1>7, <1>9, BottomStep
<1> QED
  BY <1>3, <1>10

LEMMA SigprocmaskStep ==
  ASSUME TableTypes, StacksOK, NEW t \in Thread, NEW how \in How,
         NEW set \in MaskOf, Sigprocmask(t, how, set)
  PROVE  StacksOK' /\ OpenKept
<1> DEFINE r == RemoveClientSignals(t, set, how)
           f == [Top(t) EXCEPT !.at = how, !.set = r]
<1>1. /\ th[t] # <<>> /\ Top(t).at = "run" /\ SetTop(t, f) /\ mask' = mask /\ SameImage
  BY DEF Sigprocmask, Call, At, SameImage, tableVars, histVars
<1>2. /\ mask[t] \in SUBSET Sig /\ set \in SUBSET Sig /\ Top(t) \in Frame
      /\ FrameOK(Top(t), Len(th[t]), shoot)
  BY <1>1, RunFacts, Constants
<1>3. r \in SUBSET Sig
  BY <1>2 DEF RemoveClientSignals
<1>4. /\ how \in {"block", "unblock"} => r \cap Kept = {}
      /\ how = "setmask" => r \cap Kept = mask[t] \cap Kept
  BY DEF RemoveClientSignals, Kept
<1> HIDE DEF r
<1>5. /\ f \in Frame /\ f.at = how /\ f.set = r /\ f.sig = Top(t).sig
      /\ f.saved = Top(t).saved /\ f.hand = Top(t).hand
  BY <1>2, <1>3 DEF Frame, Loc, CallLoc
<1>6. /\ f.at \notin {"system", "fini"} /\ f.at \notin HandlerLoc
      /\ f.at \notin {"adjust", "install"}
  BY <1>5 DEF How, HandlerLoc
<1> HIDE DEF f
<1>7. FrameOK(f, Len(th[t]), shoot)
  <2>1. HandOK(f)
    BY <1>1, <1>2, <1>5, <1>6 DEF FrameOK, HandOK
  <2> QED
    BY <1>2, <1>5, <1>6, <2>1 DEF FrameOK
<1>8. SetOK(f, mask[t], Kept)
  BY <1>4, <1>5 DEF SetOK
<1>9. mask' = [mask EXCEPT ![t] = mask[t]] /\ Top(t).at # "system"
  BY <1>1 DEF StacksOK
<1> QED
  BY <1>1, <1>2, <1>5, <1>6, <1>7, <1>8, <1>9, TopMaskStep

\* What the real sigprocmask leaves of the mask.
LEMMA NewMaskFacts ==
  ASSUME StacksOK, NEW t \in Thread, NEW how \in How, At(t, how)
  PROVE  LET m2 == NewMask(t, how, Top(t).set)
         IN  m2 \in SUBSET Sig /\ m2 \cap Kept = mask[t] \cap Kept
<1>1. th[t] # <<>> /\ Top(t).at = how
  BY DEF At
<1>2. /\ mask[t] \in SUBSET Sig /\ Top(t) \in Frame /\ Len(th[t]) \in Nat \ {0}
      /\ StackOK(th[t], mask[t], shoot, Kept) /\ Top(t) = th[t][Len(th[t])]
  BY <1>1, RunFacts
<1>3. SetOK(Top(t), mask[t], Kept)
  <2>1. Len(th[t]) \in 1..Len(th[t]) /\ MaskIn(th[t], mask[t], Len(th[t])) = mask[t]
    BY <1>2 DEF MaskIn
  <2> QED
    BY <1>2, <2>1 DEF StackOK
<1>4. Top(t).set \in SUBSET Sig
  BY <1>2 DEF Frame
<1>5. CASE how = "block"
  BY <1>1, <1>2, <1>3, <1>4, <1>5 DEF NewMask, SetOK
<1>6. CASE how = "unblock"
  BY <1>1, <1>2, <1>3, <1>4, <1>6 DEF NewMask, SetOK
<1>7. CASE how = "setmask"
  BY <1>1, <1>2, <1>3, <1>4, <1>7 DEF NewMask, SetOK
<1> QED
  BY <1>5, <1>6, <1>7 DEF How

LEMMA RealSigprocmaskStep ==
  ASSUME TableTypes, StacksOK, NEW t \in Thread, RealSigprocmask(t)
  PROVE  StacksOK' /\ OpenKept
<1>0. PICK how \in How : At(t, how)
  BY DEF RealSigprocmask
<1> DEFINE m2 == NewMask(t, how, Top(t).set)
           f == [Top(t) EXCEPT !.at = "run", !.set = {}]
<1>1. /\ th[t] # <<>> /\ Top(t).at = how /\ SetTop(t, f) /\ SameImage
      /\ mask' = [mask EXCEPT ![t] = m2]
  BY <1>0 DEF RealSigprocmask, At, SameImage, tableVars, histVars
<1>2. Top(t) \in Frame /\ FrameOK(Top(t), Len(th[t]), shoot)
  BY <1>1, RunFacts
<1>3. m2 \in SUBSET Sig /\ m2 \cap Kept = mask[t] \cap Kept
  BY <1>0, NewMaskFacts
<1> HIDE DEF m2
<1>4. f \in Frame /\ f.at = "run" /\ f.sig = Top(t).sig /\ f.saved = Top(t).saved
      /\ f.hand = Top(t).hand
  BY <1>2 DEF Frame, Loc
<1> HIDE DEF f
<1>5. FrameOK(f, Len(th[t]), shoot)
  BY <1>1, <1>2, <1>4 DEF FrameOK, HandOK, HandlerLoc, CallLoc
<1>6. SetOK(f, m2, Kept)
  BY <1>4 DEF SetOK
<1>7. Top(t).at # "system"
  BY <1>1 DEF How
<1> QED
  BY <1>1, <1>3, <1>4, <1>5, <1>6, <1>7, TopMaskStep

-----------------------------------------------------------------------------
(* Every action keeps the invariant. *)

TablesKept == UNCHANGED tableVars

LEMMA CallFacts ==
  ASSUME TableTypes, NEW t \in Thread, Call(t)
  PROVE  th[t] # <<>> /\ Top(t).at = "run" /\ At(t, "run") /\ calls' \in 0..MaxCalls
<1>1. calls \in Nat /\ calls < MaxCalls /\ calls' = calls + 1
  BY DEF TableTypes, Call
<1>2. calls' \in 0..MaxCalls
  BY <1>1, Constants
<1> QED
  BY <1>2 DEF Call, At

\* The tables stay, and what else TableTypes names.
LEMMA TablesStay ==
  ASSUME TableTypes, KernPart, TablesKept, UNCHANGED histVars,
         winner' \in Thread \cup {NoThread}, over' \in BOOLEAN,
         status' \in {"up", "exiting", "signalled", "dead"}, calls' \in 0..MaxCalls
  PROVE  TableTypes' /\ KernPart'
<1>1. /\ shoot' = shoot /\ keepOpen' = keepOpen /\ appl' = appl /\ kernAct' = kernAct
      /\ kern' = kern /\ client' = client
      /\ inherited' = inherited /\ tangled' = tangled /\ late' = late /\ loose' = loose
  BY DEF TablesKept, tableVars, histVars
<1>2. TableTypes'
  BY <1>1 DEF TableTypes
<1>3. KernPart'
  BY <1>1 DEF KernPart
<1> QED
  BY <1>2, <1>3

LEMMA StacksStay ==
  ASSUME StacksOK, SameImage, th' = th, mask' = mask
  PROVE  StacksOK' /\ OpenKept
BY DEF StacksOK, SameImage, Kept, OpenKept, StaysOpen

LEMMA StoreActionStep ==
  ASSUME SignalInv, NEW t \in Thread, NEW s \in Sig, NEW act \in Act[s], StoreAction(t, s, act)
  PROVE  SignalInv' /\ OpenKept
<1>0. TableTypes /\ KernPart /\ StacksOK
  BY DEF SignalInv
<1>1. Call(t) /\ s \in Managed /\ appl' = [appl EXCEPT ![s] = act]
      /\ kernAct' = [kernAct EXCEPT ![s] = act.mask]
      /\ SetTop(t, [Top(t) EXCEPT !.at = "adjust", !.on = s])
      /\ tangled' = tangled \cup Overlapping(s)
      /\ loose' = loose \cup {r \in {s} : Reading(r)}
      /\ UNCHANGED <<shoot, keepOpen, kern, client, mask, status, inherited, late,
                     winner, over>>
  BY DEF StoreAction, endVars
<1>2. th[t] # <<>> /\ Top(t).at = "run" /\ calls' \in 0..MaxCalls
  BY <1>0, <1>1, CallFacts
<1>3. act \in ApplRecord
  BY SignalAssumption DEF ApplRecord
<1>4. tangled' \subseteq Sig /\ loose' \subseteq Sig
  BY <1>0, <1>1 DEF TableTypes, Overlapping
<1>5. TableTypes'
  <2>1. appl' \in [Sig -> ApplRecord]
    BY <1>0, <1>1, <1>3 DEF TableTypes
  <2>2. kernAct' \in [Sig -> SUBSET Sig]
    BY <1>0, <1>1, <1>3 DEF TableTypes, ApplRecord
  <2> QED
    BY <1>0, <1>1, <1>2, <1>4, <2>1, <2>2 DEF TableTypes
<1>6. KernPart'
  BY <1>0, <1>1 DEF KernPart
<1> DEFINE f == [Top(t) EXCEPT !.at = "adjust", !.on = s]
<1>7. Top(t) \in Frame /\ FrameOK(Top(t), Len(th[t]), shoot)
  BY <1>0, <1>2, RunFacts
<1>8. f \in Frame /\ f.at = "adjust" /\ f.on = s /\ f.sig = Top(t).sig
      /\ f.saved = Top(t).saved /\ f.hand = Top(t).hand
  BY <1>7 DEF Frame, Loc, CallLoc
<1>9. SetTop(t, f) /\ SameImage /\ mask' = mask
  BY <1>1 DEF SameImage
<1> HIDE DEF f
<1>10. FrameOK(f, Len(th[t]), shoot)
  BY <1>1, <1>2, <1>7, <1>8 DEF FrameOK, HandOK, HandlerLoc
<1>11. StacksOK' /\ OpenKept
  BY <1>0, <1>2, <1>8, <1>9, <1>10, TopStep DEF How
<1> QED
  BY <1>5, <1>6, <1>11 DEF SignalInv

LEMMA AdjustActionStep ==
  ASSUME SignalInv, NEW t \in Thread, AdjustAction(t)
  PROVE  SignalInv' /\ OpenKept
<1>0. TableTypes /\ KernPart /\ StacksOK
  BY DEF SignalInv
<1> DEFINE f == [Top(t) EXCEPT !.at = "install"]
<1>1. /\ th[t] # <<>> /\ Top(t).at = "adjust" /\ SetTop(t, f)
      /\ kernAct' = [kernAct EXCEPT ![Top(t).on] = AdjustSamask(@ \ (keepOpen \cap Managed))]
      /\ UNCHANGED <<shoot, keepOpen, appl, kern, client, mask, status, calls,
                     inherited, tangled, late, loose, winner, over>>
  BY DEF AdjustAction, At, Goto, endVars, histVars
<1>2. Top(t) \in Frame /\ FrameOK(Top(t), Len(th[t]), shoot)
  BY <1>0, <1>1, RunFacts
<1>3. f \in Frame /\ f.at = "install" /\ f.on = Top(t).on /\ f.sig = Top(t).sig
      /\ f.saved = Top(t).saved /\ f.hand = Top(t).hand
  BY <1>2 DEF Frame, Loc, CallLoc
<1>4. SameImage /\ mask' = mask
  BY <1>1 DEF SameImage
<1>5. TableTypes'
  <2>1. Top(t).on \in Sig
    BY <1>1, <1>2, Constants DEF FrameOK
  <2>2. AdjustSamask(kernAct[Top(t).on] \ (keepOpen \cap Managed)) \in SUBSET Sig
    BY <1>0, <2>1 DEF TableTypes, AdjustSamask
  <2>3. kernAct' \in [Sig -> SUBSET Sig]
    BY <1>0, <1>1, <2>1, <2>2 DEF TableTypes
  <2> QED
    BY <1>0, <1>1, <2>3 DEF TableTypes
<1>6. KernPart'
  BY <1>0, <1>1 DEF KernPart
<1> HIDE DEF f
<1>7. FrameOK(f, Len(th[t]), shoot)
  BY <1>1, <1>2, <1>3 DEF FrameOK, HandOK, HandlerLoc, CallLoc
<1>8. StacksOK' /\ OpenKept
  BY <1>0, <1>1, <1>3, <1>4, <1>7, TopStep DEF How
<1> QED
  BY <1>5, <1>6, <1>8 DEF SignalInv

LEMMA InstallActionStep ==
  ASSUME SignalInv, NEW t \in Thread, InstallAction(t)
  PROVE  SignalInv' /\ OpenKept
<1>0. TableTypes /\ KernPart /\ StacksOK
  BY DEF SignalInv
<1> DEFINE f == [Top(t) EXCEPT !.at = "run", !.on = NoSig]
<1>1. /\ th[t] # <<>> /\ Top(t).at = "install" /\ SetTop(t, f)
      /\ kern' = [kern EXCEPT ![Top(t).on] =
                    [by |-> "monitor", mask |-> kernAct[Top(t).on]]]
      /\ UNCHANGED <<shoot, keepOpen, appl, kernAct, client, mask, status, calls,
                     inherited, tangled, late, loose, winner, over>>
  BY DEF InstallAction, At, endVars, histVars
<1>2. Top(t) \in Frame /\ FrameOK(Top(t), Len(th[t]), shoot)
  BY <1>0, <1>1, RunFacts
<1>3. f \in Frame /\ f.at = "run" /\ f.sig = Top(t).sig /\ f.saved = Top(t).saved
      /\ f.hand = Top(t).hand
  BY <1>2 DEF Frame, Loc, CallLoc
<1>4. SameImage /\ mask' = mask
  BY <1>1 DEF SameImage
<1>5. Top(t).on \in Managed
  BY <1>1, <1>2 DEF FrameOK
<1>6. TableTypes'
  <2>1. Top(t).on \in Sig
    BY <1>5, Constants
  <2>2. [by |-> "monitor", mask |-> kernAct[Top(t).on]] \in KernRecord
    BY <1>0, <2>1 DEF TableTypes, KernRecord
  <2>3. kern' \in [Sig -> KernRecord]
    BY <1>0, <1>1, <2>1, <2>2 DEF TableTypes
  <2> QED
    BY <1>0, <1>1, <2>3 DEF TableTypes
<1>7. KernPart'
  <2>1. kern \in [Sig -> KernRecord]
    BY <1>0 DEF TableTypes
  <2>2. \A s \in Sig : kern'[s] = IF s = Top(t).on
                                  THEN [by |-> "monitor", mask |-> kernAct[Top(t).on]]
                                  ELSE kern[s]
    BY <1>1, <2>1
  <2> QED
    BY <1>0, <1>1, <1>5, <2>2, Constants DEF KernPart
<1> HIDE DEF f
<1>8. FrameOK(f, Len(th[t]), shoot)
  BY <1>1, <1>2, <1>3 DEF FrameOK, HandOK, HandlerLoc, CallLoc
<1>9. StacksOK' /\ OpenKept
  BY <1>0, <1>1, <1>3, <1>4, <1>8, TopStep DEF How
<1> QED
  BY <1>6, <1>7, <1>9 DEF SignalInv

LEMMA AvoidActionStep ==
  ASSUME SignalInv, NEW t \in Thread, NEW s \in Sig, NEW act \in Act[s], AvoidAction(t, s, act)
  PROVE  SignalInv' /\ OpenKept
<1>0. TableTypes /\ KernPart /\ StacksOK
  BY DEF SignalInv
<1>1. /\ Call(t) /\ s \in Avoid
      /\ kern' = [kern EXCEPT ![s] = [by |-> act.hand, mask |-> act.mask]]
      /\ UNCHANGED <<shoot, keepOpen, appl, kernAct, client, mask, th, status,
                     inherited, tangled, late, loose, winner, over>>
  BY DEF AvoidAction, endVars, histVars
<1>2. calls' \in 0..MaxCalls
  BY <1>0, <1>1, CallFacts
<1>3. act.hand \in Disposition /\ act.mask \in SUBSET Sig
  BY Constants
<1>4. TableTypes'
  <2>1. [by |-> act.hand, mask |-> act.mask] \in KernRecord
    BY <1>3 DEF KernRecord
  <2>2. kern' \in [Sig -> KernRecord]
    BY <1>0, <1>1, <2>1 DEF TableTypes
  <2> QED
    BY <1>0, <1>1, <1>2, <2>2 DEF TableTypes
<1>5. KernPart'
  <2>1. kern \in [Sig -> KernRecord]
    BY <1>0 DEF TableTypes
  <2>2. /\ kern'[s].by = act.hand
        /\ \A r \in Sig : r # s => kern'[r] = kern[r]
    BY <1>1, <2>1
  <2>3. kern'[s].by \notin {"monitor", "shootdown"} /\ s \notin Managed
    BY <1>1, <1>3, <2>2, Constants DEF Managed
  <2> QED
    BY <1>0, <1>1, <2>2, <2>3, Constants DEF KernPart
<1>6. StacksOK' /\ OpenKept
  BY <1>0, <1>1, StacksStay DEF SameImage
<1> QED
  BY <1>4, <1>5, <1>6 DEF SignalInv

\* What is kept open grows only while no set waits to be applied.
LEMMA ClientStacks ==
  ASSUME StacksOK, UNCHANGED <<shoot, inherited, th, mask>>, Kept' \subseteq Kept \/ ~InMaskCall
  PROVE  StacksOK' /\ OpenKept
<1>1. ASSUME NEW t \in Thread
      PROVE  StackOK(th[t], mask[t], shoot, Kept')
  <2>1. StackOK(th[t], mask[t], shoot, Kept) /\ th[t] \in Seq(Frame)
    BY DEF StacksOK
  <2>2. ASSUME NEW i \in 1..Len(th[t])
        PROVE  SetOK(th[t][i], MaskIn(th[t], mask[t], i), Kept')
    <3>1. SetOK(th[t][i], MaskIn(th[t], mask[t], i), Kept)
      BY <2>1 DEF StackOK
    <3>2. CASE Kept' \subseteq Kept
      BY <3>1, <3>2 DEF SetOK
    <3>3. CASE ~InMaskCall
      <4>1. th[t][i] \in Frames
        BY <2>1, LenProperties DEF Frames, ToSet
      <4> QED
        BY <3>3, <4>1 DEF InMaskCall, SetOK, How
    <3> QED
      BY <3>2, <3>3
  <2> QED
    BY <2>1, <2>2 DEF StackOK
<1>2. \A t \in Thread : OpenOK(th[t], mask[t], shoot, inherited)
  BY DEF StacksOK
<1>3. StacksOK'
  BY <1>1, <1>2 DEF StacksOK
<1>4. OpenKept
  BY DEF OpenKept, StaysOpen
<1> QED
  BY <1>3, <1>4

LEMMA ClientActionStep ==
  ASSUME SignalInv, NEW t \in Thread, NEW s \in Sig, ClientAction(t, s)
  PROVE  SignalInv' /\ OpenKept
<1>0. TableTypes /\ KernPart /\ StacksOK
  BY DEF SignalInv
<1>1. /\ Call(t) /\ s \in Managed \cap ClientSig
      /\ keepOpen' = keepOpen \cup {s} /\ client' = client \cup {s}
      /\ late' = late \cup {r \in {s} \ keepOpen : InMaskCall}
      /\ UNCHANGED <<shoot, appl, mask, th, status, inherited, loose, winner, over>>
  BY DEF ClientAction, endVars
<1>2. calls' \in 0..MaxCalls
  BY <1>0, <1>1, CallFacts
<1>3. StacksOK' /\ OpenKept
  <2>1. Kept' \subseteq Kept \/ ~InMaskCall
    BY <1>1 DEF Kept
  <2> QED
    BY <1>0, <1>1, <2>1, ClientStacks
<1>6. late' \subseteq Sig /\ OpenList \cup {shoot} \subseteq keepOpen' \ late'
  BY <1>0, <1>1 DEF TableTypes
<1>4. CASE UNCHANGED <<kernAct, kern, tangled>>
  <2>1. TableTypes'
    BY <1>0, <1>1, <1>2, <1>4, <1>6, Constants DEF TableTypes
  <2>2. KernPart'
    BY <1>0, <1>1, <1>4 DEF KernPart
  <2> QED
    BY <1>3, <2>1, <2>2 DEF SignalInv
<1>5. ASSUME NEW m \in MaskOf,
             kernAct' = [kernAct EXCEPT ![s] = AdjustSamask(m)],
             kern' = [kern EXCEPT ![s] = [by |-> "monitor", mask |-> AdjustSamask(m)]],
             tangled' = tangled \cup Overlapping(s)
      PROVE  SignalInv' /\ OpenKept
  <2>1. AdjustSamask(m) \in SUBSET Sig
    BY <1>0, Constants DEF TableTypes, AdjustSamask
  <2> DEFINE k == [by |-> "monitor", mask |-> AdjustSamask(m)]
  <2>2. k \in KernRecord /\ k.by = "monitor"
    BY <2>1 DEF KernRecord
  <2>3. tangled' \subseteq Sig
    BY <1>0, <1>5 DEF TableTypes, Overlapping
  <2>4. kern \in [Sig -> KernRecord] /\ kernAct \in [Sig -> SUBSET Sig]
    BY <1>0 DEF TableTypes
  <2>5. kern' = [kern EXCEPT ![s] = k]
    BY <1>5
  <2> HIDE DEF k
  <2>6. kern' \in [Sig -> KernRecord] /\ kernAct' \in [Sig -> SUBSET Sig]
    BY <1>5, <2>1, <2>2, <2>4, <2>5
  <2>7. TableTypes'
    BY <1>0, <1>1, <1>2, <1>6, <2>3, <2>6, Constants DEF TableTypes
  <2>8. kern'[s] = k /\ \A r \in Sig : r # s => kern'[r] = kern[r]
    BY <2>4, <2>5
  <2>9. KernPart'
    BY <1>0, <1>1, <2>2, <2>8, Constants DEF KernPart
  <2> QED
    BY <1>3, <2>7, <2>9 DEF SignalInv
<1> QED
  BY <1>4, <1>5 DEF ClientAction

\* The steps that change no table.
LEMMA MaskOnlySteps ==
  ASSUME SignalInv, NEW t \in Thread,
         \/ \E how \in How, set \in MaskOf : Sigprocmask(t, how, set)
         \/ RealSigprocmask(t) \/ \E u \in Thread : CreateThread(t, u)
  PROVE  SignalInv' /\ OpenKept
<1>0. TableTypes /\ KernPart /\ StacksOK
  BY DEF SignalInv
<1>1. TablesKept /\ UNCHANGED <<histVars, status, winner, over>>
  BY DEF Sigprocmask, RealSigprocmask, CreateThread, TablesKept, endVars
<1>2. calls' \in 0..MaxCalls
  <2>1. CASE \E how \in How, set \in MaskOf : Sigprocmask(t, how, set)
    BY <1>0, <2>1, CallFacts DEF Sigprocmask
  <2>2. CASE RealSigprocmask(t) \/ \E u \in Thread : CreateThread(t, u)
    BY <1>0, <2>2 DEF RealSigprocmask, CreateThread, TableTypes
  <2> QED
    BY <2>1, <2>2
<1>3. TableTypes' /\ KernPart'
  BY <1>0, <1>1, <1>2, TablesStay DEF TableTypes
<1>4. StacksOK' /\ OpenKept
  BY <1>0, SigprocmaskStep, RealSigprocmaskStep, CreateStep
<1> QED
  BY <1>3, <1>4 DEF SignalInv

\* A handler is entered: the signal is open, so it does not interrupt a
\* shootdown handler when it is the shootdown signal.
LEMMA DeliverSteps ==
  ASSUME SignalInv, NEW t \in Thread, NEW s \in Sig,
         Deliver(t, s) \/ DeliverShootdown(t, s) \/ DeliverRaw(t, s)
  PROVE  SignalInv' /\ OpenKept
<1>0. TableTypes /\ KernPart /\ StacksOK
  BY DEF SignalInv
<1>1. /\ th[t] # <<>> /\ s \notin mask[t]
      /\ TablesKept /\ UNCHANGED <<histVars, calls, winner, over>> /\ SameImage
  BY DEF Deliver, DeliverShootdown, DeliverRaw, Arrives, TablesKept, tableVars, SameImage,
     endVars, histVars
<1>2. kern[s].mask \in SUBSET Sig
  BY <1>0 DEF TableTypes, KernRecord
<1>3. status' \in {"up", "exiting", "signalled", "dead"} /\ calls' \in 0..MaxCalls
  BY <1>0, <1>1 DEF TableTypes, Deliver, DeliverShootdown, DeliverRaw
<1>4. TableTypes' /\ KernPart'
  BY <1>0, <1>1, <1>3, TablesStay DEF TableTypes
<1>5. StacksOK' /\ OpenKept
  <2>1. CASE Deliver(t, s)
    <3>1. Push(t, s, kern[s].mask, "handler", NoHandler)
      BY <2>1 DEF Deliver
    <3> QED
      BY <1>0, <1>1, <1>2, <3>1, PushStep
  <2>2. CASE DeliverShootdown(t, s)
    <3>1. PICK l \in {"fini", "late"} : Push(t, s, kern[s].mask, l, NoHandler)
      BY <2>2 DEF DeliverShootdown
    <3>2. s = shoot
      BY <1>0, <2>2 DEF DeliverShootdown, KernPart
    <3> QED
      BY <1>0, <1>1, <1>2, <3>1, <3>2, PushStep
  <2>3. CASE DeliverRaw(t, s)
    <3>1. CASE kern[s].by \in Handler
      <4>1. Push(t, s, kern[s].mask, "run", kern[s].by)
        BY <2>3, <3>1 DEF DeliverRaw
      <4> QED
        BY <1>0, <1>1, <1>2, <3>1, <4>1, Constants, PushStep
    <3>2. CASE kern[s].by \notin Handler
      <4>1. th' = th /\ mask' = mask
        BY <2>3, <3>2 DEF DeliverRaw
      <4> QED
        BY <1>0, <1>1, <4>1, StacksStay
    <3> QED
      BY <3>1, <3>2
  <2> QED
    BY <2>1, <2>2, <2>3
<1> QED
  BY <1>4, <1>5 DEF SignalInv

\* Code goes on to frame f; what a call keeps in its frame is not touched.
Moved(t, f) ==
    /\ th[t] # <<>> /\ f \in Frame /\ SetTop(t, f)
    /\ f.sig = Top(t).sig /\ f.saved = Top(t).saved /\ HandOK(f)
    /\ Top(t).at \notin CallLoc /\ f.at \notin CallLoc \cup {"fini"}
    /\ f.at = "reset" => Through(t)
    /\ f.at = "bare" => Top(t).at = "reset"
    /\ \/ mask' = mask
       \/ Top(t).at = "reset" /\ mask' = [mask EXCEPT ![t] = {}]

\* The steps of a handler, and of the end of the process.
QuietStep(t) ==
    \/ ClientAccepts(t) \/ TestIgnore(t) \/ ApplyNothing(t) \/ ApplyDefault(t)
    \/ NotDefault(t) \/ ApplyHandler(t) \/ HandlerReturn(t)
    \/ WinOver(t) \/ ClearMask(t) \/ ReturnBare(t)

\* Only handlers return.
LEMMA PopFrom ==
  ASSUME StacksOK, NEW t \in Thread, th[t] # <<>>, Top(t).at \in HandlerLoc
  PROVE  Len(th[t]) > 1
<1>1. Len(th[t]) \in Nat \ {0} /\ FrameOK(Top(t), Len(th[t]), shoot)
  BY RunFacts
<1>2. Len(th[t]) # 1
  BY <1>1 DEF FrameOK, HandOK
<1>3. ASSUME NEW k \in Nat \ {0}, k # 1
      PROVE  k > 1
  BY <1>3
<1> QED
  BY <1>1, <1>2, <1>3

\* A frame of monitor's handler goes on to another place in it.
LEMMA MoveInHandler ==
  ASSUME StacksOK, NEW t \in Thread, th[t] # <<>>, Top(t).at \in HandlerLoc,
         NEW l \in {"default", "apply", "fault", "ending", "reset", "bare", "winning"},
         Goto(t, l), l = "reset" => Through(t), l = "bare" => Top(t).at = "reset",
         \/ mask' = mask
         \/ Top(t).at = "reset" /\ mask' = [mask EXCEPT ![t] = {}]
  PROVE  \E f \in Frame : Moved(t, f)
<1> DEFINE f == [Top(t) EXCEPT !.at = l]
<1>1. Top(t) \in Frame /\ FrameOK(Top(t), Len(th[t]), shoot)
  BY RunFacts
<1>2. /\ f \in Frame /\ f.at = l /\ f.sig = Top(t).sig /\ f.saved = Top(t).saved
      /\ f.hand = Top(t).hand
  BY <1>1 DEF Frame, Loc, EndLoc
<1>3. SetTop(t, f)
  BY DEF Goto
<1> HIDE DEF f
<1>4. HandOK(f)
  BY <1>1, <1>2 DEF FrameOK, HandOK, CallLoc, How
<1>5. Top(t).at \notin CallLoc /\ f.at \notin CallLoc \cup {"fini"}
  BY <1>2 DEF HandlerLoc, CallLoc, How
<1> QED
  BY <1>2, <1>3, <1>4, <1>5 DEF Moved

\* Each of these steps returns from a handler, or goes on inside its frame.
LEMMA MoveFacts ==
  ASSUME StacksOK, NEW t \in Thread, QuietStep(t) \/ Win(t) \/ ResetAction(t)
  PROVE  \/ Len(th[t]) > 1 /\ Pop(t)
         \/ \E f \in Frame : Moved(t, f)
<1>1. CASE ClientAccepts(t) \/ ApplyNothing(t) \/ ReturnBare(t)
  <2>1. th[t] # <<>> /\ Top(t).at \in HandlerLoc /\ Pop(t)
    BY <1>1 DEF ClientAccepts, ApplyNothing, ReturnBare, At, HandlerLoc
  <2> QED
    BY <2>1, PopFrom
<1>2. CASE HandlerReturn(t)
  BY <1>2 DEF HandlerReturn
<1>3. CASE TestIgnore(t)
  <2>1. /\ th[t] # <<>> /\ Top(t).at \in HandlerLoc
        /\ Pop(t) \/ (Goto(t, "default") /\ mask' = mask)
    BY <1>3 DEF TestIgnore, At, HandlerLoc
  <2>2. CASE Pop(t)
    BY <2>1, <2>2, PopFrom
  <2>3. CASE Goto(t, "default") /\ mask' = mask
    BY <2>1, <2>3, MoveInHandler
  <2> QED
    BY <2>1, <2>2, <2>3
<1>4. CASE ApplyDefault(t) \/ NotDefault(t)
  <2>1. /\ th[t] # <<>> /\ Top(t).at \in HandlerLoc /\ mask' = mask
        /\ Goto(t, "ending") \/ Goto(t, "apply")
    BY <1>4 DEF ApplyDefault, NotDefault, At, HandlerLoc
  <2> QED
    BY <2>1, MoveInHandler
<1>5. CASE ResetAction(t) \/ ClearMask(t)
  <2>1. /\ th[t] # <<>> /\ Top(t).at \in HandlerLoc
        /\ \/ Goto(t, "reset") /\ Through(t) /\ mask' = mask
           \/ Goto(t, "bare") /\ Top(t).at = "reset" /\ mask' = [mask EXCEPT ![t] = {}]
    BY <1>5 DEF ResetAction, ClearMask, At, HandlerLoc
  <2> QED
    BY <2>1, MoveInHandler
<1>6. CASE ApplyHandler(t)
  <2>1. th[t] # <<>> /\ Top(t).at = "apply" /\ Top(t).at \in HandlerLoc /\ mask' = mask
    BY <1>6 DEF ApplyHandler, At, HandlerLoc
  <2> DEFINE d == appl[Top(t).sig].hand
             f == [Top(t) EXCEPT !.at = "run", !.hand = d]
  <2>2. CASE d \in Handler /\ SetTop(t, f)
    <3>1. Top(t) \in Frame /\ FrameOK(Top(t), Len(th[t]), shoot)
      BY <2>1, RunFacts
    <3> HIDE DEF d
    <3>2. /\ f \in Frame /\ f.at = "run" /\ f.sig = Top(t).sig /\ f.saved = Top(t).saved
          /\ f.hand = d
      BY <2>2, <3>1 DEF Frame, Loc
    <3>3. SetTop(t, f)
      BY <2>2
    <3> HIDE DEF f
    <3>4. HandOK(f)
      BY <2>1, <2>2, <3>1, <3>2, Constants DEF FrameOK, HandOK, HandlerLoc
    <3>5. f.at \notin CallLoc \cup {"fini"} /\ Top(t).at \notin CallLoc
      BY <2>1, <3>2 DEF CallLoc, How
    <3> QED
      BY <2>1, <3>2, <3>3, <3>4, <3>5 DEF Moved
  <2>3. CASE Goto(t, "fault")
    BY <2>1, <2>3, MoveInHandler
  <2> QED
    BY <1>6, <2>2, <2>3 DEF ApplyHandler
<1>7. CASE Win(t)
  <2>1. /\ th[t] # <<>> /\ Top(t).at \in {"run", "ending"} /\ mask' = mask
        /\ Goto(t, "winning")
    BY <1>7 DEF Win, At
  <2> DEFINE f == [Top(t) EXCEPT !.at = "winning"]
  <2>2. Top(t) \in Frame /\ FrameOK(Top(t), Len(th[t]), shoot)
    BY <2>1, RunFacts
  <2>3. /\ f \in Frame /\ f.at = "winning" /\ f.sig = Top(t).sig /\ f.saved = Top(t).saved
        /\ f.hand = Top(t).hand
    BY <2>2 DEF Frame, Loc, EndLoc
  <2>4. SetTop(t, f)
    BY <2>1 DEF Goto
  <2> HIDE DEF f
  <2>5. HandOK(f)
    BY <2>2, <2>3 DEF FrameOK, HandOK, HandlerLoc, CallLoc, How
  <2>6. f.at \notin CallLoc \cup {"fini"} /\ Top(t).at \notin CallLoc
    BY <2>1, <2>3 DEF CallLoc, How
  <2> QED
    BY <2>1, <2>3, <2>4, <2>5, <2>6 DEF Moved
<1>8. CASE WinOver(t)
  <2> DEFINE l == IF Top(t).sig # NoSig /\ Top(t).hand = NoHandler THEN "ending" ELSE "run"
             f == [Top(t) EXCEPT !.at = l]
  <2>1. th[t] # <<>> /\ Top(t).at = "winning" /\ mask' = mask /\ SetTop(t, f)
    BY <1>8 DEF WinOver, At, Goto
  <2>2. Top(t) \in Frame /\ FrameOK(Top(t), Len(th[t]), shoot)
    BY <2>1, RunFacts
  <2>3. /\ l \in {"ending", "run"}
        /\ l = "ending" <=> Top(t).sig # NoSig /\ Top(t).hand = NoHandler
    OBVIOUS
  <2> HIDE DEF l
  <2>4. /\ f \in Frame /\ f.at = l /\ f.sig = Top(t).sig /\ f.saved = Top(t).saved
        /\ f.hand = Top(t).hand
    BY <2>2, <2>3 DEF Frame, Loc, EndLoc
  <2> HIDE DEF f
  <2>5. HandOK(f)
    BY <2>2, <2>3, <2>4 DEF FrameOK, HandOK, HandlerLoc, CallLoc, How
  <2>6. f.at \notin CallLoc \cup {"fini"} /\ Top(t).at \notin CallLoc
    BY <2>1, <2>3, <2>4 DEF CallLoc, How
  <2> QED
    BY <2>1, <2>3, <2>4, <2>5, <2>6 DEF Moved
<1> QED
  BY <1>1, <1>2, <1>3, <1>4, <1>5, <1>6, <1>7, <1>8 DEF QuietStep

LEMMA MovedStep ==
  ASSUME TableTypes, StacksOK, NEW t \in Thread, NEW f \in Frame, Moved(t, f), SameImage
  PROVE  StacksOK' /\ OpenKept
<1>1. /\ th[t] # <<>> /\ SetTop(t, f) /\ f.sig = Top(t).sig /\ f.saved = Top(t).saved
      /\ HandOK(f) /\ Top(t).at \notin CallLoc /\ f.at \notin CallLoc \cup {"fini"}
      /\ \/ mask' = mask
         \/ Top(t).at = "reset" /\ mask' = [mask EXCEPT ![t] = {}]
  BY DEF Moved
<1>2. Top(t) \in Frame /\ FrameOK(Top(t), Len(th[t]), shoot) /\ mask[t] \in SUBSET Sig
  BY <1>1, RunFacts
<1>3. /\ f.at \notin {"system", "fini", "adjust", "install"} /\ Top(t).at # "system"
      /\ f.at \notin How
  BY <1>1 DEF CallLoc
<1>4. FrameOK(f, Len(th[t]), shoot)
  BY <1>1, <1>2, <1>3 DEF FrameOK
<1>5. CASE mask' = mask
  BY <1>1, <1>3, <1>4, <1>5, TopStep
<1>6. CASE Top(t).at = "reset" /\ mask' = [mask EXCEPT ![t] = {}]
  <2>1. Len(th[t]) # 1
    BY <1>2, <1>6 DEF FrameOK, HandOK, HandlerLoc
  <2>2. SetOK(f, {}, Kept)
    BY <1>3 DEF SetOK, How
  <2>3. {} \in SUBSET Sig
    OBVIOUS
  <2> QED
    BY <1>1, <1>3, <1>4, <1>6, <2>1, <2>2, <2>3, TopMaskStep
<1> QED
  BY <1>1, <1>5, <1>6

LEMMA QuietSteps ==
  ASSUME SignalInv, NEW t \in Thread, QuietStep(t)
  PROVE  SignalInv' /\ OpenKept
<1>0. TableTypes /\ KernPart /\ StacksOK
  BY DEF SignalInv
<1>1. TablesKept /\ UNCHANGED <<histVars, calls, winner>> /\ SameImage
  BY DEF QuietStep, ClientAccepts, TestIgnore, ApplyNothing, ApplyDefault, NotDefault,
     ApplyHandler, HandlerReturn, WinOver, ClearMask, ReturnBare, TablesKept, tableVars,
     SameImage, endVars, histVars
<1>2. status' \in {status, "signalled"} /\ over' \in {over, TRUE}
  BY DEF QuietStep, ClientAccepts, TestIgnore, ApplyNothing, ApplyDefault, NotDefault,
     ApplyHandler, HandlerReturn, WinOver, ClearMask, ReturnBare, endVars
<1>3. TableTypes' /\ KernPart'
  <2>1. /\ status' \in {"up", "exiting", "signalled", "dead"} /\ over' \in BOOLEAN
        /\ winner' \in Thread \cup {NoThread} /\ calls' \in 0..MaxCalls
    BY <1>0, <1>1, <1>2 DEF TableTypes
  <2> QED
    BY <1>0, <1>1, <2>1, TablesStay
<1>4. StacksOK' /\ OpenKept
  <2>1. CASE Len(th[t]) > 1 /\ Pop(t)
    BY <1>0, <1>1, <2>1, PopStep
  <2>2. CASE \E f \in Frame : Moved(t, f)
    BY <1>0, <1>1, <2>2, MovedStep
  <2> QED
    BY <1>0, <2>1, <2>2, MoveFacts
<1> QED
  BY <1>3, <1>4 DEF SignalInv

LEMMA SystemSteps ==
  ASSUME SignalInv, NEW t \in Thread, System(t) \/ SystemReturn(t)
  PROVE  SignalInv' /\ OpenKept
<1>0. TableTypes /\ KernPart /\ StacksOK
  BY DEF SignalInv
<1>1. /\ UNCHANGED <<shoot, keepOpen, appl, kernAct, client, status, inherited, late, loose,
                     winner, over>>
      /\ kern \in [Sig -> KernRecord]
  BY <1>0 DEF System, SystemReturn, TableTypes, endVars, histVars
<1>2. CASE System(t)
  <2>1. /\ Call(t) /\ tangled' = tangled \cup UNION {Overlapping(s) : s \in SystemIgnores}
        /\ kern' = [s \in Sig |-> IF s \in SystemIgnores THEN [by |-> "ign", mask |-> {}]
                                                         ELSE kern[s]]
    BY <1>2 DEF System
  <2>2. calls' \in 0..MaxCalls
    BY <1>0, <2>1, CallFacts
  <2>3. tangled' \subseteq Sig
    BY <1>0, <2>1, Constants DEF TableTypes, Overlapping
  <2>4. [by |-> "ign", mask |-> {}] \in KernRecord
    BY DEF KernRecord, Disposition
  <2>5. kern' \in [Sig -> KernRecord]
    BY <1>1, <2>1, <2>4
  <2>6. TableTypes'
    BY <1>0, <1>1, <2>2, <2>3, <2>5 DEF TableTypes
  <2>7. KernPart'
    BY <1>0, <1>1, <2>1, Constants DEF KernPart
  <2>8. StacksOK' /\ OpenKept
    BY <1>0, <1>2, SystemStep
  <2> QED
    BY <2>6, <2>7, <2>8 DEF SignalInv
<1>3. CASE SystemReturn(t)
  <2>1. /\ th[t] # <<>> /\ UNCHANGED <<calls, tangled>>
        /\ kern' = [s \in Sig |-> IF s \in SystemIgnores THEN Top(t).old[s] ELSE kern[s]]
    BY <1>3 DEF SystemReturn, At, histVars
  <2>2. Top(t).old \in [SystemIgnores -> KernRecord]
    BY <1>0, <2>1, RunFacts DEF Frame
  <2>3. kern' \in [Sig -> KernRecord]
    BY <1>1, <2>1, <2>2
  <2>4. TableTypes'
    BY <1>0, <1>1, <2>1, <2>3 DEF TableTypes
  <2>5. StacksOK' /\ OpenKept /\ \A s \in SystemIgnores : OldOK(Top(t).old[s], s, shoot)
    BY <1>0, <1>3, SystemReturnStep
  <2>6. KernPart'
    <3>1. ASSUME NEW s \in Sig
          PROVE  /\ s \in Managed => kern'[s].by \in {"monitor", "shootdown", "ign", "dfl"}
                 /\ kern'[s].by = "monitor" => s \in Managed
                 /\ kern'[s].by = "shootdown" => s = shoot' /\ s \in Managed
      <4>1. CASE s \in SystemIgnores
        <5>1. kern'[s] = Top(t).old[s] /\ OldOK(Top(t).old[s], s, shoot) /\ s \in Managed
          BY <2>1, <2>5, <4>1, Constants
        <5> QED
          BY <1>1, <5>1 DEF OldOK
      <4>2. CASE s \notin SystemIgnores
        BY <1>0, <1>1, <2>1, <4>2 DEF KernPart
      <4> QED
        BY <4>1, <4>2
    <3> QED
      BY <3>1, Constants DEF KernPart
  <2> QED
    BY <2>4, <2>5, <2>6 DEF SignalInv
<1> QED
  BY <1>2, <1>3

\* What the winner and the end of a handler do to the kernel's dispositions.
LEMMA KernSteps ==
  ASSUME SignalInv, NEW t \in Thread, Win(t) \/ ResetAction(t)
  PROVE  SignalInv' /\ OpenKept
<1>0. TableTypes /\ KernPart /\ StacksOK
  BY DEF SignalInv
<1>1. /\ UNCHANGED <<shoot, keepOpen, appl, kernAct, client, over, calls, inherited,
                     tangled, late, loose>>
      /\ kern \in [Sig -> KernRecord] /\ shoot \in Sig \ Avoid /\ SameImage
  BY <1>0 DEF Win, ResetAction, TableTypes, SameImage, endVars, histVars
<1>2. status' \in {status, "exiting", "dead"} /\ winner' \in {winner, t}
  BY DEF Win, ResetAction, endVars
<1>3. StacksOK' /\ OpenKept
  <2>1. CASE Len(th[t]) > 1 /\ Pop(t)
    BY <1>0, <1>1, <2>1, PopStep
  <2>2. CASE \E f \in Frame : Moved(t, f)
    BY <1>0, <1>1, <2>2, MovedStep
  <2> QED
    BY <1>0, <2>1, <2>2, MoveFacts
<1>4. ASSUME kern' \in [Sig -> KernRecord]
      PROVE  TableTypes'
  BY <1>0, <1>1, <1>2, <1>4 DEF TableTypes
<1>5. CASE Win(t)
  <2>1. CASE kern' = kern
    <3>1. KernPart'
      BY <1>0, <1>1, <2>1 DEF KernPart
    <3> QED
      BY <1>1, <1>3, <1>4, <2>1, <3>1 DEF SignalInv
  <2>2. ASSUME shoot \notin Invalid,
               kern' = [kern EXCEPT ![shoot] = [by |-> "shootdown", mask |-> {}]]
        PROVE  SignalInv' /\ OpenKept
    <3> DEFINE k == [by |-> "shootdown", mask |-> {}]
    <3>1. k \in KernRecord /\ k.by = "shootdown" /\ kern' = [kern EXCEPT ![shoot] = k]
      BY <2>2 DEF KernRecord
    <3> HIDE DEF k
    <3>2. /\ kern' \in [Sig -> KernRecord]
          /\ kern'[shoot] = k /\ \A r \in Sig : r # shoot => kern'[r] = kern[r]
      BY <1>1, <3>1
    <3>3. shoot \in Managed
      BY <1>1, <2>2 DEF Managed
    <3>4. KernPart'
      BY <1>0, <1>1, <3>1, <3>2, <3>3, Constants DEF KernPart
    <3> QED
      BY <1>3, <1>4, <3>2, <3>4 DEF SignalInv
  <2>3. \/ kern' = kern
        \/ /\ shoot \notin Invalid
           /\ kern' = [kern EXCEPT ![shoot] = [by |-> "shootdown", mask |-> {}]]
    BY <1>5 DEF Win
  <2> QED
    BY <2>1, <2>2, <2>3
<1>6. CASE ResetAction(t)
  <2> DEFINE k == [by |-> "dfl", mask |-> {}]
  <2>1. k \in KernRecord /\ k.by = "dfl" /\ kern' = [kern EXCEPT ![Top(t).sig] = k]
    BY <1>6 DEF ResetAction, KernRecord, Disposition
  <2> HIDE DEF k
  <2>2. /\ kern' \in [Sig -> KernRecord]
        /\ \A r \in Sig : kern'[r] = kern[r] \/ kern'[r] = k
    BY <1>1, <2>1
  <2>3. KernPart'
    BY <1>0, <1>1, <2>1, <2>2, Constants DEF KernPart
  <2> QED
    BY <1>3, <1>4, <2>2, <2>3 DEF SignalInv
<1> QED
  BY <1>5, <1>6

LEMMA DieStep ==
  ASSUME SignalInv, NEW t \in Thread, Die(t)
  PROVE  SignalInv' /\ OpenKept
<1>0. TableTypes /\ KernPart /\ StacksOK
  BY DEF SignalInv
<1>1. /\ TablesKept /\ UNCHANGED <<histVars, winner, over, calls, mask>>
      /\ status' = "dead" /\ th' = [u \in Thread |-> <<>>]
  BY DEF Die, TablesKept, endVars
<1>2. TableTypes' /\ KernPart'
  BY <1>0, <1>1, TablesStay DEF TableTypes
<1>3. shoot' = shoot
  BY <1>1 DEF TablesKept, tableVars
<1>4. ASSUME NEW u \in Thread
      PROVE  /\ StackOK(th'[u], mask'[u], shoot', Kept')
             /\ OpenOK(th'[u], mask'[u], shoot', inherited')
  <2>1. th'[u] = <<>>
    BY <1>1
  <2>2. StackOK(<<>>, mask'[u], shoot', Kept')
    BY BaseFacts
  <2> QED
    BY <2>1, <2>2 DEF OpenOK
<1>5. th' \in [Thread -> Seq(Frame)]
  BY <1>1, EmptySeq
<1>6. mask' \in [Thread -> SUBSET Sig]
  BY <1>0, <1>1 DEF StacksOK
<1>7. StacksOK' /\ OpenKept
  BY <1>1, <1>4, <1>5, <1>6 DEF StacksOK, OpenKept
<1> QED
  BY <1>2, <1>7 DEF SignalInv

\* Only the status of the process changes.
LEMMA StatusSteps ==
  ASSUME SignalInv, NEW t \in Thread, Fault(t) \/ ExitAgain(t) \/ ExecFails(t)
  PROVE  SignalInv' /\ OpenKept
<1>0. TableTypes /\ KernPart /\ StacksOK
  BY DEF SignalInv
<1>1. /\ TablesKept /\ UNCHANGED <<histVars, winner, over, calls, mask, th>>
      /\ status' \in {"up", "exiting", "dead"}
  BY DEF Fault, ExitAgain, ExecFails, TablesKept, endVars
<1>2. TableTypes' /\ KernPart'
  BY <1>0, <1>1, TablesStay DEF TableTypes
<1>3. SameImage
  BY <1>1 DEF TablesKept, tableVars, histVars, SameImage
<1>4. StacksOK' /\ OpenKept
  BY <1>0, <1>1, <1>3, StacksStay
<1> QED
  BY <1>2, <1>4 DEF SignalInv

-----------------------------------------------------------------------------
(* New images. *)

\* The fields of Fresh, for dispositions that no handler has.
LEMMA FreshFacts ==
  ASSUME NEW inh \in [Sig -> {"dfl", "ign"}], NEW env \in FromEnv
  PROVE  LET f == Fresh(inh, env) IN
         /\ f.shoot \in Sig \ Avoid
         /\ OpenList \cup {f.shoot} \subseteq f.keepOpen /\ f.keepOpen \subseteq Sig
         /\ f.appl \in [Sig -> ApplRecord] /\ f.kernAct \in [Sig -> SUBSET Sig]
         /\ f.kern \in [Sig -> KernRecord]
         /\ \A s \in Managed : f.kern[s].by = "monitor"
         /\ \A s \in Sig \ Managed : f.kern[s].by \in {"dfl", "ign"}
<1> DEFINE sd == ChooseShootdown(env)
<1>1. sd \in Sig \ Avoid
  BY ChoiceFacts
<1> HIDE DEF sd
<1>2. Fresh(inh, env) =
        [shoot    |-> sd,
         keepOpen |-> OpenList \cup {sd},
         appl     |-> [s \in Sig |-> [hand |-> inh[s], mask |-> {}]],
         kernAct  |-> [s \in Sig |-> IF s \in Avoid THEN {} ELSE {sd}],
         kern     |-> [s \in Sig |->
                         IF s \in Managed THEN [by |-> "monitor", mask |-> {sd}]
                                          ELSE [by |-> inh[s], mask |-> {}]]]
  BY DEF Fresh, sd
<1>3. \A s \in Sig : [hand |-> inh[s], mask |-> {}] \in ApplRecord
  BY DEF ApplRecord, Disposition
<1>4. \A s \in Sig : [by |-> inh[s], mask |-> {}] \in KernRecord
  BY DEF KernRecord, Disposition
<1>5. [by |-> "monitor", mask |-> {sd}] \in KernRecord
  BY <1>1 DEF KernRecord
<1>6. Fresh(inh, env).shoot \in Sig \ Avoid
  BY <1>1, <1>2
<1>7. /\ OpenList \cup {Fresh(inh, env).shoot} \subseteq Fresh(inh, env).keepOpen
      /\ Fresh(inh, env).keepOpen \subseteq Sig
  BY <1>1, <1>2, Constants
<1>8. Fresh(inh, env).appl \in [Sig -> ApplRecord]
  BY <1>2, <1>3
<1>9. Fresh(inh, env).kernAct \in [Sig -> SUBSET Sig]
  BY <1>1, <1>2
<1>10. /\ Fresh(inh, env).kern =
            [s \in Sig |-> IF s \in Managed THEN [by |-> "monitor", mask |-> {sd}]
                                            ELSE [by |-> inh[s], mask |-> {}]]
  BY <1>2
<1>11. Fresh(inh, env).kern \in [Sig -> KernRecord]
  BY <1>4, <1>5, <1>10
<1>12. /\ \A s \in Managed : Fresh(inh, env).kern[s].by = "monitor"
       /\ \A s \in Sig \ Managed : Fresh(inh, env).kern[s].by \in {"dfl", "ign"}
  BY <1>10, Constants
<1> QED
  BY <1>6, <1>7, <1>8, <1>9, <1>11, <1>12

LEMMA ExecStep ==
  ASSUME SignalInv, NEW t \in Thread, Exec(t)
  PROVE  SignalInv'
<1>0. TableTypes /\ KernPart /\ StacksOK
  BY DEF SignalInv
<1>1. PICK env \in FromEnv :
        LET f == Fresh(KeptByExec, env) IN
        /\ shoot' = f.shoot /\ keepOpen' = f.keepOpen
        /\ appl' = f.appl /\ kernAct' = f.kernAct /\ kern' = f.kern
  BY DEF Exec
<1>2. KeptByExec \in [Sig -> {"dfl", "ign"}]
  BY DEF KeptByExec
<1> DEFINE f == Fresh(KeptByExec, env)
<1>3. /\ f.shoot \in Sig \ Avoid
      /\ OpenList \cup {f.shoot} \subseteq f.keepOpen /\ f.keepOpen \subseteq Sig
      /\ f.appl \in [Sig -> ApplRecord] /\ f.kernAct \in [Sig -> SUBSET Sig]
      /\ f.kern \in [Sig -> KernRecord]
      /\ \A s \in Managed : f.kern[s].by = "monitor"
      /\ \A s \in Sig \ Managed : f.kern[s].by \in {"dfl", "ign"}
  BY <1>2, FreshFacts
<1>4. /\ shoot' = f.shoot /\ keepOpen' = f.keepOpen
      /\ appl' = f.appl /\ kernAct' = f.kernAct /\ kern' = f.kern
  BY <1>1
<1> HIDE DEF f
<1>5. /\ client' = {} /\ inherited' = mask[t] /\ status' = "up" /\ tangled' = {}
      /\ late' = {} /\ loose' = {} /\ winner' = NoThread /\ over' = FALSE /\ calls' = calls
      /\ th' = [u \in Thread |-> IF u = Main THEN <<Base>> ELSE <<>>]
      /\ mask' = [u \in Thread |-> IF u = Main THEN mask[t] ELSE {}]
  BY DEF Exec
<1>6. mask[t] \in SUBSET Sig
  BY <1>0 DEF StacksOK
<1>7. TableTypes'
  BY <1>0, <1>3, <1>4, <1>5, <1>6 DEF TableTypes
<1>8. KernPart'
  BY <1>3, <1>4 DEF KernPart
<1>9. StacksOK'
  <2>1. {Main} \in SUBSET Thread
    BY Constants
  <2>2. th' = [u \in Thread |-> IF u \in {Main} THEN <<Base>> ELSE <<>>]
    BY <1>5
  <2>3. mask' \in [Thread -> SUBSET Sig] /\ \A u \in {Main} : mask'[u] \subseteq mask[t]
    BY <1>5, <1>6, Constants
  <2> QED
    BY <1>0, <1>5, <1>6, <2>1, <2>2, <2>3, ImageStep
<1> QED
  BY <1>7, <1>8, <1>9 DEF SignalInv

LEMMA InitHolds ==
  ASSUME Init
  PROVE  SignalInv
<1>1. PICK ign \in InheritedIgn, env \in FromEnv :
        LET f == Fresh([s \in Sig |-> IF s \in ign THEN "ign" ELSE "dfl"], env) IN
        /\ shoot = f.shoot /\ keepOpen = f.keepOpen
        /\ appl = f.appl /\ kernAct = f.kernAct /\ kern = f.kern
  BY DEF Init
<1> DEFINE inh == [s \in Sig |-> IF s \in ign THEN "ign" ELSE "dfl"]
           f == Fresh(inh, env)
<1>2. inh \in [Sig -> {"dfl", "ign"}]
  OBVIOUS
<1>4. /\ shoot = f.shoot /\ keepOpen = f.keepOpen
      /\ appl = f.appl /\ kernAct = f.kernAct /\ kern = f.kern
  BY <1>1
<1> HIDE DEF inh
<1>3. /\ f.shoot \in Sig \ Avoid
      /\ OpenList \cup {f.shoot} \subseteq f.keepOpen /\ f.keepOpen \subseteq Sig
      /\ f.appl \in [Sig -> ApplRecord] /\ f.kernAct \in [Sig -> SUBSET Sig]
      /\ f.kern \in [Sig -> KernRecord]
      /\ \A s \in Managed : f.kern[s].by = "monitor"
      /\ \A s \in Sig \ Managed : f.kern[s].by \in {"dfl", "ign"}
  BY <1>2, FreshFacts
<1> HIDE DEF f
<1>5. /\ client = {} /\ inherited \in SUBSET Sig /\ status = "up" /\ tangled = {}
      /\ late = {} /\ loose = {} /\ winner = NoThread /\ over = FALSE /\ calls = 0
      /\ th = [u \in Thread |-> IF u = Main THEN <<Base>> ELSE <<>>]
      /\ mask = [u \in Thread |-> IF u = Main THEN inherited ELSE {}]
  BY Constants DEF Init
<1>6. /\ OpenList \cup {shoot} \subseteq keepOpen \ late /\ client \subseteq ClientSig
      /\ \A set \in {inherited, tangled, late, loose} : set \subseteq Sig
      /\ calls \in 0..MaxCalls
  BY <1>3, <1>4, <1>5, Constants
<1>7. TableTypes
  BY <1>3, <1>4, <1>5, <1>6 DEF TableTypes
<1>8. KernPart
  BY <1>3, <1>4 DEF KernPart
<1>9. StacksOK
  <2>1. ASSUME NEW u \in Thread
        PROVE  StackOK(th[u], mask[u], shoot, Kept) /\ OpenOK(th[u], mask[u], shoot, inherited)
    <3>1. CASE u = Main
      <4>1. th[u] = <<Base>> /\ mask[u] = inherited
        BY <1>5, <3>1
      <4>2. StackOK(<<Base>>, inherited, shoot, Kept) /\ BaseOf(<<Base>>, inherited) = inherited
        BY BaseFacts
      <4> QED
        BY <4>1, <4>2 DEF OpenOK
    <3>2. CASE u # Main
      <4>1. th[u] = <<>>
        BY <1>5, <3>2
      <4>2. StackOK(<<>>, mask[u], shoot, Kept)
        BY BaseFacts
      <4> QED
        BY <4>1, <4>2 DEF OpenOK
    <3> QED
      BY <3>1, <3>2
  <2>2. th \in [Thread -> Seq(Frame)]
    <3>1. <<Base>> \in Seq(Frame) /\ <<>> \in Seq(Frame)
      BY BaseFacts, EmptySeq
    <3> QED
      BY <1>5, <3>1
  <2>3. mask \in [Thread -> SUBSET Sig]
    BY <1>5
  <2> QED
    BY <2>1, <2>2, <2>3 DEF StacksOK
<1> QED
  BY <1>7, <1>8, <1>9 DEF SignalInv

\* A step that is not an exec keeps the invariant and closes no thread.
LEMMA StepKeeps ==
  ASSUME SignalInv, [Next]_vars
  PROVE  SignalInv' /\ (OpenKept \/ \E u \in Thread : Exec(u))
<1>1. ASSUME NEW t \in Thread, CallStep(t)
      PROVE  SignalInv' /\ OpenKept
  <2>1. ASSUME NEW s \in Sig, NEW act \in Act[s],
               StoreAction(t, s, act) \/ AvoidAction(t, s, act)
        PROVE  SignalInv' /\ OpenKept
    BY <2>1, StoreActionStep, AvoidActionStep
  <2>2. ASSUME NEW s \in Sig, ClientAction(t, s)
        PROVE  SignalInv' /\ OpenKept
    BY <2>2, ClientActionStep
  <2>3. CASE \/ \E how \in How, set \in MaskOf : Sigprocmask(t, how, set)
             \/ \E u \in Thread : CreateThread(t, u)
    BY <2>3, MaskOnlySteps
  <2>4. CASE System(t)
    BY <2>4, SystemSteps
  <2> QED
    BY <1>1, <2>1, <2>2, <2>3, <2>4 DEF CallStep
<1>2. ASSUME NEW t \in Thread, SignalStep(t)
      PROVE  SignalInv' /\ OpenKept
  <2>1. ASSUME NEW s \in Sig, Deliver(t, s) \/ DeliverShootdown(t, s) \/ DeliverRaw(t, s)
        PROVE  SignalInv' /\ OpenKept
    BY <2>1, DeliverSteps
  <2>2. CASE QuietStep(t)
    BY <2>2, QuietSteps
  <2>3. CASE Fault(t)
    BY <2>3, StatusSteps
  <2> QED
    BY <1>2, <2>1, <2>2, <2>3 DEF SignalStep, QuietStep
<1>3. ASSUME NEW t \in Thread,
             \/ AdjustAction(t) \/ InstallAction(t) \/ RealSigprocmask(t)
             \/ SystemReturn(t)
      PROVE  SignalInv' /\ OpenKept
  BY <1>3, AdjustActionStep, InstallActionStep, MaskOnlySteps, SystemSteps
<1>4. ASSUME NEW t \in Thread, EndStep(t)
      PROVE  SignalInv' /\ (OpenKept \/ Exec(t))
  <2>1. CASE Win(t) \/ ResetAction(t)
    BY <2>1, KernSteps
  <2>2. CASE WinOver(t) \/ ClearMask(t) \/ ReturnBare(t)
    BY <2>2, QuietSteps DEF QuietStep
  <2>3. CASE ExitAgain(t) \/ Die(t) \/ ExecFails(t)
    BY <2>3, StatusSteps, DieStep
  <2>4. CASE Exec(t)
    BY <2>4, ExecStep
  <2> QED
    BY <1>4, <2>1, <2>2, <2>3, <2>4 DEF EndStep
<1>5. CASE UNCHANGED vars
  <2>0. TableTypes /\ KernPart /\ StacksOK
    BY DEF SignalInv
  <2>1. TablesKept /\ UNCHANGED <<histVars, winner, over, calls, mask, status, th>>
    BY <1>5 DEF vars, TablesKept, endVars
  <2>2. TableTypes' /\ KernPart'
    BY <2>0, <2>1, TablesStay DEF TableTypes
  <2>3. SameImage
    BY <2>1 DEF TablesKept, tableVars, histVars, SameImage
  <2>4. StacksOK' /\ OpenKept
    BY <2>0, <2>1, <2>3, StacksStay
  <2> QED
    BY <2>2, <2>4 DEF SignalInv
<1>6. CASE Next
  <2>1. \/ \E t \in Thread :
             \/ CallStep(t) \/ SignalStep(t) \/ EndStep(t)
             \/ \/ AdjustAction(t) \/ InstallAction(t) \/ RealSigprocmask(t)
                \/ SystemReturn(t)
        \/ UNCHANGED vars
    BY <1>6 DEF Next
  <2> QED
    BY <2>1, <1>1, <1>2, <1>3, <1>4, <1>5
<1> QED
  BY <1>5, <1>6

-----------------------------------------------------------------------------
(* Theorems. *)

\* The inductive invariant: typed tables, who may catch a signal, known frames on
\* every stack and what the mask saved below each frame leaves open.
THEOREM SignalInvariant == Spec => []SignalInv
<1>1. Init => SignalInv
  BY InitHolds
<1>2. SignalInv /\ [Next]_vars => SignalInv'
  BY StepKeeps
<1> QED
  BY <1>1, <1>2, PTL DEF Spec

\* Types and the shape of stacks, for any instance.
THEOREM TypeCorrect == Spec => []TypeOK
<1>1. SignalInv => TypeOK
  <2> SUFFICES ASSUME SignalInv PROVE TypeOK
    OBVIOUS
  <2>0. TableTypes /\ KernPart /\ StacksOK
    BY DEF SignalInv
  <2>1. ASSUME NEW t \in Thread
        PROVE  /\ th[t] \in Seq(Frame)
               /\ \A i \in DOMAIN th[t] :
                    /\ (i = 1) = (th[t][i].sig = NoSig)
                    /\ th[t][i].at = "system" => i = 1
                    /\ i < Len(th[t]) => th[t][i].at # "fini" \/ th[t][i + 1].sig # shoot
    <3>1. th[t] \in Seq(Frame) /\ StackOK(th[t], mask[t], shoot, Kept)
      BY <2>0 DEF StacksOK
    <3>2. DOMAIN th[t] = 1..Len(th[t])
      BY <3>1, LenProperties
    <3>3. ASSUME NEW i \in 1..Len(th[t])
          PROVE  /\ (i = 1) = (th[t][i].sig = NoSig)
                 /\ th[t][i].at = "system" => i = 1
                 /\ i < Len(th[t]) => th[t][i].at # "fini" \/ th[t][i + 1].sig # shoot
      BY <3>1 DEF StackOK, FrameOK
    <3> QED
      BY <3>1, <3>2, <3>3
  <2>2. \A s \in Avoid \cup Invalid : kern[s].by # "monitor"
    BY <2>0, SignalAssumption DEF KernPart, Managed
  <2>3. mask \in [Thread -> SUBSET Sig]
    BY <2>0 DEF StacksOK
  <2> QED
    BY <2>0, <2>1, <2>2, <2>3 DEF TypeOK, TableTypes
<1> QED
  BY <1>1, SignalInvariant, PTL

\* Whatever calls and handlers nest, however threads start and images follow one
\* another, no thread's own code runs closed to the shootdown signal or to what
\* configure reserves, unless its image was started so.
THEOREM AlwaysOpen == Spec => []ShootOpen
<1>1. SignalInv => ShootOpen
  <2> SUFFICES ASSUME SignalInv, NEW t \in Thread, th[t] # <<>>
               PROVE  BaseMask(t) \cap (OpenList \cup {shoot}) \cap Managed \subseteq inherited
    BY DEF ShootOpen
  <2>1. th[t] \in Seq(Frame) /\ OpenOK(th[t], mask[t], shoot, inherited)
    BY DEF SignalInv, StacksOK
  <2>2. BaseMask(t) = BaseOf(th[t], mask[t])
    BY <2>1, BaseIsMask
  <2> QED
    BY <2>1, <2>2 DEF OpenOK
<1> QED
  BY <1>1, SignalInvariant, PTL

\* Only an exec closes a thread to a signal that is kept open for the client.
THEOREM NeverCloses == Spec => OpenStays
<1> DEFINE Closes == \E t \in Thread, s \in Kept :
                        th[t] # <<>> /\ th'[t] # <<>> /\ s \notin BaseMask(t)
                            /\ s \in BaseMask(t)'
           Execs == \E u \in Thread : Exec(u)
<1>1. SignalInv /\ [Next]_vars => [Closes => Execs]_vars
  <2> SUFFICES ASSUME SignalInv, [Next]_vars, Closes
               PROVE  Execs
    OBVIOUS
  <2>1. PICK t \in Thread, s \in Kept :
          th[t] # <<>> /\ th'[t] # <<>> /\ s \notin BaseMask(t) /\ s \in BaseMask(t)'
    OBVIOUS
  <2>2. SignalInv' /\ (OpenKept \/ Execs)
    BY StepKeeps
  <2>3. BaseMask(t) = BaseOf(th[t], mask[t]) /\ BaseMask(t)' = BaseOf(th'[t], mask'[t])
    BY DEF BaseMask, BaseOf
  <2>4. ~OpenKept
    BY <2>1, <2>3 DEF OpenKept, StaysOpen
  <2> QED
    BY <2>2, <2>4
<1> QED
  BY <1>1, SignalInvariant, PTL DEF Spec, OpenStays

-----------------------------------------------------------------------------
(* The table and the kernel, for a signal about which no two calls overlapped. *)

\* The mask of the table has been adjusted.
Adjusted(s) ==
    /\ shoot \in kernAct[s]
    /\ s \notin client => \E k \in SUBSET keepOpen : kernAct[s] = AdjustSamask(appl[s].mask \ k)

\* What the kernel has, or what system puts back, is what the table says, unless a
\* handler that ends the process has taken the default.
Good(s, k) ==
    \/ k.by = "dfl"
    \/ k.by = "shootdown" /\ s = shoot
    \/ k.by = "monitor" /\ k.mask = kernAct[s] /\ Adjusted(s)

\* A call has stored the application's mask, adjusted it, or put it aside.
CallOK(f) ==
    /\ f.at = "adjust" /\ f.on \notin tangled =>
         f.on \in client \/ kernAct[f.on] = appl[f.on].mask \/ Adjusted(f.on)
    /\ f.at = "install" /\ f.on \notin tangled => Adjusted(f.on)
    /\ f.at = "system" => \A s \in SystemIgnores \ tangled : Good(s, f.old[s])

\* The shootdown signal is blocked in the handler of monitor.
BlockPart == \A s \in Managed \ tangled : kern[s].by = "monitor" => shoot \in kern[s].mask

\* Outside the calls about it, and outside system, the kernel has a signal as the
\* table does.
SamePart ==
    status # "dead" =>
    \A s \in Managed \ tangled :
        (InSystem /\ s \in SystemIgnores) \/ InCallOn(s) \/ Good(s, kern[s])

\* A call made while system holds the signal marks it.
OverlapPart == \A s \in SystemIgnores \ tangled : ~(InSystem /\ InCallOn(s))

TableInv ==
    /\ BlockPart /\ SamePart /\ OverlapPart
    /\ \A f \in Frames : CallOK(f)

\* From a frame of monitor's handler on, the shootdown signal is blocked, and
\* a shootdown handler was entered where it was not.
NestOK(st, m, sd, tang) ==
    /\ \A i \in 1..Len(st) : st[i].at \notin {"reset", "bare"}
    /\ \A i \in 1..Len(st) : st[i].at = "fini" => sd \in Managed /\ sd \notin st[i].saved
    /\ \A j \in 2..Len(st) : sd \in Managed /\ st[j].sig \in Managed \ tang =>
         \A i \in j..Len(st) : sd \in MaskIn(st, m, i)

\* What that is for, and what is left of it once the callbacks are through.
FlatOK(st, tang) ==
    \A j, i \in 2..Len(st) : j < i /\ st[j].sig \in Managed \ tang => st[i].at # "fini"

Nested(st, m, sd, tang, ov) ==
    /\ ~ov => NestOK(st, m, sd, tang)
    /\ ov => FlatOK(st, tang)

NestInv == \A t \in Thread : t # winner => Nested(th[t], mask[t], shoot, tangled, over)

-----------------------------------------------------------------------------
(* Handlers that nest. *)

LEMMA NestIsFlat ==
  ASSUME NEW st \in Seq(Frame), NEW m, NEW sd, NEW tang, NestOK(st, m, sd, tang)
  PROVE  FlatOK(st, tang)
<1> SUFFICES ASSUME NEW j \in 2..Len(st), NEW i \in 2..Len(st), j < i,
                    st[j].sig \in Managed \ tang, st[i].at = "fini"
             PROVE  FALSE
  BY DEF FlatOK
<1>1. Len(st) \in Nat
  BY LenProperties
<1>2. /\ i \in 1..Len(st) /\ i - 1 \in j..Len(st) /\ i - 1 # Len(st)
      /\ (i - 1) + 1 = i
  BY <1>1
<1>3. sd \in Managed /\ sd \notin st[i].saved
  BY <1>2 DEF NestOK
<1>4. sd \in MaskIn(st, m, i - 1)
  BY <1>2, <1>3 DEF NestOK
<1> QED
  BY <1>2, <1>3, <1>4 DEF MaskIn

LEMMA NestPush ==
  ASSUME NEW st \in Seq(Frame), st # <<>>, NEW new, NEW f \in Frame, Pushed(st, new, f),
         NEW m, NEW m2, NEW sd, NEW tang, NestOK(st, m, sd, tang), m \subseteq m2,
         f.saved = m, f.at = "fini" => sd \in Managed /\ sd \notin m,
         sd \in Managed /\ f.sig \in Managed \ tang => sd \in m2,
         f.at \notin {"reset", "bare"}
  PROVE  NestOK(new, m2, sd, tang)
<1>1. Len(st) \in Nat \ {0} /\ Len(new) = Len(st) + 1
  BY StackFacts DEF Pushed
<1>2. /\ \A i \in 1..Len(st) : new[i] = st[i]
      /\ new[Len(st) + 1] = f
  BY DEF Pushed
<1>3. /\ \A i \in 1..Len(st) : MaskIn(new, m2, i) = MaskIn(st, m, i)
      /\ MaskIn(new, m2, Len(st) + 1) = m2 /\ MaskIn(st, m, Len(st)) = m
  BY <1>1, <1>2 DEF MaskIn
<1>4. ASSUME NEW i \in 1..Len(new), new[i].at = "fini"
      PROVE  sd \in Managed /\ sd \notin new[i].saved
  <2>1. CASE i \in 1..Len(st)
    BY <1>2, <1>4, <2>1 DEF NestOK
  <2>2. CASE i = Len(st) + 1
    BY <1>2, <1>4, <2>2
  <2> QED
    BY <1>1, <2>1, <2>2
<1>5. ASSUME NEW j \in 2..Len(new), sd \in Managed, new[j].sig \in Managed \ tang,
             NEW i \in j..Len(new)
      PROVE  sd \in MaskIn(new, m2, i)
  <2>1. CASE j = Len(st) + 1
    <3>1. i = Len(st) + 1
      BY <1>1, <2>1
    <3> QED
      BY <1>2, <1>3, <1>5, <2>1, <3>1
  <2>2. CASE j # Len(st) + 1
    <3>1. j \in 2..Len(st) /\ j \in 1..Len(st)
      BY <1>1, <2>2
    <3>2. st[j].sig \in Managed \ tang
      BY <1>2, <1>5, <3>1
    <3>3. \A k \in j..Len(st) : sd \in MaskIn(st, m, k)
      BY <1>5, <3>1, <3>2 DEF NestOK
    <3>4. CASE i \in j..Len(st)
      <4>1. i \in 1..Len(st)
        BY <3>1, <3>4
      <4> QED
        BY <1>3, <3>3, <3>4, <4>1
    <3>5. CASE i = Len(st) + 1
      <4>1. Len(st) \in j..Len(st)
        BY <1>1, <3>1
      <4> QED
        BY <1>3, <3>3, <3>5, <4>1
    <3> QED
      BY <1>1, <3>1, <3>4, <3>5
  <2> QED
    BY <2>1, <2>2
<1>6. ASSUME NEW i \in 1..Len(new)
      PROVE  new[i].at \notin {"reset", "bare"}
  <2>1. CASE i \in 1..Len(st)
    BY <1>2, <2>1 DEF NestOK
  <2>2. CASE i = Len(st) + 1
    BY <1>2, <2>2
  <2> QED
    BY <1>1, <2>1, <2>2
<1> QED
  BY <1>4, <1>5, <1>6 DEF NestOK

LEMMA FlatPush ==
  ASSUME NEW st \in Seq(Frame), st # <<>>, NEW new, NEW f \in Frame, Pushed(st, new, f),
         NEW tang, FlatOK(st, tang), f.at # "fini"
  PROVE  FlatOK(new, tang)
<1>1. Len(st) \in Nat \ {0} /\ Len(new) = Len(st) + 1
  BY StackFacts DEF Pushed
<1>2. (\A i \in 1..Len(st) : new[i] = st[i]) /\ new[Len(st) + 1] = f
  BY DEF Pushed
<1> SUFFICES ASSUME NEW j \in 2..Len(new), NEW i \in 2..Len(new), j < i,
                    new[j].sig \in Managed \ tang
             PROVE  new[i].at # "fini"
  BY DEF FlatOK
<1>3. CASE i = Len(st) + 1
  BY <1>2, <1>3
<1>4. CASE i # Len(st) + 1
  <2>1. /\ j \in 2..Len(st) /\ i \in 2..Len(st) /\ j \in 1..Len(st)
        /\ i \in 1..Len(st)
    BY <1>1, <1>4
  <2> QED
    BY <1>2, <2>1 DEF FlatOK
<1> QED
  BY <1>3, <1>4

LEMMA FlatPop ==
  ASSUME NEW st \in Seq(Frame), NEW new, Len(st) > 1, Popped(st, new), NEW tang,
         FlatOK(st, tang)
  PROVE  FlatOK(new, tang)
<1>1. Len(st) \in Nat \ {0, 1} /\ Len(new) = Len(st) - 1
  BY LenProperties DEF Popped
<1>2. \A i \in 2..Len(new) : i \in 2..Len(st) /\ new[i] = st[i]
  BY <1>1 DEF Popped
<1> QED
  BY <1>2 DEF FlatOK

LEMMA FlatReplace ==
  ASSUME NEW st \in Seq(Frame), st # <<>>, NEW new \in Seq(Frame), Len(new) = Len(st),
         \A i \in 1..Len(st) : i # Len(st) => new[i] = st[i],
         new[Len(st)].sig = st[Len(st)].sig, new[Len(st)].at # "fini",
         NEW tang, FlatOK(st, tang)
  PROVE  FlatOK(new, tang)
<1>1. Len(st) \in Nat \ {0}
  BY StackFacts
<1>2. \A i \in 2..Len(st) : /\ new[i].sig = st[i].sig
                             /\ new[i].at = "fini" => st[i].at = "fini"
  <2> TAKE i \in 2..Len(st)
  <2>1. CASE i = Len(st)
    BY <2>1
  <2>2. CASE i # Len(st)
    <3>1. i \in 1..Len(st)
      BY <1>1
    <3> QED
      BY <2>2, <3>1
  <2> QED
    BY <2>1, <2>2
<1> QED
  BY <1>2 DEF FlatOK

LEMMA NestPop ==
  ASSUME NEW st \in Seq(Frame), NEW new, Len(st) > 1, Popped(st, new),
         NEW m, NEW m2, NEW sd, NEW tang, NestOK(st, m, sd, tang), m2 = st[Len(st)].saved
  PROVE  NestOK(new, m2, sd, tang)
<1>1. Len(st) \in Nat \ {0, 1} /\ Len(new) = Len(st) - 1
  BY LenProperties DEF Popped
<1>2. \A i \in 1..Len(new) : i \in 1..Len(st) /\ new[i] = st[i]
  BY <1>1 DEF Popped
<1>3. \A i \in 1..Len(new) : MaskIn(new, m2, i) = MaskIn(st, m, i)
  BY <1>1, <1>2 DEF MaskIn
<1>4. \A i \in 1..Len(new) : new[i].at = "fini" => sd \in Managed /\ sd \notin new[i].saved
  BY <1>2 DEF NestOK
<1>5. ASSUME NEW j \in 2..Len(new), sd \in Managed, new[j].sig \in Managed \ tang,
             NEW i \in j..Len(new)
      PROVE  sd \in MaskIn(new, m2, i)
  <2>1. j \in 2..Len(st) /\ j \in 1..Len(new) /\ i \in j..Len(st) /\ i \in 1..Len(new)
    BY <1>1
  <2>2. st[j].sig \in Managed \ tang
    BY <1>2, <1>5, <2>1
  <2> QED
    BY <1>3, <1>5, <2>1, <2>2 DEF NestOK
<1>6. \A i \in 1..Len(new) : new[i].at \notin {"reset", "bare"}
  BY <1>2 DEF NestOK
<1> QED
  BY <1>4, <1>5, <1>6 DEF NestOK

\* The top frame is replaced, or the mask above it changes, without opening what
\* a handler needs blocked.
LEMMA NestReplace ==
  ASSUME NEW st \in Seq(Frame), st # <<>>, NEW new \in Seq(Frame), Len(new) = Len(st),
         \A i \in 1..Len(st) : i # Len(st) => new[i] = st[i],
         new[Len(st)].sig = st[Len(st)].sig,
         new[Len(st)].at \notin {"fini", "reset", "bare"},
         NEW m, NEW m2, NEW sd, NEW tang, NestOK(st, m, sd, tang),
         Len(st) # 1 => /\ new[Len(st)].saved = st[Len(st)].saved
                        /\ sd \in Managed /\ sd \in m => sd \in m2
  PROVE  NestOK(new, m2, sd, tang)
<1>1. Len(st) \in Nat \ {0}
  BY StackFacts
<1>2. ASSUME NEW i \in 1..Len(new), new[i].at = "fini"
      PROVE  sd \in Managed /\ sd \notin new[i].saved
  <2>1. i # Len(st) /\ new[i] = st[i]
    BY <1>2
  <2> QED
    BY <1>2, <2>1 DEF NestOK
<1>4. ASSUME NEW i \in 1..Len(new)
      PROVE  new[i].at \notin {"reset", "bare"}
  <2>1. CASE i = Len(st)
    BY <2>1
  <2>2. CASE i # Len(st)
    BY <2>2 DEF NestOK
  <2> QED
    BY <2>1, <2>2
<1>3. ASSUME NEW j \in 2..Len(new), sd \in Managed, new[j].sig \in Managed \ tang,
             NEW i \in j..Len(new)
      PROVE  sd \in MaskIn(new, m2, i)
  <2>1. /\ j \in 2..Len(st) /\ j \in 1..Len(st) /\ i \in j..Len(st) /\ i \in 1..Len(st)
        /\ Len(st) # 1
    BY <1>1
  <2>2. st[j].sig \in Managed \ tang
    <3>1. CASE j = Len(st)
      BY <1>3, <3>1
    <3>2. CASE j # Len(st)
      BY <1>3, <2>1, <3>2
    <3> QED
      BY <3>1, <3>2
  <2>3. sd \in MaskIn(st, m, i)
    BY <1>3, <2>1, <2>2 DEF NestOK
  <2>4. CASE i = Len(st)
    BY <1>3, <2>1, <2>3, <2>4 DEF MaskIn
  <2>5. CASE i # Len(st)
    <3>1. i + 1 \in 1..Len(st)
      BY <1>1, <2>1, <2>5
    <3>2. new[i + 1].saved = st[i + 1].saved
      <4>1. CASE i + 1 = Len(st)
        BY <2>1, <4>1
      <4>2. CASE i + 1 # Len(st)
        BY <3>1, <4>2
      <4> QED
        BY <4>1, <4>2
    <3> QED
      BY <2>3, <2>5, <3>2 DEF MaskIn
  <2> QED
    BY <2>4, <2>5
<1> QED
  BY <1>2, <1>3, <1>4 DEF NestOK

LEMMA NestShort ==
  ASSUME NEW st, NEW m, NEW sd, NEW tang, NEW ov, st = <<>> \/ st = <<Base>>
  PROVE  Nested(st, m, sd, tang, ov)
<1>1. Len(<<Base>>) = 1 /\ <<Base>>[1] = Base /\ Base.at = "run"
  BY DEF Base
<1>2. Len(<<>>) = 0
  OBVIOUS
<1> HIDE DEF Base
<1>3. CASE st = <<Base>>
  <2>1. NestOK(st, m, sd, tang)
    BY <1>1, <1>3 DEF NestOK
  <2>2. FlatOK(st, tang)
    BY <1>1, <1>3 DEF FlatOK
  <2> QED
    BY <2>1, <2>2 DEF Nested
<1>4. CASE st = <<>>
  <2>1. NestOK(st, m, sd, tang)
    BY <1>2, <1>4 DEF NestOK
  <2>2. FlatOK(st, tang)
    BY <1>2, <1>4 DEF FlatOK
  <2> QED
    BY <2>1, <2>2 DEF Nested
<1> QED
  BY <1>3, <1>4

\* Calls about more signals overlap.
LEMMA NestTangled ==
  ASSUME NEW st, NEW m, NEW sd, NEW tang, NEW tang2, tang \subseteq tang2, NEW ov,
         Nested(st, m, sd, tang, ov)
  PROVE  Nested(st, m, sd, tang2, ov)
<1>1. NestOK(st, m, sd, tang) => NestOK(st, m, sd, tang2)
  BY DEF NestOK
<1>2. FlatOK(st, tang) => FlatOK(st, tang2)
  BY DEF FlatOK
<1> QED
  BY <1>1, <1>2, Zenon DEF Nested

LEMMA NestOne ==
  ASSUME NestInv, NEW t \in Thread, UNCHANGED <<shoot, winner, over>>,
         tangled \subseteq tangled', Others(t),
         t # winner => Nested(th'[t], mask'[t], shoot, tangled, over)
  PROVE  NestInv'
<1>1. ASSUME NEW u \in Thread, u # winner
      PROVE  Nested(th'[u], mask'[u], shoot, tangled', over)
  <2>1. Nested(th'[u], mask'[u], shoot, tangled, over)
    <3>1. CASE u = t
      BY <1>1, <3>1
    <3>2. CASE u # t
      <4>1. th'[u] = th[u] /\ mask'[u] = mask[u]
        BY <3>2 DEF Others
      <4> QED
        BY <1>1, <4>1, Zenon DEF NestInv
    <3> QED
      BY <3>1, <3>2
  <2> QED
    BY <2>1, NestTangled
<1> QED
  BY <1>1 DEF NestInv

LEMMA NestSame ==
  ASSUME NestInv, UNCHANGED <<shoot, winner, over>>, tangled \subseteq tangled', th' = th,
         mask' = mask
  PROVE  NestInv'
<1>1. ASSUME NEW u \in Thread, u # winner
      PROVE  Nested(th'[u], mask'[u], shoot, tangled', over)
  <2>1. Nested(th'[u], mask'[u], shoot, tangled, over)
    BY <1>1, Zenon DEF NestInv
  <2> QED
    BY <2>1, NestTangled
<1> QED
  BY <1>1 DEF NestInv

\* The top frame is replaced, and while the callbacks run nothing that a handler
\* needs blocked is opened.
LEMMA NestTop ==
  ASSUME StacksOK, NestInv, NEW t \in Thread, th[t] # <<>>, NEW f \in Frame, SetTop(t, f),
         UNCHANGED <<shoot, winner, over>>, tangled \subseteq tangled',
         NEW m2 \in SUBSET Sig, mask' = [mask EXCEPT ![t] = m2],
         f.sig = Top(t).sig, f.at # "fini",
         ~over /\ t # winner =>
           /\ f.at \notin {"reset", "bare"}
           /\ Len(th[t]) # 1 => /\ f.saved = Top(t).saved
                                /\ shoot \in Managed /\ shoot \in mask[t] => shoot \in m2
  PROVE  NestInv'
<1> DEFINE new == NewTop(t, f)
<1>1. /\ th[t] \in Seq(Frame) /\ Top(t) = th[t][Len(th[t])] /\ Len(th[t]) \in Nat \ {0}
  BY RunFacts
<1>2. /\ Replaced(th[t], new, f)
      /\ th'[t] = new /\ \A u \in Thread \ {t} : th'[u] = th[u]
  BY SetTopFacts
<1> HIDE DEF new
<1>3. /\ new \in Seq(Frame) /\ Len(new) = Len(th[t]) /\ new[Len(th[t])] = f
      /\ \A i \in 1..Len(th[t]) : i # Len(th[t]) => new[i] = th[t][i]
  BY <1>2 DEF Replaced
<1>4. new[Len(th[t])].sig = th[t][Len(th[t])].sig /\ new[Len(th[t])].at # "fini"
  BY <1>1, <1>3
<1>5. ASSUME t # winner, ~over, NestOK(th[t], mask[t], shoot, tangled)
      PROVE  NestOK(new, m2, shoot, tangled)
  <2>1. /\ new[Len(th[t])].at \notin {"fini", "reset", "bare"}
        /\ Len(th[t]) # 1 => /\ new[Len(th[t])].saved = th[t][Len(th[t])].saved
                             /\ shoot \in Managed /\ shoot \in mask[t] => shoot \in m2
    BY <1>1, <1>3, <1>5
  <2> QED
    BY <1>1, <1>3, <1>4, <1>5, <2>1, NestReplace
<1>6. ASSUME FlatOK(th[t], tangled)
      PROVE  FlatOK(new, tangled)
  BY <1>1, <1>3, <1>4, <1>6, FlatReplace
<1>7. mask'[t] = m2 /\ \A u \in Thread \ {t} : mask'[u] = mask[u]
  BY DEF StacksOK
<1>8. Others(t)
  BY <1>2, <1>7 DEF Others
<1>9. ASSUME t # winner
      PROVE  Nested(th'[t], mask'[t], shoot, tangled, over)
  <2>1. Nested(th[t], mask[t], shoot, tangled, over)
    BY <1>9, Zenon DEF NestInv
  <2>2. Nested(new, m2, shoot, tangled, over)
    BY <1>5, <1>6, <1>9, <2>1, Zenon DEF Nested
  <2> QED
    BY <1>2, <1>7, <2>2, Zenon
<1> QED
  BY <1>8, <1>9, NestOne

LEMMA NestEnter ==
  ASSUME StacksOK, NestInv, NEW t \in Thread, th[t] # <<>>, NEW s \in Sig,
         NEW m \in SUBSET Sig, NEW l \in {"handler", "fini", "late", "run"},
         NEW h \in Handler \cup {NoHandler}, Push(t, s, m, l, h),
         UNCHANGED <<shoot, winner, over, tangled>>, s \notin mask[t],
         l = "fini" => s = shoot /\ s \in Managed /\ ~over,
         s \in Managed \ tangled => shoot \in m \cup {s}
  PROVE  NestInv'
<1> DEFINE f == [Base EXCEPT !.sig = s, !.saved = mask[t], !.at = l, !.hand = h]
           m2 == mask[t] \cup m \cup {s}
<1>1. /\ th \in [Thread -> Seq(Frame)] /\ mask \in [Thread -> SUBSET Sig]
      /\ th[t] \in Seq(Frame) /\ mask[t] \in SUBSET Sig
  BY DEF StacksOK
<1>2. NoOld \in [SystemIgnores -> KernRecord]
  BY DEF NoOld, KernRecord
<1>3. f \in Frame /\ f.sig = s /\ f.saved = mask[t] /\ f.at = l
  BY <1>1, <1>2 DEF Base, Frame, Loc
<1>4. th' = [th EXCEPT ![t] = Append(th[t], f)] /\ mask' = [mask EXCEPT ![t] = m2]
  BY DEF Push
<1>5. mask[t] \subseteq m2 /\ m \cup {s} \subseteq m2
  OBVIOUS
<1> HIDE DEF f, m2
<1>6. Pushed(th[t], Append(th[t], f), f)
  BY <1>1, <1>3, PushFacts
<1>7. ASSUME NestOK(th[t], mask[t], shoot, tangled)
      PROVE  NestOK(Append(th[t], f), m2, shoot, tangled)
  <2>1. f.at = "fini" => shoot \in Managed /\ shoot \notin mask[t]
    BY <1>3
  <2>2. shoot \in Managed /\ f.sig \in Managed \ tangled => shoot \in m2
    BY <1>3, <1>5
  <2>3. f.saved = mask[t] /\ f \in Frame /\ f.at \notin {"reset", "bare"}
    BY <1>3
  <2> QED
    BY <1>1, <1>5, <1>6, <1>7, <2>1, <2>2, <2>3, NestPush
<1>8. ASSUME over, FlatOK(th[t], tangled)
      PROVE  FlatOK(Append(th[t], f), tangled)
  <2>1. f.at # "fini"
    BY <1>3, <1>8
  <2> QED
    BY <1>1, <1>3, <1>6, <1>8, <2>1, FlatPush
<1>9. /\ th'[t] = Append(th[t], f) /\ mask'[t] = m2
      /\ \A u \in Thread \ {t} : th'[u] = th[u] /\ mask'[u] = mask[u]
  BY <1>1, <1>4
<1>10. Others(t)
  BY <1>9 DEF Others
<1>11. ASSUME t # winner
       PROVE  Nested(th'[t], mask'[t], shoot, tangled, over)
  <2>1. Nested(th[t], mask[t], shoot, tangled, over)
    BY <1>11, Zenon DEF NestInv
  <2>2. Nested(Append(th[t], f), m2, shoot, tangled, over)
    BY <1>7, <1>8, <2>1, Zenon DEF Nested
  <2> QED
    BY <1>9, <2>2, Zenon
<1> QED
  BY <1>10, <1>11, NestOne

LEMMA NestLeave ==
  ASSUME StacksOK, NestInv, NEW t \in Thread, Len(th[t]) > 1, Pop(t),
         UNCHANGED <<shoot, winner, over, tangled>>
  PROVE  NestInv'
<1>1. /\ th \in [Thread -> Seq(Frame)] /\ mask \in [Thread -> SUBSET Sig]
      /\ th[t] \in Seq(Frame)
  BY DEF StacksOK
<1>2. th[t] # <<>>
  BY <1>1, EmptySeq
<1>3. Top(t) = th[t][Len(th[t])]
  BY <1>2, RunFacts
<1> DEFINE m2 == Top(t).saved
<1>4. th' = [th EXCEPT ![t] = Front(th[t])] /\ mask' = [mask EXCEPT ![t] = m2]
  BY DEF Pop
<1>5. m2 = th[t][Len(th[t])].saved
  BY <1>3
<1> HIDE DEF m2
<1>6. Popped(th[t], Front(th[t]))
  BY <1>1, PopFacts
<1>7. NestOK(th[t], mask[t], shoot, tangled) => NestOK(Front(th[t]), m2, shoot, tangled)
  BY <1>1, <1>5, <1>6, NestPop
<1>8. FlatOK(th[t], tangled) => FlatOK(Front(th[t]), tangled)
  BY <1>1, <1>6, FlatPop
<1>9. /\ th'[t] = Front(th[t]) /\ mask'[t] = m2
      /\ \A u \in Thread \ {t} : th'[u] = th[u] /\ mask'[u] = mask[u]
  BY <1>1, <1>4
<1>10. Others(t)
  BY <1>9 DEF Others
<1>11. ASSUME t # winner
       PROVE  Nested(th'[t], mask'[t], shoot, tangled, over)
  <2>1. Nested(th[t], mask[t], shoot, tangled, over)
    BY <1>11, Zenon DEF NestInv
  <2>2. Nested(Front(th[t]), m2, shoot, tangled, over)
    BY <1>7, <1>8, <2>1, Zenon DEF Nested
  <2> QED
    BY <1>9, <2>2, Zenon
<1> QED
  BY <1>10, <1>11, NestOne

\* The calls that replace the top frame.
LEMMA NestCallSteps ==
  ASSUME SignalInv, NestInv, NEW t \in Thread,
         \/ \E s \in Sig : \E act \in Act[s] : StoreAction(t, s, act)
         \/ \E how \in How, set \in MaskOf : Sigprocmask(t, how, set)
         \/ AdjustAction(t) \/ InstallAction(t)
  PROVE  NestInv'
<1>0. StacksOK /\ TableTypes
  BY DEF SignalInv
<1>1. /\ th[t] # <<>> /\ UNCHANGED <<shoot, winner, over, mask>>
      /\ tangled \subseteq tangled'
  BY DEF StoreAction, Sigprocmask, Call, AdjustAction, InstallAction, At, tableVars, endVars,
     histVars
<1>2. Top(t) \in Frame /\ mask[t] \in SUBSET Sig
  BY <1>0, <1>1, RunFacts
<1>3. mask' = [mask EXCEPT ![t] = mask[t]]
  BY <1>0, <1>1 DEF StacksOK
<1>4. ASSUME NEW f \in Frame, SetTop(t, f), f.sig = Top(t).sig,
             f.at \notin {"fini", "reset", "bare"}, f.saved = Top(t).saved
      PROVE  NestInv'
  BY <1>0, <1>1, <1>2, <1>3, <1>4, NestTop
<1>5. CASE \E s \in Sig : \E act \in Act[s] : StoreAction(t, s, act)
  <2>1. PICK s \in Sig : SetTop(t, [Top(t) EXCEPT !.at = "adjust", !.on = s])
    BY <1>5 DEF StoreAction
  <2> DEFINE f == [Top(t) EXCEPT !.at = "adjust", !.on = s]
  <2>2. f \in Frame /\ f.sig = Top(t).sig /\ f.at = "adjust" /\ f.saved = Top(t).saved
    BY <1>2 DEF Frame, Loc, CallLoc
  <2> HIDE DEF f
  <2> QED
    BY <1>4, <2>1, <2>2 DEF f
<1>6. CASE AdjustAction(t)
  <2> DEFINE f == [Top(t) EXCEPT !.at = "install"]
  <2>1. SetTop(t, f)
    BY <1>6 DEF AdjustAction, Goto
  <2>2. f \in Frame /\ f.sig = Top(t).sig /\ f.at = "install" /\ f.saved = Top(t).saved
    BY <1>2 DEF Frame, Loc, CallLoc
  <2> HIDE DEF f
  <2> QED
    BY <1>4, <2>1, <2>2
<1>7. CASE InstallAction(t)
  <2> DEFINE f == [Top(t) EXCEPT !.at = "run", !.on = NoSig]
  <2>1. SetTop(t, f)
    BY <1>7 DEF InstallAction
  <2>2. f \in Frame /\ f.sig = Top(t).sig /\ f.at = "run" /\ f.saved = Top(t).saved
    BY <1>2 DEF Frame, Loc, CallLoc
  <2> HIDE DEF f
  <2> QED
    BY <1>4, <2>1, <2>2
<1>8. CASE \E how \in How, set \in MaskOf : Sigprocmask(t, how, set)
  <2>1. PICK how \in How, set \in MaskOf : Sigprocmask(t, how, set)
    BY <1>8
  <2> DEFINE r == RemoveClientSignals(t, set, how)
             f == [Top(t) EXCEPT !.at = how, !.set = r]
  <2>2. SetTop(t, f)
    BY <2>1 DEF Sigprocmask
  <2>3. r \in SUBSET Sig
    BY <1>2, Constants DEF RemoveClientSignals
  <2> HIDE DEF r
  <2>4. f \in Frame /\ f.sig = Top(t).sig /\ f.at = how /\ f.saved = Top(t).saved
    BY <1>2, <2>3 DEF Frame, Loc, CallLoc
  <2>5. f.at \notin {"fini", "reset", "bare"}
    BY <2>4 DEF How
  <2> HIDE DEF f
  <2> QED
    BY <1>4, <2>2, <2>4, <2>5
<1> QED
  BY <1>5, <1>6, <1>7, <1>8

LEMMA NestMaskSteps ==
  ASSUME SignalInv, NestInv, NEW t \in Thread,
         \/ RealSigprocmask(t) \/ \E u \in Thread : CreateThread(t, u)
         \/ System(t) \/ SystemReturn(t)
  PROVE  NestInv'
<1>0. StacksOK /\ TableTypes
  BY DEF SignalInv
<1>1. CASE RealSigprocmask(t)
  <2>1. PICK how \in How : At(t, how)
    BY <1>1 DEF RealSigprocmask
  <2> DEFINE m2 == NewMask(t, how, Top(t).set)
             f == [Top(t) EXCEPT !.at = "run", !.set = {}]
  <2>2. /\ th[t] # <<>> /\ SetTop(t, f) /\ mask' = [mask EXCEPT ![t] = m2]
        /\ UNCHANGED <<shoot, winner, over, tangled>>
    BY <1>1, <2>1 DEF RealSigprocmask, At, tableVars, endVars, histVars
  <2>3. Top(t) \in Frame
    BY <1>0, <2>2, RunFacts
  <2>4. m2 \in SUBSET Sig /\ m2 \cap Kept = mask[t] \cap Kept
    BY <1>0, <2>1, NewMaskFacts
  <2>5. shoot \in Managed /\ shoot \in mask[t] => shoot \in m2
    BY <1>0, <2>4, KeptFacts
  <2> HIDE DEF m2
  <2>6. f \in Frame /\ f.sig = Top(t).sig /\ f.at = "run" /\ f.saved = Top(t).saved
    BY <2>3 DEF Frame, Loc
  <2> HIDE DEF f
  <2> QED
    BY <1>0, <2>2, <2>4, <2>5, <2>6, NestTop
<1>2. ASSUME NEW u \in Thread, CreateThread(t, u)
      PROVE  NestInv'
  <2>1. /\ th' = [th EXCEPT ![u] = <<Base>>] /\ mask' = [mask EXCEPT ![u] = mask[t]]
        /\ UNCHANGED <<shoot, winner, over, tangled>>
    BY <1>2 DEF CreateThread, tableVars, endVars, histVars
  <2>2. th'[u] = <<Base>> /\ Others(u)
    BY <1>0, <2>1 DEF StacksOK, Others
  <2>3. Nested(th'[u], mask'[u], shoot, tangled, over)
    BY <2>2, NestShort
  <2> QED
    BY <2>1, <2>2, <2>3, NestOne
<1>3. CASE System(t)
  <2> DEFINE old == [s \in SystemIgnores |-> kern[s]]
             f == [Top(t) EXCEPT !.at = "system", !.saved = mask[t], !.old = old]
             m2 == mask[t] \cup SystemBlocks
  <2>1. /\ th[t] # <<>> /\ Len(th[t]) = 1 /\ SetTop(t, f)
        /\ UNCHANGED <<shoot, winner, over>>
        /\ tangled \subseteq tangled' /\ mask' = [mask EXCEPT ![t] = m2]
    BY <1>3 DEF System, Call, At, endVars
  <2>2. Top(t) \in Frame /\ mask[t] \in SUBSET Sig
    BY <1>0, <2>1, RunFacts
  <2>3. old \in [SystemIgnores -> KernRecord]
    BY <1>0, Constants DEF TableTypes
  <2> HIDE DEF old
  <2>4. f \in Frame /\ f.at = "system" /\ f.sig = Top(t).sig /\ m2 \in SUBSET Sig
    BY <2>2, <2>3, Constants DEF Frame, Loc, CallLoc
  <2> HIDE DEF f, m2
  <2> QED
    BY <1>0, <2>1, <2>4, NestTop
<1>4. CASE SystemReturn(t)
  <2> DEFINE f == [Top(t) EXCEPT !.at = "run", !.saved = {}, !.old = NoOld]
  <2>1. /\ th[t] # <<>> /\ Top(t).at = "system" /\ SetTop(t, f)
        /\ UNCHANGED <<shoot, winner, over, tangled>>
        /\ mask' = [mask EXCEPT ![t] = Top(t).saved]
    BY <1>4 DEF SystemReturn, At, endVars, histVars
  <2>2. Top(t) \in Frame /\ FrameOK(Top(t), Len(th[t]), shoot)
    BY <1>0, <2>1, RunFacts
  <2>3. Len(th[t]) = 1
    BY <2>1, <2>2 DEF FrameOK
  <2>4. NoOld \in [SystemIgnores -> KernRecord] /\ Top(t).saved \in SUBSET Sig
    BY <2>2 DEF NoOld, KernRecord, Frame
  <2>5. f \in Frame /\ f.at = "run" /\ f.sig = Top(t).sig
    BY <2>2, <2>4 DEF Frame, Loc
  <2> HIDE DEF f
  <2> QED
    BY <1>0, <2>1, <2>3, <2>4, <2>5, NestTop
<1> QED
  BY <1>1, <1>2, <1>3, <1>4

LEMMA NestDeliver ==
  ASSUME SignalInv, BlockPart, NestInv, NEW t \in Thread, NEW s \in Sig,
         Deliver(t, s) \/ DeliverShootdown(t, s) \/ DeliverRaw(t, s)
  PROVE  NestInv'
<1>0. StacksOK /\ TableTypes /\ KernPart
  BY DEF SignalInv
<1>1. th[t] # <<>> /\ s \notin mask[t] /\ UNCHANGED <<shoot, winner, over, tangled>>
  BY DEF Deliver, DeliverShootdown, DeliverRaw, Arrives, tableVars, endVars, histVars
<1>2. kern[s].mask \in SUBSET Sig
  BY <1>0 DEF TableTypes, KernRecord
<1>3. CASE Deliver(t, s)
  <2>1. Push(t, s, kern[s].mask, "handler", NoHandler) /\ kern[s].by = "monitor"
    BY <1>3 DEF Deliver
  <2>2. s \in Managed \ tangled => shoot \in kern[s].mask \cup {s}
    BY <2>1 DEF BlockPart
  <2> QED
    BY <1>0, <1>1, <1>2, <2>1, <2>2, NestEnter
<1>4. CASE DeliverShootdown(t, s)
  <2>1. s = shoot /\ s \in Managed
    BY <1>0, <1>4 DEF DeliverShootdown, KernPart
  <2>2. s \in Managed \ tangled => shoot \in kern[s].mask \cup {s}
    BY <2>1
  <2>3. CASE over
    <3>1. Push(t, s, kern[s].mask, "late", NoHandler)
      BY <1>4, <2>3 DEF DeliverShootdown
    <3> QED
      BY <1>0, <1>1, <1>2, <2>2, <3>1, NestEnter
  <2>4. CASE ~over
    <3>1. Push(t, s, kern[s].mask, "fini", NoHandler)
      BY <1>4, <2>4 DEF DeliverShootdown
    <3> QED
      BY <1>0, <1>1, <1>2, <2>1, <2>2, <2>4, <3>1, NestEnter
  <2> QED
    BY <2>3, <2>4
<1>5. CASE DeliverRaw(t, s)
  <2>1. CASE kern[s].by \in Handler
    <3>1. Push(t, s, kern[s].mask, "run", kern[s].by)
      BY <1>5, <2>1 DEF DeliverRaw
    <3>2. s \notin Managed
      BY <1>0, <2>1, SignalAssumption DEF KernPart
    <3> QED
      BY <1>0, <1>1, <1>2, <2>1, <3>1, <3>2, NestEnter
  <2>2. CASE kern[s].by \notin Handler
    <3>1. th' = th /\ mask' = mask
      BY <1>5, <2>2 DEF DeliverRaw
    <3> QED
      BY <1>1, <3>1, NestSame
  <2> QED
    BY <2>1, <2>2
<1> QED
  BY <1>3, <1>4, <1>5

\* A step of a handler, or of the end of the process, in a thread that does not end
\* it empties no mask before the callbacks are through.
LEMMA NestMoved ==
  ASSUME StacksOK, NestInv, NEW t \in Thread, NEW f \in Frame, Moved(t, f),
         UNCHANGED <<shoot, winner, over, tangled>>
  PROVE  NestInv'
<1>1. /\ th[t] # <<>> /\ SetTop(t, f) /\ f.sig = Top(t).sig /\ f.saved = Top(t).saved
      /\ f.at # "fini"
      /\ f.at = "reset" => Through(t)
      /\ f.at = "bare" => Top(t).at = "reset"
      /\ \/ mask' = mask
         \/ Top(t).at = "reset" /\ mask' = [mask EXCEPT ![t] = {}]
  BY DEF Moved
<1>2. /\ mask \in [Thread -> SUBSET Sig] /\ mask[t] \in SUBSET Sig
      /\ Len(th[t]) \in Nat \ {0} /\ Top(t) = th[t][Len(th[t])]
  BY <1>1, RunFacts DEF StacksOK
<1>3. ASSUME ~over, t # winner
      PROVE  f.at \notin {"reset", "bare"} /\ Top(t).at # "reset"
  <2>1. NestOK(th[t], mask[t], shoot, tangled)
    BY <1>3, Zenon DEF NestInv, Nested
  <2>2. Len(th[t]) \in 1..Len(th[t])
    BY <1>2
  <2>3. Top(t).at # "reset"
    BY <1>2, <2>1, <2>2 DEF NestOK
  <2>4. ~Through(t)
    BY <1>3 DEF Through
  <2> QED
    BY <1>1, <2>3, <2>4
<1>4. CASE mask' = mask
  <2>1. mask' = [mask EXCEPT ![t] = mask[t]]
    BY <1>2, <1>4
  <2> QED
    BY <1>1, <1>2, <1>3, <2>1, NestTop
<1>5. CASE Top(t).at = "reset" /\ mask' = [mask EXCEPT ![t] = {}]
  <2>1. {} \in SUBSET Sig
    OBVIOUS
  <2> QED
    BY <1>1, <1>3, <1>5, <2>1, NestTop
<1> QED
  BY <1>1, <1>4, <1>5

\* The winner is known, or the callbacks are through; the stacks do not gain a
\* shootdown handler.
LEMMA NestWinner ==
  ASSUME SignalInv, NestInv, NEW t \in Thread, Win(t) \/ WinOver(t)
  PROVE  NestInv'
<1>0. StacksOK /\ TableTypes
  BY DEF SignalInv
<1>1. UNCHANGED <<shoot, tangled, mask>>
  BY DEF Win, WinOver, tableVars, histVars
<1>2. PICK f \in Frame : Moved(t, f)
  <2>1. Top(t).at \in {"run", "ending", "winning"} /\ th[t] # <<>>
    BY DEF Win, WinOver, At
  <2>2. PICK l \in Loc : Goto(t, l)
    BY DEF Win, WinOver, Loc, EndLoc
  <2>3. ~(Len(th[t]) > 1 /\ Pop(t))
    <3> SUFFICES ASSUME Len(th[t]) > 1, Pop(t)
                 PROVE  FALSE
      OBVIOUS
    <3>1. /\ th \in [Thread -> Seq(Frame)] /\ th[t] \in Seq(Frame)
          /\ Len(th[t]) \in Nat
      BY <1>0, LenProperties DEF StacksOK
    <3>2. Popped(th[t], Front(th[t])) /\ th'[t] = Front(th[t])
      BY <3>1, PopFacts DEF Pop
    <3>3. Len(th'[t]) = Len(th[t]) - 1
      BY <3>2 DEF Popped
    <3> DEFINE f == [Top(t) EXCEPT !.at = l]
    <3>4. Top(t) \in Frame
      BY <1>0, <2>1, RunFacts
    <3>5. f \in Frame /\ SetTop(t, f)
      BY <2>2, <3>4 DEF Frame, Goto
    <3> HIDE DEF f
    <3>6. Replaced(th[t], th'[t], f)
      BY <1>0, <2>1, <3>5, SetTopFacts
    <3>7. Len(th'[t]) = Len(th[t])
      BY <3>6 DEF Replaced
    <3> QED
      BY <3>1, <3>3, <3>7
  <2> QED
    BY <1>0, <2>3, MoveFacts DEF QuietStep
<1>3. /\ th[t] # <<>> /\ SetTop(t, f) /\ f.sig = Top(t).sig /\ f.at # "fini"
  BY <1>2 DEF Moved
<1>4. CASE Win(t)
  <2>1. winner' = t /\ over' = over /\ winner = NoThread
    BY <1>4 DEF Win
  <2>2. ASSUME NEW u \in Thread, u # t
        PROVE  Nested(th'[u], mask'[u], shoot', tangled', over')
    <3>1. u # winner /\ th'[u] = th[u]
      BY <1>0, <1>3, <2>1, <2>2, SetTopFacts, Constants
    <3> QED
      BY <1>1, <2>1, <3>1, Zenon DEF NestInv
  <2> QED
    BY <2>1, <2>2, Zenon DEF NestInv
<1>5. CASE WinOver(t)
  <2>1. winner' = winner /\ over' = TRUE
    BY <1>5 DEF WinOver
  <2>2. ASSUME NEW u \in Thread, u # winner
        PROVE  FlatOK(th'[u], tangled)
    <3>1. th[u] \in Seq(Frame)
      BY <1>0 DEF StacksOK
    <3>2. FlatOK(th[u], tangled)
      <4>1. Nested(th[u], mask[u], shoot, tangled, over)
        BY <2>2, Zenon DEF NestInv
      <4>2. NestOK(th[u], mask[u], shoot, tangled) => FlatOK(th[u], tangled)
        BY <3>1, NestIsFlat
      <4> QED
        BY <4>1, <4>2, Zenon DEF Nested
    <3>3. CASE u # t
      <4>1. th'[u] = th[u]
        BY <1>0, <1>3, <3>3, SetTopFacts
      <4> QED
        BY <3>2, <4>1
    <3>4. CASE u = t
      <4>1. Replaced(th[u], th'[u], f) /\ Top(t) = th[t][Len(th[t])]
        BY <1>0, <1>3, <3>4, SetTopFacts, RunFacts
      <4> QED
        BY <1>3, <3>1, <3>2, <3>4, <4>1, FlatReplace DEF Replaced
    <3> QED
      BY <3>3, <3>4
  <2>3. ASSUME NEW u \in Thread, u # winner'
        PROVE  Nested(th'[u], mask'[u], shoot', tangled', over')
    <3>1. FlatOK(th'[u], tangled')
      BY <1>1, <2>1, <2>2, <2>3
    <3> QED
      BY <2>1, <3>1, Zenon DEF Nested
  <2> QED
    BY <2>3, Zenon DEF NestInv
<1> QED
  BY <1>4, <1>5

LEMMA NestKeeps ==
  ASSUME SignalInv, BlockPart, NestInv, [Next]_vars
  PROVE  NestInv'
<1>0. StacksOK /\ TableTypes
  BY DEF SignalInv
<1>1. ASSUME NEW t \in Thread, CallStep(t)
      PROVE  NestInv'
  <2>1. CASE \/ \E s \in Sig : \E act \in Act[s] : StoreAction(t, s, act)
             \/ \E how \in How, set \in MaskOf : Sigprocmask(t, how, set)
    BY <2>1, NestCallSteps
  <2>2. CASE \/ \E s \in Sig : \E act \in Act[s] : AvoidAction(t, s, act)
             \/ \E s \in Sig : ClientAction(t, s)
    <3>1. UNCHANGED <<shoot, winner, over, th, mask>> /\ tangled \subseteq tangled'
      BY <2>2 DEF AvoidAction, ClientAction, endVars, histVars
    <3> QED
      BY <3>1, NestSame
  <2>3. CASE (\E u \in Thread : CreateThread(t, u)) \/ System(t)
    BY <2>3, NestMaskSteps
  <2> QED
    BY <1>1, <2>1, <2>2, <2>3 DEF CallStep
<1>2. ASSUME NEW t \in Thread,
             (QuietStep(t) /\ over' = over) \/ ResetAction(t)
      PROVE  NestInv'
  <2>1. UNCHANGED <<shoot, winner, over, tangled>>
    BY <1>2 DEF QuietStep, ClientAccepts, TestIgnore, ApplyNothing, ApplyDefault, NotDefault,
       ApplyHandler, HandlerReturn, WinOver, ClearMask, ReturnBare, ResetAction, tableVars,
       endVars, histVars
  <2>2. CASE Len(th[t]) > 1 /\ Pop(t)
    BY <1>0, <2>1, <2>2, NestLeave
  <2>3. CASE \E f \in Frame : Moved(t, f)
    BY <1>0, <2>1, <2>3, NestMoved
  <2> QED
    BY <1>0, <1>2, <2>2, <2>3, MoveFacts
<1>3. ASSUME NEW t \in Thread, Fault(t) \/ ExitAgain(t) \/ ExecFails(t)
      PROVE  NestInv'
  <2>1. UNCHANGED <<shoot, winner, over, tangled, th, mask>>
    BY <1>3 DEF Fault, ExitAgain, ExecFails, tableVars, endVars, histVars
  <2> QED
    BY <2>1, NestSame
<1>4. ASSUME NEW t \in Thread, SignalStep(t)
      PROVE  NestInv'
  <2>1. ASSUME NEW s \in Sig, Deliver(t, s) \/ DeliverShootdown(t, s) \/ DeliverRaw(t, s)
        PROVE  NestInv'
    BY <2>1, NestDeliver
  <2>2. CASE \/ ClientAccepts(t) \/ TestIgnore(t) \/ ApplyNothing(t) \/ ApplyDefault(t)
             \/ NotDefault(t) \/ ApplyHandler(t) \/ HandlerReturn(t)
    <3>1. over' = over
      BY <2>2 DEF ClientAccepts, TestIgnore, ApplyNothing, ApplyDefault, NotDefault,
         ApplyHandler, HandlerReturn, endVars
    <3> QED
      BY <1>2, <2>2, <3>1 DEF QuietStep
  <2> QED
    BY <1>3, <1>4, <2>1, <2>2 DEF SignalStep
<1>5. ASSUME NEW t \in Thread,
             \/ AdjustAction(t) \/ InstallAction(t) \/ RealSigprocmask(t)
             \/ SystemReturn(t)
      PROVE  NestInv'
  BY <1>5, NestCallSteps, NestMaskSteps
<1>6. ASSUME NEW t \in Thread, EndStep(t)
      PROVE  NestInv'
  <2>1. CASE Win(t) \/ WinOver(t)
    BY <2>1, NestWinner
  <2>2. CASE ClearMask(t) \/ ReturnBare(t)
    <3>1. over' = over
      BY <2>2 DEF ClearMask, ReturnBare, endVars
    <3> QED
      BY <1>2, <2>2, <3>1 DEF QuietStep
  <2>3. CASE Die(t) \/ Exec(t)
    <3>1. \A u \in Thread : th'[u] = <<>> \/ th'[u] = <<Base>>
      BY <2>3 DEF Die, Exec
    <3>2. ASSUME NEW u \in Thread
          PROVE  Nested(th'[u], mask'[u], shoot', tangled', over')
      BY <3>1, NestShort
    <3> QED
      BY <3>2 DEF NestInv
  <2> QED
    BY <1>2, <1>3, <1>6, <2>1, <2>2, <2>3 DEF EndStep
<1>7. CASE UNCHANGED vars
  <2>1. UNCHANGED <<shoot, winner, over, tangled, th, mask>>
    BY <1>7 DEF vars, tableVars, endVars, histVars
  <2> QED
    BY <2>1, NestSame
<1> QED
  BY <1>1, <1>4, <1>5, <1>6, <1>7 DEF Next

-----------------------------------------------------------------------------
(* The frames of all threads, and the calls among them. *)

LEMMA FrameIn ==
  ASSUME th \in [Thread -> Seq(Frame)], NEW f
  PROVE  f \in Frames <=> \E t \in Thread : \E i \in 1..Len(th[t]) : f = th[t][i]
<1>1. ASSUME NEW t \in Thread
      PROVE  f \in ToSet(th[t]) <=> \E i \in 1..Len(th[t]) : f = th[t][i]
  <2>1. DOMAIN th[t] = 1..Len(th[t])
    BY LenProperties
  <2> QED
    BY <2>1 DEF ToSet
<1> QED
  BY <1>1 DEF Frames

LEMMA FrameInNext ==
  ASSUME th' \in [Thread -> Seq(Frame)], NEW f
  PROVE  f \in Frames' <=> \E t \in Thread : \E i \in 1..Len(th'[t]) : f = th'[t][i]
<1>1. ASSUME NEW t \in Thread
      PROVE  f \in ToSet(th'[t]) <=> \E i \in 1..Len(th'[t]) : f = th'[t][i]
  <2>1. DOMAIN th'[t] = 1..Len(th'[t])
    BY LenProperties
  <2> QED
    BY <2>1 DEF ToSet
<1> QED
  BY <1>1 DEF Frames

LEMMA TopIsFrame ==
  ASSUME StacksOK, NEW t \in Thread, th[t] # <<>>
  PROVE  Top(t) \in Frames
<1>1. Len(th[t]) \in Nat \ {0} /\ Top(t) = th[t][Len(th[t])]
  BY RunFacts
<1>2. Len(th[t]) \in 1..Len(th[t])
  BY <1>1
<1> QED
  BY <1>1, <1>2, FrameIn DEF StacksOK

\* Every frame is a record of that type.
LEMMA FramesTyped ==
  ASSUME StacksOK, NEW f \in Frames
  PROVE  f \in Frame /\ \E i \in Nat : FrameOK(f, i, shoot)
<1>0. PICK t \in Thread : \E i \in 1..Len(th[t]) : f = th[t][i]
  BY FrameIn DEF StacksOK
<1>1. PICK i \in 1..Len(th[t]) : f = th[t][i]
  BY <1>0
<1>2. th[t] \in Seq(Frame) /\ StackOK(th[t], mask[t], shoot, Kept)
  BY DEF StacksOK
<1>3. FrameOK(f, i, shoot) /\ i \in Nat
  BY <1>1, <1>2 DEF StackOK
<1> QED
  BY <1>1, <1>2, <1>3, ElementOfSeq

LEMMA FramesTypedNext ==
  ASSUME th' \in [Thread -> Seq(Frame)], NEW f \in Frames'
  PROVE  f \in Frame
<1>1. PICK t \in Thread : \E i \in 1..Len(th'[t]) : f = th'[t][i]
  BY FrameInNext
<1>2. th'[t] \in Seq(Frame)
  OBVIOUS
<1> QED
  BY <1>1, <1>2, ElementOfSeq

LEMMA FramesReplaced ==
  ASSUME StacksOK, NEW t \in Thread, th[t] # <<>>, NEW f \in Frame, SetTop(t, f)
  PROVE  f \in Frames' /\ Frames' \subseteq Frames \cup {f} /\ Frames \ {Top(t)} \subseteq Frames'
<1> DEFINE new == NewTop(t, f)
<1>1. /\ th \in [Thread -> Seq(Frame)]
      /\ Top(t) = th[t][Len(th[t])] /\ Len(th[t]) \in Nat \ {0}
  BY RunFacts DEF StacksOK
<1>2. /\ Replaced(th[t], new, f) /\ th' \in [Thread -> Seq(Frame)] /\ th'[t] = new
      /\ \A u \in Thread \ {t} : th'[u] = th[u]
  BY SetTopFacts
<1> HIDE DEF new
<1>3. /\ Len(new) = Len(th[t]) /\ new[Len(th[t])] = f
      /\ \A i \in 1..Len(th[t]) : i # Len(th[t]) => new[i] = th[t][i]
  BY <1>2 DEF Replaced
<1>4. f \in Frames'
  <2>1. Len(th[t]) \in 1..Len(th'[t]) /\ th'[t][Len(th[t])] = f
    BY <1>1, <1>2, <1>3
  <2> QED
    BY <1>2, <2>1, FrameInNext
<1>5. ASSUME NEW g \in Frames'
      PROVE  g \in Frames \cup {f}
  <2>0. PICK u \in Thread : \E i \in 1..Len(th'[u]) : g = th'[u][i]
    BY <1>2, FrameInNext
  <2>1. PICK i \in 1..Len(th'[u]) : g = th'[u][i]
    BY <2>0
  <2>2. CASE u # t
    <3>1. th'[u] = th[u]
      BY <1>2, <2>2
    <3> QED
      BY <1>1, <2>1, <3>1, FrameIn
  <2>3. CASE u = t
    <3>1. i \in 1..Len(th[t]) /\ g = new[i]
      BY <1>2, <1>3, <2>1, <2>3
    <3>2. CASE i = Len(th[t])
      BY <1>3, <3>1, <3>2
    <3>3. CASE i # Len(th[t])
      BY <1>1, <1>3, <3>1, <3>3, FrameIn
    <3> QED
      BY <3>2, <3>3
  <2> QED
    BY <2>2, <2>3
<1>6. ASSUME NEW g \in Frames, g # Top(t)
      PROVE  g \in Frames'
  <2>0. PICK u \in Thread : \E i \in 1..Len(th[u]) : g = th[u][i]
    BY <1>1, FrameIn
  <2>1. PICK i \in 1..Len(th[u]) : g = th[u][i]
    BY <2>0
  <2>2. CASE u # t
    <3>1. th'[u] = th[u]
      BY <1>2, <2>2
    <3> QED
      BY <1>2, <2>1, <3>1, FrameInNext
  <2>3. CASE u = t
    <3>1. i # Len(th[t])
      BY <1>1, <1>6, <2>1, <2>3
    <3>2. i \in 1..Len(th'[t]) /\ g = th'[t][i]
      BY <1>2, <1>3, <2>1, <2>3, <3>1
    <3> QED
      BY <1>2, <3>2, FrameInNext
  <2> QED
    BY <2>2, <2>3
<1> QED
  BY <1>4, <1>5, <1>6

LEMMA FramesPushed ==
  ASSUME StacksOK, NEW t \in Thread, NEW f \in Frame, th' = [th EXCEPT ![t] = Append(@, f)]
  PROVE  Frames' \subseteq Frames \cup {f} /\ Frames \subseteq Frames'
<1>1. th \in [Thread -> Seq(Frame)] /\ th[t] \in Seq(Frame)
  BY DEF StacksOK
<1>2. Pushed(th[t], Append(th[t], f), f)
  BY <1>1, PushFacts
<1> DEFINE new == Append(th[t], f)
<1>3. th' = [th EXCEPT ![t] = new]
  OBVIOUS
<1>4. /\ new \in Seq(Frame) /\ Len(new) = Len(th[t]) + 1 /\ new[Len(th[t]) + 1] = f
      /\ \A i \in 1..Len(th[t]) : new[i] = th[t][i]
  BY <1>2 DEF Pushed
<1> HIDE DEF new
<1>5. th' \in [Thread -> Seq(Frame)] /\ th'[t] = new /\ \A u \in Thread \ {t} : th'[u] = th[u]
  BY <1>1, <1>3, <1>4
<1>6. Len(th[t]) \in Nat
  BY <1>1, LenProperties
<1>7. ASSUME NEW g \in Frames'
      PROVE  g \in Frames \cup {f}
  <2>0. PICK u \in Thread : \E i \in 1..Len(th'[u]) : g = th'[u][i]
    BY <1>5, FrameInNext
  <2>1. PICK i \in 1..Len(th'[u]) : g = th'[u][i]
    BY <2>0
  <2>2. CASE u # t
    <3>1. th'[u] = th[u]
      BY <1>5, <2>2
    <3> QED
      BY <1>1, <2>1, <3>1, FrameIn
  <2>3. CASE u = t
    <3>1. i \in 1..(Len(th[t]) + 1) /\ g = new[i]
      BY <1>4, <1>5, <2>1, <2>3
    <3>2. CASE i = Len(th[t]) + 1
      BY <1>4, <3>1, <3>2
    <3>3. CASE i # Len(th[t]) + 1
      <4>1. i \in 1..Len(th[t])
        BY <1>6, <3>1, <3>3
      <4>2. g = th[t][i]
        BY <1>4, <3>1, <4>1
      <4> QED
        BY <1>1, <4>1, <4>2, FrameIn
    <3> QED
      BY <3>2, <3>3
  <2> QED
    BY <2>2, <2>3
<1>8. ASSUME NEW g \in Frames
      PROVE  g \in Frames'
  <2>0. PICK u \in Thread : \E i \in 1..Len(th[u]) : g = th[u][i]
    BY <1>1, FrameIn
  <2>1. PICK i \in 1..Len(th[u]) : g = th[u][i]
    BY <2>0
  <2>2. i \in 1..Len(th'[u]) /\ g = th'[u][i]
    <3>1. CASE u # t
      BY <1>5, <2>1, <3>1
    <3>2. CASE u = t
      BY <1>4, <1>5, <1>6, <2>1, <3>2
    <3> QED
      BY <3>1, <3>2
  <2> QED
    BY <1>5, <2>2, FrameInNext
<1> QED
  BY <1>7, <1>8

LEMMA FramesPopped ==
  ASSUME StacksOK, NEW t \in Thread, Len(th[t]) > 1, Pop(t)
  PROVE  Frames' \subseteq Frames /\ Frames \ {Top(t)} \subseteq Frames'
<1>1. th \in [Thread -> Seq(Frame)] /\ th[t] \in Seq(Frame)
  BY DEF StacksOK
<1>2. th[t] # <<>>
  BY <1>1, EmptySeq
<1>3. Top(t) = th[t][Len(th[t])] /\ Len(th[t]) \in Nat \ {0}
  BY <1>2, RunFacts
<1> DEFINE new == Front(th[t])
<1>4. Popped(th[t], new)
  BY <1>1, PopFacts
<1>5. th' = [th EXCEPT ![t] = new]
  BY DEF Pop
<1>6. /\ new \in Seq(Frame) /\ Len(new) = Len(th[t]) - 1
      /\ \A i \in 1..(Len(th[t]) - 1) : new[i] = th[t][i]
  BY <1>4 DEF Popped
<1> HIDE DEF new
<1>7. th' \in [Thread -> Seq(Frame)] /\ th'[t] = new /\ \A u \in Thread \ {t} : th'[u] = th[u]
  BY <1>1, <1>5, <1>6
<1>8. ASSUME NEW g \in Frames'
      PROVE  g \in Frames
  <2>0. PICK u \in Thread : \E i \in 1..Len(th'[u]) : g = th'[u][i]
    BY <1>7, FrameInNext
  <2>1. PICK i \in 1..Len(th'[u]) : g = th'[u][i]
    BY <2>0
  <2>2. i \in 1..Len(th[u]) /\ g = th[u][i]
    <3>1. CASE u # t
      BY <1>7, <2>1, <3>1
    <3>2. CASE u = t
      BY <1>3, <1>6, <1>7, <2>1, <3>2
    <3> QED
      BY <3>1, <3>2
  <2> QED
    BY <1>1, <2>2, FrameIn
<1>9. ASSUME NEW g \in Frames, g # Top(t)
      PROVE  g \in Frames'
  <2>0. PICK u \in Thread : \E i \in 1..Len(th[u]) : g = th[u][i]
    BY <1>1, FrameIn
  <2>1. PICK i \in 1..Len(th[u]) : g = th[u][i]
    BY <2>0
  <2>2. i \in 1..Len(th'[u]) /\ g = th'[u][i]
    <3>1. CASE u # t
      BY <1>7, <2>1, <3>1
    <3>2. CASE u = t
      <4>1. i # Len(th[t]) /\ i \in 1..Len(th[t])
        BY <1>3, <1>9, <2>1, <3>2
      <4>2. i \in 1..(Len(th[t]) - 1)
        BY <1>3, <4>1
      <4> QED
        BY <1>6, <1>7, <2>1, <3>2, <4>2
    <3> QED
      BY <3>1, <3>2
  <2> QED
    BY <1>7, <2>2, FrameInNext
<1> QED
  BY <1>8, <1>9

-----------------------------------------------------------------------------
(* The table. *)

LEMMA AdjustedStays ==
  ASSUME NEW s, shoot' = shoot, kernAct'[s] = kernAct[s], appl'[s] = appl[s],
         client \subseteq client', keepOpen \subseteq keepOpen', Adjusted(s)
  PROVE  Adjusted(s)'
<1>1. shoot' \in kernAct'[s]
  BY DEF Adjusted
<1>2. ASSUME s \notin client'
      PROVE  \E k \in SUBSET keepOpen' : kernAct'[s] = (appl'[s].mask \ k) \cup {shoot'}
  <2>1. s \notin client
    BY <1>2
  <2>2. PICK k \in SUBSET keepOpen : kernAct[s] = (appl[s].mask \ k) \cup {shoot}
    BY <2>1 DEF Adjusted, AdjustSamask
  <2> QED
    BY <2>2
<1> QED
  BY <1>1, <1>2 DEF Adjusted, AdjustSamask

LEMMA GoodStays ==
  ASSUME NEW s, NEW k, shoot' = shoot, kernAct'[s] = kernAct[s], appl'[s] = appl[s],
         client \subseteq client', keepOpen \subseteq keepOpen', Good(s, k)
  PROVE  Good(s, k)'
BY AdjustedStays DEF Good

\* The entry of s, and what widens it, are as before.
EntryKept(s) == kernAct'[s] = kernAct[s] /\ appl'[s] = appl[s]
Widened == /\ shoot' = shoot /\ client \subseteq client' /\ keepOpen \subseteq keepOpen'
           /\ tangled \subseteq tangled'

\* A call stays what it was if the entries that it is about are kept.
LEMMA CallStays ==
  ASSUME NEW f \in Frame, CallOK(f), Widened,
         f.at \in {"adjust", "install"} /\ f.on \notin tangled' => EntryKept(f.on),
         f.at = "system" => \A s \in SystemIgnores \ tangled' : EntryKept(s)
  PROVE  CallOK(f)'
<1>1. ASSUME f.at = "adjust", f.on \notin tangled'
      PROVE  f.on \in client' \/ kernAct'[f.on] = appl'[f.on].mask \/ Adjusted(f.on)'
  <2>1. f.on \notin tangled /\ EntryKept(f.on)
    BY <1>1 DEF Widened
  <2>2. CASE Adjusted(f.on)
    BY <2>1, <2>2, AdjustedStays DEF Widened, EntryKept
  <2>3. CASE f.on \in client \/ kernAct[f.on] = appl[f.on].mask
    BY <2>1, <2>3 DEF Widened, EntryKept
  <2> QED
    BY <1>1, <2>1, <2>2, <2>3 DEF CallOK
<1>2. ASSUME f.at = "install", f.on \notin tangled'
      PROVE  Adjusted(f.on)'
  <2>1. f.on \notin tangled /\ EntryKept(f.on)
    BY <1>2 DEF Widened
  <2>2. Adjusted(f.on)
    BY <1>2, <2>1 DEF CallOK
  <2> QED
    BY <2>1, <2>2, AdjustedStays DEF Widened, EntryKept
<1>3. ASSUME f.at = "system", NEW s \in SystemIgnores \ tangled'
      PROVE  Good(s, f.old[s])'
  <2>1. s \notin tangled /\ EntryKept(s)
    BY <1>3 DEF Widened
  <2>2. Good(s, f.old[s])
    BY <1>3, <2>1 DEF CallOK
  <2> QED
    BY <2>1, <2>2, GoodStays DEF Widened, EntryKept
<1> QED
  BY <1>1, <1>2, <1>3 DEF CallOK

\* What the kernel has for s stays good.
LEMMA KernStays ==
  ASSUME NEW s, Widened, EntryKept(s), kern'[s] = kern[s], Good(s, kern[s])
  PROVE  Good(s, kern[s])'
<1>1. PICK k : k = kern[s]
  OBVIOUS
<1>2. Good(s, k)'
  BY <1>1, GoodStays DEF Widened, EntryKept
<1> QED
  BY <1>1, <1>2 DEF Good

\* Calls that are about the table, and steps that change none of them.
TableLoc == {"adjust", "install", "system"}
CallsSame == \A f \in Frame : f.at \in TableLoc => (f \in Frames <=> f \in Frames')

LEMMA CallsOfFrames ==
  ASSUME SignalInv, SignalInv', CallsSame
  PROVE  /\ InSystem' <=> InSystem
         /\ \A s : InCallOn(s)' <=> InCallOn(s)
<1>1. \A f \in Frames : f \in Frame
  BY FramesTyped DEF SignalInv
<1>2. \A f \in Frames' : f \in Frame
  <2>1. th' \in [Thread -> Seq(Frame)]
    BY DEF SignalInv, StacksOK
  <2> QED
    BY <2>1, FramesTypedNext
<1> QED
  BY <1>1, <1>2 DEF CallsSame, TableLoc, InSystem, InCallOn

\* What a frame does in a call stays what it was, if no entry changes.
LEMMA CallsStay ==
  ASSUME SignalInv, SignalInv', TableInv, CallsSame, Widened, \A s : EntryKept(s)
  PROVE  \A f \in Frames' : CallOK(f)'
<1> SUFFICES ASSUME NEW f \in Frames'
             PROVE  CallOK(f)'
  OBVIOUS
<1>1. f \in Frame
  <2>1. th' \in [Thread -> Seq(Frame)]
    BY DEF SignalInv, StacksOK
  <2> QED
    BY <2>1, FramesTypedNext
<1>2. CASE f.at \in TableLoc
  <2>1. CallOK(f)
    BY <1>1, <1>2 DEF CallsSame, TableInv
  <2> QED
    BY <1>1, <2>1, CallStays
<1>3. CASE f.at \notin TableLoc
  BY <1>3 DEF CallOK, TableLoc
<1> QED
  BY <1>2, <1>3

LEMMA TableQuiet ==
  ASSUME SignalInv, SignalInv', TableInv, CallsSame, TablesKept, tangled' = tangled,
         status' # "dead" => status # "dead"
  PROVE  TableInv'
<1>1. /\ Widened /\ kern' = kern /\ \A s : EntryKept(s)
  BY DEF TablesKept, tableVars, Widened, EntryKept
<1>2. /\ InSystem' <=> InSystem
      /\ \A s : InCallOn(s)' <=> InCallOn(s)
  BY CallsOfFrames
<1>3. BlockPart'
  BY <1>1 DEF TableInv, BlockPart, Widened
<1>4. SamePart'
  BY <1>1, <1>2, KernStays DEF TableInv, SamePart
<1>5. OverlapPart'
  BY <1>2 DEF TableInv, OverlapPart
<1>6. \A f \in Frames' : CallOK(f)'
  BY <1>1, CallsStay
<1> QED
  BY <1>3, <1>4, <1>5, <1>6 DEF TableInv

LEMMA StoreActionTable ==
  ASSUME SignalInv, TableInv, NEW t \in Thread, NEW s0 \in Sig, NEW act \in Act[s0],
         StoreAction(t, s0, act)
  PROVE  TableInv'
<1> DEFINE f == [Top(t) EXCEPT !.at = "adjust", !.on = s0]
<1>1. /\ th[t] # <<>> /\ Top(t).at = "run" /\ s0 \in Managed
      /\ appl' = [appl EXCEPT ![s0] = act] /\ kernAct' = [kernAct EXCEPT ![s0] = act.mask]
      /\ SetTop(t, f) /\ tangled' = tangled \cup Overlapping(s0)
      /\ UNCHANGED <<shoot, keepOpen, kern, client, mask, status, inherited>>
  BY DEF StoreAction, Call, At
<1>2. StacksOK /\ appl \in [Sig -> ApplRecord] /\ kernAct \in [Sig -> SUBSET Sig]
  BY DEF SignalInv, TableTypes
<1>3. Top(t) \in Frame
  BY <1>1, <1>2, RunFacts
<1>4. f \in Frame /\ f.at = "adjust" /\ f.on = s0
  BY <1>3 DEF Frame, Loc, CallLoc
<1> HIDE DEF f
<1>5. f \in Frames' /\ Frames' \subseteq Frames \cup {f} /\ Frames \ {Top(t)} \subseteq Frames'
  BY <1>1, <1>2, <1>4, FramesReplaced
<1>6. /\ Widened /\ \A s \in Sig : s # s0 => EntryKept(s)
      /\ kernAct'[s0] = act.mask /\ appl'[s0] = act
  BY <1>1, <1>2 DEF Widened, EntryKept
<1>7. /\ InCallOn(s0) => s0 \in tangled'
      /\ InSystem /\ s0 \in SystemIgnores => s0 \in tangled'
  BY <1>1 DEF Overlapping
<1>8. /\ InSystem <=> InSystem'
      /\ \A s : InCallOn(s)' <=> InCallOn(s) \/ s = s0
  BY <1>1, <1>4, <1>5 DEF InSystem, InCallOn
<1>9. BlockPart'
  BY <1>1, <1>6 DEF TableInv, BlockPart, Widened
<1>10. SamePart'
  <2> SUFFICES ASSUME status' # "dead", NEW s \in Managed \ tangled'
               PROVE  \/ (InSystem' /\ s \in SystemIgnores) \/ InCallOn(s)'
                      \/ Good(s, kern[s])'
    BY <1>1 DEF SamePart, Managed
  <2>1. CASE s = s0
    BY <1>8, <2>1
  <2>2. CASE s # s0
    <3>1. EntryKept(s) /\ kern'[s] = kern[s] /\ s \notin tangled
      BY <1>1, <1>6, <2>2, Constants DEF Widened
    <3>2. (InSystem /\ s \in SystemIgnores) \/ InCallOn(s) \/ Good(s, kern[s])
      BY <1>1, <3>1 DEF TableInv, SamePart
    <3> QED
      BY <1>6, <1>8, <3>1, <3>2, KernStays
  <2> QED
    BY <2>1, <2>2
<1>11. OverlapPart'
  BY <1>6, <1>7, <1>8 DEF TableInv, OverlapPart, Widened
<1>12. ASSUME NEW g \in Frames'
       PROVE  CallOK(g)'
  <2>1. CASE g = f
    BY <1>4, <1>6, <2>1 DEF CallOK
  <2>2. CASE g # f
    <3>1. g \in Frames
      BY <1>5, <2>2
    <3>2. g \in Frame /\ CallOK(g) /\ \E i \in Nat : FrameOK(g, i, shoot)
      BY <1>2, <3>1, FramesTyped DEF TableInv
    <3>3. g.at \in {"adjust", "install"} /\ g.on \notin tangled' => EntryKept(g.on)
      <4> HAVE g.at \in {"adjust", "install"} /\ g.on \notin tangled'
      <4>1. g.on \in Sig
        BY <3>2, Constants DEF FrameOK
      <4>2. InCallOn(g.on)
        BY <3>1 DEF InCallOn
      <4> QED
        BY <1>6, <1>7, <4>1, <4>2
    <3>4. g.at = "system" => \A s \in SystemIgnores \ tangled' : EntryKept(s)
      <4> HAVE g.at = "system"
      <4>1. InSystem
        BY <3>1 DEF InSystem
      <4> QED
        BY <1>6, <1>7, <4>1, Constants
    <3> QED
      BY <1>6, <3>2, <3>3, <3>4, CallStays
  <2> QED
    BY <2>1, <2>2
<1> QED
  BY <1>9, <1>10, <1>11, <1>12 DEF TableInv

LEMMA AdjustActionTable ==
  ASSUME SignalInv, TableInv, NEW t \in Thread, AdjustAction(t)
  PROVE  TableInv'
<1>0. PICK s0 : s0 = Top(t).on
  OBVIOUS
<1> DEFINE f == [Top(t) EXCEPT !.at = "install"]
           open == keepOpen \cap Managed
<1>1. /\ th[t] # <<>> /\ Top(t).at = "adjust" /\ status # "dead" /\ SetTop(t, f)
      /\ kernAct' = [kernAct EXCEPT ![s0] = AdjustSamask(@ \ open)]
      /\ UNCHANGED <<shoot, keepOpen, appl, kern, client, mask, status, calls,
                     inherited, tangled>>
  BY <1>0 DEF AdjustAction, At, Goto, histVars
<1>2. StacksOK /\ kernAct \in [Sig -> SUBSET Sig]
  BY DEF SignalInv, TableTypes
<1>3. Top(t) \in Frame /\ s0 \in Managed /\ Top(t) \in Frames
  BY <1>0, <1>1, <1>2, RunFacts, TopIsFrame DEF FrameOK
<1>4. f \in Frame /\ f.at = "install" /\ f.on = s0
  BY <1>0, <1>3 DEF Frame, Loc, CallLoc
<1>5. InCallOn(s0) /\ CallOK(Top(t))
  BY <1>0, <1>1, <1>3 DEF InCallOn, TableInv
<1> HIDE DEF f
<1>6. f \in Frames' /\ Frames' \subseteq Frames \cup {f} /\ Frames \ {Top(t)} \subseteq Frames'
  BY <1>1, <1>2, <1>4, FramesReplaced
<1>7. s0 \notin tangled => s0 \in client \/ kernAct[s0] = appl[s0].mask \/ Adjusted(s0)
  BY <1>0, <1>1, <1>5 DEF CallOK
<1>8. /\ Widened /\ \A s \in Sig : s # s0 => EntryKept(s)
      /\ kernAct'[s0] = AdjustSamask(kernAct[s0] \ open)
  BY <1>1, <1>2, <1>3, Constants DEF Widened, EntryKept
<1>9. /\ InSystem <=> InSystem'
      /\ \A s : InCallOn(s)' <=> InCallOn(s)
  <2>1. InSystem <=> InSystem'
    BY <1>1, <1>4, <1>6 DEF InSystem
  <2>2. ASSUME NEW s
        PROVE  InCallOn(s)' <=> InCallOn(s)
    <3>1. CASE s = s0
      BY <1>4, <1>5, <1>6, <3>1 DEF InCallOn
    <3>2. CASE s # s0
      <4>1. Top(t).on # s /\ f.on # s
        BY <1>0, <1>4, <3>2
      <4> QED
        BY <1>6, <4>1 DEF InCallOn
    <3> QED
      BY <3>1, <3>2
  <2> QED
    BY <2>1, <2>2
<1>10. s0 \notin tangled => Adjusted(s0)'
  <2> HAVE s0 \notin tangled
  <2>1. kernAct'[s0] = (kernAct[s0] \ open) \cup {shoot} /\ shoot' = shoot
    BY <1>1, <1>8 DEF AdjustSamask
  <2>2. ASSUME s0 \notin client
        PROVE  \E k \in SUBSET keepOpen : kernAct'[s0] = (appl[s0].mask \ k) \cup {shoot}
    <3>1. CASE kernAct[s0] = appl[s0].mask
      BY <2>1, <3>1
    <3>2. CASE Adjusted(s0)
      <4>1. PICK k \in SUBSET keepOpen : kernAct[s0] = (appl[s0].mask \ k) \cup {shoot}
        BY <2>2, <3>2 DEF Adjusted, AdjustSamask
      <4>2. kernAct'[s0] = (appl[s0].mask \ (k \cup open)) \cup {shoot}
        BY <2>1, <4>1
      <4>3. k \cup open \in SUBSET keepOpen
        OBVIOUS
      <4> QED
        BY <4>2, <4>3
    <3> QED
      BY <1>7, <2>2, <3>1, <3>2
  <2> QED
    BY <1>1, <2>1, <2>2 DEF Adjusted, AdjustSamask
<1>11. BlockPart'
  BY <1>1 DEF TableInv, BlockPart
<1>12. SamePart'
  <2> SUFFICES ASSUME status' # "dead", NEW s \in Managed \ tangled'
               PROVE  \/ (InSystem' /\ s \in SystemIgnores) \/ InCallOn(s)'
                      \/ Good(s, kern[s])'
    BY <1>1 DEF SamePart, Managed
  <2>1. CASE s = s0
    BY <1>5, <1>9, <2>1
  <2>2. CASE s # s0
    <3>1. EntryKept(s) /\ kern'[s] = kern[s] /\ s \notin tangled
      BY <1>1, <1>8, <2>2, Constants
    <3>2. (InSystem /\ s \in SystemIgnores) \/ InCallOn(s) \/ Good(s, kern[s])
      BY <1>1, <3>1 DEF TableInv, SamePart
    <3> QED
      BY <1>8, <1>9, <3>1, <3>2, KernStays
  <2> QED
    BY <2>1, <2>2
<1>13. OverlapPart'
  BY <1>1, <1>9 DEF TableInv, OverlapPart
<1>14. ASSUME NEW g \in Frames'
       PROVE  CallOK(g)'
  <2>1. CASE g = f
    BY <1>1, <1>4, <1>10, <2>1 DEF CallOK
  <2>2. CASE g # f
    <3>1. g \in Frames
      BY <1>6, <2>2
    <3>2. g \in Frame /\ CallOK(g) /\ \E i \in Nat : FrameOK(g, i, shoot)
      BY <1>2, <3>1, FramesTyped DEF TableInv
    <3>3. CASE g.at \in {"adjust", "install"} /\ g.on = s0
      BY <1>1, <1>10, <3>3 DEF CallOK
    <3>4. CASE ~(g.at \in {"adjust", "install"} /\ g.on = s0)
      <4>1. g.at \in {"adjust", "install"} /\ g.on \notin tangled' => EntryKept(g.on)
        BY <1>8, <3>2, <3>4, Constants DEF FrameOK
      <4>2. g.at = "system" => \A s \in SystemIgnores \ tangled' : EntryKept(s)
        <5> HAVE g.at = "system"
        <5>1. InSystem
          BY <3>1 DEF InSystem
        <5>2. s0 \notin SystemIgnores \ tangled
          BY <1>5, <5>1 DEF TableInv, OverlapPart
        <5> QED
          BY <1>1, <1>8, <5>2, Constants
      <4> QED
        BY <1>8, <3>2, <4>1, <4>2, CallStays
    <3> QED
      BY <3>3, <3>4
  <2> QED
    BY <2>1, <2>2
<1> QED
  BY <1>11, <1>12, <1>13, <1>14 DEF TableInv

LEMMA InstallActionTable ==
  ASSUME SignalInv, TableInv, NEW t \in Thread, InstallAction(t)
  PROVE  TableInv'
<1>0. PICK s0 : s0 = Top(t).on
  OBVIOUS
<1> DEFINE f == [Top(t) EXCEPT !.at = "run", !.on = NoSig]
           k == [by |-> "monitor", mask |-> kernAct[s0]]
<1>1. /\ th[t] # <<>> /\ Top(t).at = "install" /\ SetTop(t, f)
      /\ kern' = [kern EXCEPT ![s0] = k]
      /\ UNCHANGED <<shoot, keepOpen, appl, kernAct, client, mask, status, calls,
                     inherited, tangled>>
  BY <1>0 DEF InstallAction, At, histVars
<1>2. StacksOK /\ kern \in [Sig -> KernRecord]
  BY DEF SignalInv, TableTypes
<1>3. Top(t) \in Frame /\ s0 \in Managed /\ Top(t) \in Frames
  BY <1>0, <1>1, <1>2, RunFacts, TopIsFrame DEF FrameOK
<1>4. f \in Frame /\ f.at = "run"
  BY <1>3 DEF Frame, Loc, CallLoc
<1> HIDE DEF f
<1>5. f \in Frames' /\ Frames' \subseteq Frames \cup {f} /\ Frames \ {Top(t)} \subseteq Frames'
  BY <1>1, <1>2, <1>4, FramesReplaced
<1>6. s0 \notin tangled => Adjusted(s0)
  <2>1. CallOK(Top(t))
    BY <1>3 DEF TableInv
  <2> QED
    BY <1>0, <1>1, <2>1 DEF CallOK
<1>7. Widened /\ \A s : EntryKept(s)
  BY <1>1 DEF Widened, EntryKept
<1>8. k.by = "monitor" /\ k.mask = kernAct[s0]
  OBVIOUS
<1> HIDE DEF k
<1>9. kern'[s0] = k /\ \A s \in Sig : s # s0 => kern'[s] = kern[s]
  BY <1>1, <1>2, <1>3, Constants
<1>10. /\ InSystem' <=> InSystem
       /\ \A s : InCallOn(s)' => InCallOn(s)
       /\ \A s : s # s0 /\ InCallOn(s) => InCallOn(s)'
  <2>1. InSystem' <=> InSystem
    BY <1>1, <1>4, <1>5 DEF InSystem
  <2>2. \A s : InCallOn(s)' => InCallOn(s)
    BY <1>4, <1>5 DEF InCallOn
  <2>3. \A s : s # s0 /\ InCallOn(s) => InCallOn(s)'
    BY <1>0, <1>5 DEF InCallOn
  <2> QED
    BY <2>1, <2>2, <2>3
<1>11. BlockPart'
  <2> SUFFICES ASSUME NEW s \in Managed \ tangled', kern'[s].by = "monitor"
               PROVE  shoot' \in kern'[s].mask
    BY DEF BlockPart, Managed
  <2>1. CASE s = s0
    BY <1>1, <1>6, <1>8, <1>9, <2>1 DEF Adjusted
  <2>2. CASE s # s0
    BY <1>1, <1>9, <2>2, Constants DEF TableInv, BlockPart
  <2> QED
    BY <2>1, <2>2
<1>12. SamePart'
  <2> SUFFICES ASSUME status' # "dead", NEW s \in Managed \ tangled'
               PROVE  \/ (InSystem' /\ s \in SystemIgnores) \/ InCallOn(s)'
                      \/ Good(s, kern[s])'
    BY DEF SamePart, Managed
  <2>1. CASE s = s0
    <3>1. Adjusted(s)'
      BY <1>1, <1>6, <1>7, <2>1, AdjustedStays DEF Widened, EntryKept
    <3> QED
      BY <1>1, <1>8, <1>9, <2>1, <3>1 DEF Good
  <2>2. CASE s # s0
    <3>1. kern'[s] = kern[s] /\ s \notin tangled
      BY <1>1, <1>9, <2>2, Constants
    <3>2. (InSystem /\ s \in SystemIgnores) \/ InCallOn(s) \/ Good(s, kern[s])
      BY <1>1, <3>1 DEF TableInv, SamePart
    <3> QED
      BY <1>7, <1>10, <2>2, <3>1, <3>2, KernStays
  <2> QED
    BY <2>1, <2>2
<1>13. OverlapPart'
  BY <1>1, <1>10 DEF TableInv, OverlapPart
<1>14. ASSUME NEW g \in Frames'
       PROVE  CallOK(g)'
  <2>1. CASE g = f
    BY <1>4, <2>1 DEF CallOK
  <2>2. CASE g # f
    <3>1. g \in Frames
      BY <1>5, <2>2
    <3>2. g \in Frame /\ CallOK(g)
      BY <1>2, <3>1, FramesTyped DEF TableInv
    <3> QED
      BY <1>7, <3>2, CallStays
  <2> QED
    BY <2>1, <2>2
<1> QED
  BY <1>11, <1>12, <1>13, <1>14 DEF TableInv

LEMMA AvoidActionTable ==
  ASSUME SignalInv, TableInv, NEW t \in Thread, NEW s0 \in Sig, NEW act \in Act[s0],
         AvoidAction(t, s0, act)
  PROVE  TableInv'
<1>1. /\ s0 \in Avoid /\ kern' = [kern EXCEPT ![s0] = [by |-> act.hand, mask |-> act.mask]]
      /\ UNCHANGED <<shoot, keepOpen, appl, kernAct, client, mask, th, status,
                     inherited, tangled, late, loose, winner, over>>
  BY DEF AvoidAction, endVars, histVars
<1>2. StacksOK /\ kern \in [Sig -> KernRecord]
  BY DEF SignalInv, TableTypes
<1>3. \A s \in Managed : kern'[s] = kern[s]
  BY <1>1, <1>2, Constants DEF Managed
<1>4. Widened /\ \A s : EntryKept(s)
  BY <1>1 DEF Widened, EntryKept
<1>5. Frames' = Frames /\ InSystem' = InSystem /\ \A s : InCallOn(s)' <=> InCallOn(s)
  BY <1>1 DEF Frames, InSystem, InCallOn
<1>6. BlockPart'
  BY <1>1, <1>3 DEF TableInv, BlockPart
<1>7. SamePart'
  BY <1>1, <1>3, <1>4, <1>5, KernStays DEF TableInv, SamePart
<1>8. OverlapPart'
  BY <1>1, <1>5 DEF TableInv, OverlapPart
<1>9. ASSUME NEW g \in Frames'
      PROVE  CallOK(g)'
  <2>1. g \in Frame /\ CallOK(g)
    BY <1>2, <1>5, FramesTyped DEF TableInv
  <2> QED
    BY <1>4, <2>1, CallStays
<1> QED
  BY <1>6, <1>7, <1>8, <1>9 DEF TableInv

LEMMA ClientActionTable ==
  ASSUME SignalInv, TableInv, NEW t \in Thread, NEW s0 \in Sig, ClientAction(t, s0)
  PROVE  TableInv'
<1>1. /\ s0 \in Managed
      /\ keepOpen' = keepOpen \cup {s0} /\ client' = client \cup {s0}
      /\ UNCHANGED <<shoot, appl, mask, th, status, inherited>>
  BY DEF ClientAction
<1>2. StacksOK /\ kern \in [Sig -> KernRecord] /\ kernAct \in [Sig -> SUBSET Sig]
  BY DEF SignalInv, TableTypes
<1>3. Frames' = Frames /\ InSystem' = InSystem /\ \A s : InCallOn(s)' <=> InCallOn(s)
  BY <1>1 DEF Frames, InSystem, InCallOn
<1>4. CASE UNCHANGED <<kernAct, kern, tangled>>
  <2>1. Widened /\ \A s : EntryKept(s)
    BY <1>1, <1>4 DEF Widened, EntryKept
  <2>2. BlockPart'
    BY <1>1, <1>4 DEF TableInv, BlockPart
  <2>3. SamePart'
    BY <1>1, <1>3, <1>4, <2>1, KernStays DEF TableInv, SamePart
  <2>4. OverlapPart'
    BY <1>3, <1>4 DEF TableInv, OverlapPart
  <2>5. ASSUME NEW g \in Frames'
        PROVE  CallOK(g)'
    <3>1. g \in Frame /\ CallOK(g)
      BY <1>2, <1>3, FramesTyped DEF TableInv
    <3> QED
      BY <2>1, <3>1, CallStays
  <2> QED
    BY <2>2, <2>3, <2>4, <2>5 DEF TableInv
<1>5. ASSUME NEW m \in MaskOf,
             kernAct' = [kernAct EXCEPT ![s0] = AdjustSamask(m)],
             kern' = [kern EXCEPT ![s0] = [by |-> "monitor", mask |-> AdjustSamask(m)]],
             tangled' = tangled \cup Overlapping(s0)
      PROVE  TableInv'
  <2>1. /\ Widened /\ \A s \in Sig : s # s0 => EntryKept(s) /\ kern'[s] = kern[s]
        /\ kernAct'[s0] = m \cup {shoot}
        /\ kern'[s0].by = "monitor" /\ kern'[s0].mask = m \cup {shoot}
    BY <1>1, <1>2, <1>5 DEF Widened, EntryKept, AdjustSamask
  <2>2. /\ InCallOn(s0) => s0 \in tangled'
        /\ InSystem /\ s0 \in SystemIgnores => s0 \in tangled'
    BY <1>5 DEF Overlapping
  <2>3. Good(s0, kern[s0])'
    <3>1. Adjusted(s0)'
      BY <1>1, <2>1 DEF Adjusted
    <3> QED
      BY <2>1, <3>1 DEF Good
  <2>4. BlockPart'
    <3> SUFFICES ASSUME NEW s \in Managed \ tangled', kern'[s].by = "monitor"
                 PROVE  shoot' \in kern'[s].mask
      BY DEF BlockPart, Managed
    <3>1. CASE s = s0
      BY <1>1, <2>1, <3>1
    <3>2. CASE s # s0
      BY <1>1, <2>1, <3>2, Constants DEF TableInv, BlockPart, Widened
    <3> QED
      BY <3>1, <3>2
  <2>5. SamePart'
    <3> SUFFICES ASSUME status' # "dead", NEW s \in Managed \ tangled'
                 PROVE  \/ (InSystem' /\ s \in SystemIgnores) \/ InCallOn(s)'
                        \/ Good(s, kern[s])'
      BY DEF SamePart, Managed
    <3>1. CASE s = s0
      BY <2>3, <3>1
    <3>2. CASE s # s0
      <4>1. kern'[s] = kern[s] /\ s \notin tangled /\ EntryKept(s)
        BY <2>1, <3>2, Constants DEF Widened
      <4>2. (InSystem /\ s \in SystemIgnores) \/ InCallOn(s) \/ Good(s, kern[s])
        BY <1>1, <4>1 DEF TableInv, SamePart
      <4> QED
        BY <1>3, <2>1, <4>1, <4>2, KernStays
    <3> QED
      BY <3>1, <3>2
  <2>6. OverlapPart'
    BY <1>3, <2>1 DEF TableInv, OverlapPart, Widened
  <2>7. ASSUME NEW g \in Frames'
        PROVE  CallOK(g)'
    <3>1. g \in Frames /\ g \in Frame /\ CallOK(g) /\ \E i \in Nat : FrameOK(g, i, shoot)
      BY <1>2, <1>3, FramesTyped DEF TableInv
    <3>2. g.at \in {"adjust", "install"} /\ g.on \notin tangled' => EntryKept(g.on)
      <4> HAVE g.at \in {"adjust", "install"} /\ g.on \notin tangled'
      <4>1. g.on \in Sig
        BY <3>1, Constants DEF FrameOK
      <4>2. InCallOn(g.on)
        BY <3>1 DEF InCallOn
      <4> QED
        BY <2>1, <2>2, <4>1, <4>2
    <3>3. g.at = "system" => \A s \in SystemIgnores \ tangled' : EntryKept(s)
      <4> HAVE g.at = "system"
      <4>1. InSystem
        BY <3>1 DEF InSystem
      <4> QED
        BY <2>1, <2>2, <4>1, Constants
    <3> QED
      BY <2>1, <3>1, <3>2, <3>3, CallStays
  <2> QED
    BY <2>4, <2>5, <2>6, <2>7 DEF TableInv
<1> QED
  BY <1>4, <1>5 DEF ClientAction

LEMMA SystemTable ==
  ASSUME SignalInv, TableInv, NEW t \in Thread, System(t)
  PROVE  TableInv'
<1> DEFINE old == [s \in SystemIgnores |-> kern[s]]
           f == [Top(t) EXCEPT !.at = "system", !.saved = mask[t], !.old = old]
<1>1. /\ th[t] # <<>> /\ Top(t).at = "run" /\ status # "dead" /\ SetTop(t, f)
      /\ kern' = [s \in Sig |-> IF s \in SystemIgnores THEN [by |-> "ign", mask |-> {}]
                                                       ELSE kern[s]]
      /\ tangled' = tangled \cup UNION {Overlapping(s) : s \in SystemIgnores}
      /\ UNCHANGED <<shoot, keepOpen, appl, kernAct, client, status, inherited>>
  BY DEF System, Call, At
<1>2. StacksOK /\ kern \in [Sig -> KernRecord]
  BY DEF SignalInv, TableTypes
<1>3. Top(t) \in Frame /\ mask[t] \in SUBSET Sig
  BY <1>1, <1>2, RunFacts
<1>4. old \in [SystemIgnores -> KernRecord] /\ \A s \in SystemIgnores : old[s] = kern[s]
  BY <1>2, Constants
<1> HIDE DEF old
<1>5. f \in Frame /\ f.at = "system" /\ f.old = old
  BY <1>3, <1>4 DEF Frame, Loc, CallLoc
<1> HIDE DEF f
<1>6. f \in Frames' /\ Frames' \subseteq Frames \cup {f} /\ Frames \ {Top(t)} \subseteq Frames'
  BY <1>1, <1>2, <1>5, FramesReplaced
<1>7. Widened /\ \A s : EntryKept(s)
  BY <1>1 DEF Widened, EntryKept
<1>8. \A s \in SystemIgnores : InCallOn(s) \/ InSystem => s \in tangled'
  BY <1>1 DEF Overlapping
<1>9. InSystem' /\ \A s : InCallOn(s)' <=> InCallOn(s)
  BY <1>1, <1>5, <1>6 DEF InSystem, InCallOn
<1>10. /\ \A s \in SystemIgnores : kern'[s].by = "ign"
       /\ \A s \in Sig \ SystemIgnores : kern'[s] = kern[s]
  BY <1>1, Constants
<1>11. BlockPart'
  <2> SUFFICES ASSUME NEW s \in Managed \ tangled', kern'[s].by = "monitor"
               PROVE  shoot' \in kern'[s].mask
    BY DEF BlockPart, Managed
  <2>1. s \in Sig \ SystemIgnores /\ s \notin tangled
    BY <1>7, <1>10, Constants DEF Widened
  <2> QED
    BY <1>1, <1>10, <2>1 DEF TableInv, BlockPart
<1>12. SamePart'
  <2> SUFFICES ASSUME status' # "dead", NEW s \in Managed \ tangled'
               PROVE  \/ (InSystem' /\ s \in SystemIgnores) \/ InCallOn(s)'
                      \/ Good(s, kern[s])'
    BY DEF SamePart, Managed
  <2>1. CASE s \in SystemIgnores
    BY <1>9, <2>1
  <2>2. CASE s \notin SystemIgnores
    <3>1. kern'[s] = kern[s] /\ s \notin tangled
      BY <1>7, <1>10, <2>2, Constants DEF Widened
    <3>2. InCallOn(s) \/ Good(s, kern[s])
      BY <1>1, <2>2, <3>1 DEF TableInv, SamePart
    <3> QED
      BY <1>7, <1>9, <3>1, <3>2, KernStays
  <2> QED
    BY <2>1, <2>2
<1>13. OverlapPart'
  BY <1>8, <1>9 DEF OverlapPart
<1>14. ASSUME NEW g \in Frames'
       PROVE  CallOK(g)'
  <2>1. CASE g = f
    <3>1. g.at = "system" /\ \A s \in SystemIgnores : g.old[s] = kern[s]
      BY <1>4, <1>5, <2>1
    <3>2. ASSUME NEW s \in SystemIgnores \ tangled'
          PROVE  Good(s, g.old[s])'
      <4>1. s \in Managed \ tangled /\ ~InCallOn(s) /\ ~InSystem
        BY <1>7, <1>8, Constants DEF Widened
      <4>2. Good(s, kern[s])
        BY <1>1, <4>1 DEF TableInv, SamePart
      <4>3. Good(s, g.old[s])
        BY <3>1, <4>2
      <4> QED
        BY <1>7, <4>3, GoodStays DEF Widened, EntryKept
    <3> QED
      BY <3>1, <3>2 DEF CallOK
  <2>2. CASE g # f
    <3>1. g \in Frames
      BY <1>6, <2>2
    <3>2. g \in Frame /\ CallOK(g)
      BY <1>2, <3>1, FramesTyped DEF TableInv
    <3> QED
      BY <1>7, <3>2, CallStays
  <2> QED
    BY <2>1, <2>2
<1> QED
  BY <1>11, <1>12, <1>13, <1>14 DEF TableInv

LEMMA SystemReturnTable ==
  ASSUME SignalInv, TableInv, NEW t \in Thread, SystemReturn(t)
  PROVE  TableInv'
<1>0. PICK g0 : g0 = Top(t)
  OBVIOUS
<1> DEFINE f == [g0 EXCEPT !.at = "run", !.saved = {}, !.old = NoOld]
<1>1. /\ th[t] # <<>> /\ g0.at = "system" /\ status # "dead" /\ SetTop(t, f)
      /\ kern' = [s \in Sig |-> IF s \in SystemIgnores THEN g0.old[s] ELSE kern[s]]
      /\ UNCHANGED <<shoot, keepOpen, appl, kernAct, client, status, calls,
                     inherited, tangled>>
  BY <1>0 DEF SystemReturn, At, histVars
<1>2. StacksOK
  BY DEF SignalInv
<1>3. g0 \in Frame /\ g0 \in Frames
  BY <1>0, <1>1, <1>2, RunFacts, TopIsFrame
<1>4. NoOld \in [SystemIgnores -> KernRecord]
  BY DEF NoOld, KernRecord
<1>5. f \in Frame /\ f.at = "run"
  BY <1>3, <1>4 DEF Frame, Loc
<1> HIDE DEF f
<1>6. f \in Frames' /\ Frames' \subseteq Frames \cup {f} /\ Frames \ {g0} \subseteq Frames'
  BY <1>0, <1>1, <1>2, <1>5, FramesReplaced
<1>7. Widened /\ \A s : EntryKept(s)
  BY <1>1 DEF Widened, EntryKept
<1>8. \A s \in SystemIgnores \ tangled : Good(s, g0.old[s])
  BY <1>1, <1>3 DEF TableInv, CallOK
<1>9. /\ InSystem' => InSystem
      /\ \A s : InCallOn(s)' <=> InCallOn(s)
  <2>1. InSystem' => InSystem
    BY <1>5, <1>6 DEF InSystem
  <2>2. \A s : InCallOn(s)' <=> InCallOn(s)
    BY <1>1, <1>5, <1>6 DEF InCallOn
  <2> QED
    BY <2>1, <2>2
<1>10. /\ \A s \in SystemIgnores : kern'[s] = g0.old[s]
       /\ \A s \in Sig \ SystemIgnores : kern'[s] = kern[s]
  BY <1>1, Constants
<1>11. BlockPart'
  <2> SUFFICES ASSUME NEW s \in Managed \ tangled', kern'[s].by = "monitor"
               PROVE  shoot' \in kern'[s].mask
    BY DEF BlockPart, Managed
  <2>1. CASE s \in SystemIgnores
    BY <1>1, <1>8, <1>10, <2>1 DEF Good, Adjusted
  <2>2. CASE s \notin SystemIgnores
    BY <1>1, <1>10, <2>2, Constants DEF TableInv, BlockPart
  <2> QED
    BY <2>1, <2>2
<1>12. SamePart'
  <2> SUFFICES ASSUME status' # "dead", NEW s \in Managed \ tangled'
               PROVE  \/ (InSystem' /\ s \in SystemIgnores) \/ InCallOn(s)'
                      \/ Good(s, kern[s])'
    BY DEF SamePart, Managed
  <2>1. CASE s \in SystemIgnores
    <3>1. Good(s, g0.old[s])'
      BY <1>1, <1>7, <1>8, <2>1, GoodStays DEF Widened, EntryKept
    <3>2. kern'[s] = g0.old[s]
      BY <1>10, <2>1
    <3> QED
      BY <3>1, <3>2 DEF Good
  <2>2. CASE s \notin SystemIgnores
    <3>1. kern'[s] = kern[s] /\ s \notin tangled
      BY <1>1, <1>10, <2>2, Constants
    <3>2. InCallOn(s) \/ Good(s, kern[s])
      BY <1>1, <2>2, <3>1 DEF TableInv, SamePart
    <3> QED
      BY <1>7, <1>9, <3>1, <3>2, KernStays
  <2> QED
    BY <2>1, <2>2
<1>13. OverlapPart'
  BY <1>1, <1>9 DEF TableInv, OverlapPart
<1>14. ASSUME NEW g \in Frames'
       PROVE  CallOK(g)'
  <2>1. CASE g = f
    BY <1>5, <2>1 DEF CallOK
  <2>2. CASE g # f
    <3>1. g \in Frames
      BY <1>6, <2>2
    <3>2. g \in Frame /\ CallOK(g)
      BY <1>2, <3>1, FramesTyped DEF TableInv
    <3> QED
      BY <1>7, <3>2, CallStays
  <2> QED
    BY <2>1, <2>2
<1> QED
  BY <1>11, <1>12, <1>13, <1>14 DEF TableInv

\* Steps that change no entry and no call.
LEMMA CallsSameStill ==
  ASSUME th' = th
  PROVE  CallsSame
BY DEF CallsSame, Frames

\* A frame that takes the top is typed.
LEMMA TopTyped ==
  ASSUME StacksOK, StacksOK', NEW t \in Thread, th[t] # <<>>, NEW f, SetTop(t, f)
  PROVE  f \in Frame
<1>1. Len(th[t]) \in Nat \ {0} /\ th[t] \in Seq(Frame) /\ th \in [Thread -> Seq(Frame)]
  BY RunFacts DEF StacksOK
<1>2. th'[t] = NewTop(t, f) /\ th'[t] \in Seq(Frame)
  BY <1>1 DEF SetTop, NewTop, StacksOK
<1>3. DOMAIN th[t] = 1..Len(th[t]) /\ Len(th[t]) \in 1..Len(th[t])
  BY <1>1, LenProperties
<1>4. NewTop(t, f)[Len(th[t])] = f /\ DOMAIN NewTop(t, f) = 1..Len(th[t])
  BY <1>3 DEF NewTop
<1>5. Len(th'[t]) = Len(th[t])
  BY <1>1, <1>2, <1>4, LenProperties
<1> QED
  BY <1>2, <1>3, <1>4, <1>5, ElementOfSeq

LEMMA CallsSameReplace ==
  ASSUME StacksOK, NEW t \in Thread, th[t] # <<>>, NEW f \in Frame, SetTop(t, f),
         Top(t).at \notin TableLoc, f.at \notin TableLoc
  PROVE  CallsSame
<1>1. Frames' \subseteq Frames \cup {f} /\ Frames \ {Top(t)} \subseteq Frames'
  BY FramesReplaced
<1> QED
  BY <1>1 DEF CallsSame

\* What a push adds.
LEMMA PushedFrame ==
  ASSUME StacksOK, NEW t \in Thread, NEW s \in Sig, NEW m,
         NEW l \in {"handler", "fini", "late", "run"}, NEW h \in Handler \cup {NoHandler},
         Push(t, s, m, l, h)
  PROVE  \E f \in Frame : /\ f.at = l /\ Frames' \subseteq Frames \cup {f}
                          /\ Frames \subseteq Frames'
<1> DEFINE f == [Base EXCEPT !.sig = s, !.saved = mask[t], !.at = l, !.hand = h]
<1>1. NoOld \in [SystemIgnores -> KernRecord] /\ mask[t] \in SUBSET Sig
  BY DEF NoOld, KernRecord, StacksOK
<1>2. f \in Frame /\ f.at = l
  BY <1>1 DEF Base, Frame, Loc
<1>3. th' = [th EXCEPT ![t] = Append(@, f)]
  BY DEF Push
<1> HIDE DEF f
<1>4. Frames' \subseteq Frames \cup {f} /\ Frames \subseteq Frames'
  BY <1>2, <1>3, FramesPushed
<1> QED
  BY <1>2, <1>4

LEMMA CallsSamePush ==
  ASSUME StacksOK, NEW t \in Thread, NEW s \in Sig, NEW m,
         NEW l \in {"handler", "fini", "late", "run"}, NEW h \in Handler \cup {NoHandler},
         Push(t, s, m, l, h)
  PROVE  CallsSame
BY PushedFrame DEF CallsSame, TableLoc

LEMMA CallsSamePop ==
  ASSUME StacksOK, NEW t \in Thread, Len(th[t]) > 1, Pop(t), Top(t).at \notin TableLoc
  PROVE  CallsSame
<1>1. Frames' \subseteq Frames /\ Frames \ {Top(t)} \subseteq Frames'
  BY FramesPopped
<1> QED
  BY <1>1 DEF CallsSame

LEMMA CallsSameCreate ==
  ASSUME SignalInv, SignalInv', NEW t \in Thread, NEW u \in Thread, CreateThread(t, u)
  PROVE  CallsSame
<1>1. /\ th \in [Thread -> Seq(Frame)] /\ th' \in [Thread -> Seq(Frame)]
  BY DEF SignalInv, StacksOK
<1>2. th[u] = <<>> /\ th'[u] = <<Base>> /\ \A v \in Thread \ {u} : th'[v] = th[v]
  BY <1>1 DEF CreateThread
<1>3. Len(<<>>) = 0 /\ Len(<<Base>>) = 1 /\ <<Base>>[1] = Base /\ Base.at = "run"
  BY DEF Base
<1> SUFFICES ASSUME NEW f \in Frame, f.at \in TableLoc
             PROVE  f \in Frames <=> f \in Frames'
  BY DEF CallsSame
<1>4. ASSUME f \in Frames
      PROVE  f \in Frames'
  <2>0. PICK v \in Thread : \E i \in 1..Len(th[v]) : f = th[v][i]
    BY <1>1, <1>4, FrameIn
  <2>1. v # u
    BY <1>2, <1>3, <2>0
  <2> QED
    BY <1>1, <1>2, <2>0, <2>1, FrameInNext
<1>5. ASSUME f \in Frames'
      PROVE  f \in Frames
  <2>0. PICK v \in Thread : \E i \in 1..Len(th'[v]) : f = th'[v][i]
    BY <1>1, <1>5, FrameInNext
  <2>1. v # u
    <3> SUFFICES ASSUME v = u PROVE FALSE
      OBVIOUS
    <3>1. f = Base
      BY <1>2, <1>3, <2>0
    <3> QED
      BY <1>3, <3>1 DEF TableLoc
  <2> QED
    BY <1>1, <1>2, <2>0, <2>1, FrameIn
<1> QED
  BY <1>4, <1>5

\* The steps of sigprocmask, of a handler, and of the end of the process.
LEMMA CallsSameMask ==
  ASSUME StacksOK, StacksOK', NEW t \in Thread,
         (\E how \in How, set \in MaskOf : Sigprocmask(t, how, set)) \/ RealSigprocmask(t)
  PROVE  CallsSame
<1>1. CASE \E how \in How, set \in MaskOf : Sigprocmask(t, how, set)
  <2>1. PICK how \in How, set \in MaskOf : Sigprocmask(t, how, set)
    BY <1>1
  <2> DEFINE f == [Top(t) EXCEPT !.at = how, !.set = RemoveClientSignals(t, set, how)]
  <2>2. th[t] # <<>> /\ Top(t).at = "run" /\ SetTop(t, f)
    BY <2>1 DEF Sigprocmask, Call, At
  <2>3. f \in Frame /\ Top(t) \in Frame
    BY <2>2, TopTyped, RunFacts
  <2>4. f.at = how
    BY <2>3 DEF Frame
  <2> HIDE DEF f
  <2> QED
    BY <2>2, <2>3, <2>4, CallsSameReplace DEF TableLoc, How
<1>2. CASE RealSigprocmask(t)
  <2> DEFINE f == [Top(t) EXCEPT !.at = "run", !.set = {}]
  <2>1. th[t] # <<>> /\ Top(t).at \in How /\ SetTop(t, f)
    BY <1>2 DEF RealSigprocmask, At
  <2>2. f \in Frame /\ Top(t) \in Frame
    BY <2>1, TopTyped, RunFacts
  <2>3. f.at = "run"
    BY <2>2 DEF Frame
  <2> HIDE DEF f
  <2> QED
    BY <2>1, <2>2, <2>3, CallsSameReplace DEF TableLoc, How
<1> QED
  BY <1>1, <1>2

LEMMA CallsSameMove ==
  ASSUME StacksOK, NEW t \in Thread, QuietStep(t) \/ Win(t) \/ ResetAction(t)
  PROVE  CallsSame
<1>1. Top(t).at \notin TableLoc
  BY DEF QuietStep, ClientAccepts, TestIgnore, ApplyNothing, ApplyDefault, NotDefault,
     ApplyHandler, HandlerReturn, WinOver, ClearMask, ReturnBare, Win, ResetAction, At,
     TableLoc
<1>2. CASE Len(th[t]) > 1 /\ Pop(t)
  BY <1>1, <1>2, CallsSamePop
<1>3. CASE \E f \in Frame : Moved(t, f)
  <2>1. PICK f \in Frame : Moved(t, f)
    BY <1>3
  <2>2. th[t] # <<>> /\ SetTop(t, f) /\ f.at \notin TableLoc
    BY <2>1 DEF Moved, CallLoc, TableLoc
  <2> QED
    BY <1>1, <2>2, CallsSameReplace
<1> QED
  BY <1>2, <1>3, MoveFacts

\* The kernel's handler for the shootdown signal, or the default of a signal that
\* ends the process.
LEMMA KernTable ==
  ASSUME SignalInv, SignalInv', TableInv, NEW t \in Thread, Win(t) \/ ResetAction(t)
  PROVE  TableInv'
<1>1. UNCHANGED <<shoot, keepOpen, appl, kernAct, client, tangled>> /\ status # "dead"
  BY DEF Win, ResetAction, At, histVars
<1>2. StacksOK /\ kern \in [Sig -> KernRecord]
  BY DEF SignalInv, TableTypes
<1>3. \A s \in Sig : \/ kern'[s] = kern[s] \/ kern'[s].by = "dfl"
                     \/ s = shoot /\ kern'[s].by = "shootdown"
  <2>1. CASE Win(t)
    <3>1. \/ kern' = kern
          \/ kern' = [kern EXCEPT ![shoot] = [by |-> "shootdown", mask |-> {}]]
      BY <2>1 DEF Win
    <3> QED
      BY <1>2, <3>1
  <2>2. CASE ResetAction(t)
    <3>1. kern' = [kern EXCEPT ![Top(t).sig] = [by |-> "dfl", mask |-> {}]]
      BY <2>2 DEF ResetAction
    <3> QED
      BY <1>2, <3>1
  <2> QED
    BY <2>1, <2>2
<1>4. Widened /\ \A s : EntryKept(s)
  BY <1>1 DEF Widened, EntryKept
<1>5. CallsSame
  BY <1>2, CallsSameMove
<1>6. /\ InSystem' <=> InSystem
      /\ \A s : InCallOn(s)' <=> InCallOn(s)
  BY <1>5, CallsOfFrames
<1>7. BlockPart'
  <2> SUFFICES ASSUME NEW s \in Managed \ tangled', kern'[s].by = "monitor"
               PROVE  shoot' \in kern'[s].mask
    BY DEF BlockPart, Managed
  <2>1. kern'[s] = kern[s]
    BY <1>3, Constants
  <2> QED
    BY <1>1, <2>1 DEF TableInv, BlockPart
<1>8. SamePart'
  <2> SUFFICES ASSUME status' # "dead", NEW s \in Managed \ tangled'
               PROVE  \/ (InSystem' /\ s \in SystemIgnores) \/ InCallOn(s)'
                      \/ Good(s, kern[s])'
    BY DEF SamePart, Managed
  <2>1. CASE kern'[s].by = "dfl" \/ (s = shoot /\ kern'[s].by = "shootdown")
    BY <1>1, <2>1 DEF Good
  <2>2. CASE kern'[s] = kern[s]
    <3>1. (InSystem /\ s \in SystemIgnores) \/ InCallOn(s) \/ Good(s, kern[s])
      BY <1>1 DEF TableInv, SamePart
    <3> QED
      BY <1>4, <1>6, <2>2, <3>1, KernStays
  <2> QED
    BY <1>3, <2>1, <2>2, Constants
<1>9. OverlapPart'
  BY <1>1, <1>6 DEF TableInv, OverlapPart
<1>10. \A f \in Frames' : CallOK(f)'
  BY <1>4, <1>5, CallsStay
<1> QED
  BY <1>7, <1>8, <1>9, <1>10 DEF TableInv

LEMMA QuietTable ==
  ASSUME SignalInv, SignalInv', TableInv, NEW t \in Thread,
         \/ \E how \in How, set \in MaskOf : Sigprocmask(t, how, set)
         \/ RealSigprocmask(t) \/ \E u \in Thread : CreateThread(t, u)
         \/ SignalStep(t) \/ QuietStep(t) \/ ExitAgain(t) \/ ExecFails(t)
         \/ UNCHANGED vars
  PROVE  TableInv'
<1>0. StacksOK /\ StacksOK'
  BY DEF SignalInv
<1>1. ASSUME CallsSame, TablesKept, UNCHANGED histVars, status' = status \/ status # "dead"
      PROVE  TableInv'
  BY <1>1, TableQuiet DEF histVars
<1>2. CASE Fault(t) \/ ExitAgain(t) \/ ExecFails(t) \/ UNCHANGED vars
  <2>1. th' = th /\ TablesKept /\ UNCHANGED histVars /\ (status' = status \/ status # "dead")
    BY <1>2 DEF Fault, ExitAgain, ExecFails, At, vars, TablesKept
  <2> QED
    BY <1>1, <2>1, CallsSameStill
<1>3. ASSUME NEW u \in Thread, CreateThread(t, u)
      PROVE  TableInv'
  <2>1. TablesKept /\ UNCHANGED histVars /\ status' = status
    BY <1>3 DEF CreateThread, TablesKept
  <2>2. CallsSame
    BY <1>3, CallsSameCreate
  <2> QED
    BY <1>1, <2>1, <2>2
<1>4. ASSUME NEW s \in Sig, Deliver(t, s) \/ DeliverShootdown(t, s) \/ DeliverRaw(t, s)
      PROVE  TableInv'
  <2>1. TablesKept /\ UNCHANGED histVars /\ status # "dead"
    BY <1>4 DEF Deliver, DeliverShootdown, DeliverRaw, Arrives, TablesKept
  <2>2. CallsSame
    <3>1. CASE Deliver(t, s)
      BY <1>0, <3>1, CallsSamePush DEF Deliver
    <3>2. CASE DeliverShootdown(t, s)
      <4>1. PICK l \in {"fini", "late"} : Push(t, s, kern[s].mask, l, NoHandler)
        BY <3>2 DEF DeliverShootdown
      <4> QED
        BY <1>0, <4>1, CallsSamePush
    <3>3. CASE DeliverRaw(t, s) /\ kern[s].by \in Handler
      BY <1>0, <3>3, CallsSamePush DEF DeliverRaw
    <3>4. CASE DeliverRaw(t, s) /\ kern[s].by \notin Handler
      BY <3>4, CallsSameStill DEF DeliverRaw
    <3> QED
      BY <1>4, <3>1, <3>2, <3>3, <3>4
  <2> QED
    BY <1>1, <2>1, <2>2
<1>5. CASE QuietStep(t)
  <2>1. TablesKept /\ UNCHANGED histVars /\ status # "dead"
    BY <1>5 DEF QuietStep, ClientAccepts, TestIgnore, ApplyNothing, ApplyDefault, NotDefault,
       ApplyHandler, HandlerReturn, WinOver, ClearMask, ReturnBare, At, TablesKept
  <2> QED
    BY <1>0, <1>1, <1>5, <2>1, CallsSameMove
<1>6. CASE \/ \E how \in How, set \in MaskOf : Sigprocmask(t, how, set)
           \/ RealSigprocmask(t)
  <2>1. TablesKept /\ UNCHANGED histVars /\ status' = status
    BY <1>6 DEF Sigprocmask, RealSigprocmask, TablesKept
  <2> QED
    BY <1>0, <1>1, <1>6, <2>1, CallsSameMask
<1> QED
  BY <1>2, <1>3, <1>4, <1>5, <1>6 DEF SignalStep, QuietStep

-----------------------------------------------------------------------------
(* New images. *)

LEMMA FreshTable ==
  ASSUME NEW inh \in [Sig -> {"dfl", "ign"}], NEW env \in FromEnv, NEW s \in Managed
  PROVE  LET f == Fresh(inh, env) IN
         /\ f.kern[s].by = "monitor" /\ f.kern[s].mask = {f.shoot}
         /\ f.kernAct[s] = {f.shoot} /\ f.appl[s].mask = {}
<1> DEFINE sd == ChooseShootdown(env)
<1>1. s \in Sig /\ s \notin Avoid
  BY Constants DEF Managed
<1> HIDE DEF sd
<1>2. Fresh(inh, env) =
        [shoot    |-> sd,
         keepOpen |-> OpenList \cup {sd},
         appl     |-> [r \in Sig |-> [hand |-> inh[r], mask |-> {}]],
         kernAct  |-> [r \in Sig |-> IF r \in Avoid THEN {} ELSE {sd}],
         kern     |-> [r \in Sig |->
                         IF r \in Managed THEN [by |-> "monitor", mask |-> {sd}]
                                          ELSE [by |-> inh[r], mask |-> {}]]]
  BY DEF Fresh, sd
<1>3. /\ Fresh(inh, env).shoot = sd
      /\ Fresh(inh, env).appl[s] = [hand |-> inh[s], mask |-> {}]
  BY <1>1, <1>2
<1>4. Fresh(inh, env).kernAct[s] = {sd}
  BY <1>1, <1>2
<1>5. Fresh(inh, env).kern[s] = [by |-> "monitor", mask |-> {sd}]
  BY <1>1, <1>2
<1> QED
  BY <1>3, <1>4, <1>5

\* Tables as they are in a new image.
NewTables ==
    /\ \A s \in Managed : /\ kern[s].by = "monitor" /\ kern[s].mask = {shoot}
                          /\ kernAct[s] = {shoot} /\ appl[s].mask = {}
    /\ Frames \subseteq {Base}

LEMMA NewTablesGood == NewTables => TableInv
<1> SUFFICES ASSUME NewTables PROVE TableInv
  OBVIOUS
<1>1. Base.at = "run"
  BY DEF Base
<1>2. ~InSystem /\ \A s : ~InCallOn(s)
  BY <1>1 DEF NewTables, InSystem, InCallOn
<1>3. ASSUME NEW s \in Managed
      PROVE  Good(s, kern[s])
  <2>1. kernAct[s] = AdjustSamask(appl[s].mask \ {}) /\ {} \in SUBSET keepOpen
    BY DEF NewTables, AdjustSamask
  <2>2. Adjusted(s)
    BY <2>1 DEF NewTables, Adjusted
  <2> QED
    BY <2>2 DEF NewTables, Good
<1>4. \A f \in Frames : CallOK(f)
  BY <1>1 DEF NewTables, CallOK
<1>5. BlockPart
  BY DEF NewTables, BlockPart
<1>6. SamePart
  BY <1>3 DEF SamePart
<1>7. OverlapPart
  BY <1>2 DEF OverlapPart
<1> QED
  BY <1>4, <1>5, <1>6, <1>7 DEF TableInv

\* In a new image each thread has at most its own code.
NewStacks == \A t \in Thread : th[t] = <<>> \/ th[t] = <<Base>>

OnlyBases == Frames \subseteq {Base}

LEMMA FramesOfImage == NewStacks => OnlyBases
<1> SUFFICES ASSUME NewStacks PROVE OnlyBases
  OBVIOUS
<1>1. ToSet(<<Base>>) = {Base} /\ ToSet(<<>>) = {}
  <2>1. DOMAIN <<Base>> = {1} /\ <<Base>>[1] = Base /\ DOMAIN <<>> = {}
    OBVIOUS
  <2> QED
    BY <2>1 DEF ToSet
<1>2. \A t \in Thread : ToSet(th[t]) \subseteq {Base}
  BY <1>1 DEF NewStacks
<1> QED
  BY <1>2 DEF Frames, OnlyBases

LEMMA DieTable ==
  ASSUME SignalInv, TableInv, NEW t \in Thread, Die(t)
  PROVE  TableInv'
<1>1. /\ UNCHANGED tableVars /\ tangled' = tangled /\ status' = "dead"
      /\ th' = [u \in Thread |-> <<>>]
  BY DEF Die, histVars
<1>2. NewStacks'
  BY <1>1 DEF NewStacks
<1>3. OnlyBases'
  BY <1>2, FramesOfImage, PTL
<1>4. \A f \in Frames' : f.at = "run"
  BY <1>3 DEF OnlyBases, Base
<1>5. BlockPart'
  BY <1>1 DEF TableInv, BlockPart, tableVars
<1>6. SamePart'
  BY <1>1 DEF SamePart
<1>7. OverlapPart'
  BY <1>4 DEF OverlapPart, InSystem, InCallOn
<1>8. \A f \in Frames' : CallOK(f)'
  BY <1>4 DEF CallOK
<1> QED
  BY <1>5, <1>6, <1>7, <1>8 DEF TableInv

LEMMA ExecTables ==
  ASSUME NEW t \in Thread, Exec(t)
  PROVE  NewTables'
<1>1. PICK env \in FromEnv :
        LET f == Fresh(KeptByExec, env) IN
        /\ shoot' = f.shoot /\ keepOpen' = f.keepOpen
        /\ appl' = f.appl /\ kernAct' = f.kernAct /\ kern' = f.kern
  BY DEF Exec
<1>2. KeptByExec \in [Sig -> {"dfl", "ign"}]
  BY DEF KeptByExec
<1>3. NewStacks'
  BY DEF Exec, NewStacks
<1>4. OnlyBases'
  BY <1>3, FramesOfImage, PTL
<1>5. ASSUME NEW s \in Managed
      PROVE  /\ kern'[s].by = "monitor" /\ kern'[s].mask = {shoot'}
             /\ kernAct'[s] = {shoot'} /\ appl'[s].mask = {}
  BY <1>1, <1>2, FreshTable
<1> QED
  BY <1>4, <1>5 DEF NewTables, OnlyBases

LEMMA ExecTable ==
  ASSUME NEW t \in Thread, Exec(t)
  PROVE  TableInv'
<1>1. NewTables'
  BY ExecTables
<1> QED
  BY <1>1, NewTablesGood, PTL

LEMMA InitTables ==
  ASSUME Init
  PROVE  NewTables
<1>1. PICK ign \in InheritedIgn, env \in FromEnv :
        LET f == Fresh([s \in Sig |-> IF s \in ign THEN "ign" ELSE "dfl"], env) IN
        /\ shoot = f.shoot /\ keepOpen = f.keepOpen
        /\ appl = f.appl /\ kernAct = f.kernAct /\ kern = f.kern
  BY DEF Init
<1> DEFINE inh == [s \in Sig |-> IF s \in ign THEN "ign" ELSE "dfl"]
<1>2. inh \in [Sig -> {"dfl", "ign"}]
  OBVIOUS
<1>3. LET f == Fresh(inh, env) IN
        /\ shoot = f.shoot /\ keepOpen = f.keepOpen
        /\ appl = f.appl /\ kernAct = f.kernAct /\ kern = f.kern
  BY <1>1
<1> HIDE DEF inh
<1>4. NewStacks
  BY DEF Init, NewStacks
<1>5. ASSUME NEW s \in Managed
      PROVE  /\ kern[s].by = "monitor" /\ kern[s].mask = {shoot}
             /\ kernAct[s] = {shoot} /\ appl[s].mask = {}
  BY <1>2, <1>3, FreshTable
<1> QED
  BY <1>4, <1>5, FramesOfImage DEF NewTables, OnlyBases

LEMMA InitTable ==
  ASSUME Init
  PROVE  TableInv
BY InitTables, NewTablesGood

LEMMA InitNest ==
  ASSUME Init
  PROVE  NestInv
<1>1. \A t \in Thread : th[t] = <<>> \/ th[t] = <<Base>>
  BY DEF Init
<1> QED
  BY <1>1, NestShort DEF NestInv

LEMMA TableKeeps ==
  ASSUME SignalInv, SignalInv', TableInv, [Next]_vars
  PROVE  TableInv'
<1>1. ASSUME NEW t \in Thread, CallStep(t)
      PROVE  TableInv'
  <2>1. ASSUME NEW s \in Sig, NEW act \in Act[s], StoreAction(t, s, act) \/ AvoidAction(t, s, act)
        PROVE  TableInv'
    BY <2>1, StoreActionTable, AvoidActionTable
  <2>2. ASSUME NEW s \in Sig, ClientAction(t, s)
        PROVE  TableInv'
    BY <2>2, ClientActionTable
  <2>3. CASE \/ \E how \in How, set \in MaskOf : Sigprocmask(t, how, set)
             \/ \E u \in Thread : CreateThread(t, u)
    BY <2>3, QuietTable
  <2>4. CASE System(t)
    BY <2>4, SystemTable
  <2> QED
    BY <1>1, <2>1, <2>2, <2>3, <2>4 DEF CallStep
<1>2. ASSUME NEW t \in Thread, SignalStep(t) \/ RealSigprocmask(t)
      PROVE  TableInv'
  BY <1>2, QuietTable
<1>3. ASSUME NEW t \in Thread, AdjustAction(t) \/ InstallAction(t) \/ SystemReturn(t)
      PROVE  TableInv'
  BY <1>3, AdjustActionTable, InstallActionTable, SystemReturnTable
<1>4. ASSUME NEW t \in Thread, EndStep(t)
      PROVE  TableInv'
  <2>1. CASE Win(t) \/ ResetAction(t)
    BY <2>1, KernTable
  <2>2. CASE WinOver(t) \/ ExitAgain(t) \/ ClearMask(t) \/ ReturnBare(t) \/ ExecFails(t)
    BY <2>2, QuietTable DEF QuietStep
  <2>3. CASE Die(t) \/ Exec(t)
    BY <2>3, DieTable, ExecTable
  <2> QED
    BY <1>4, <2>1, <2>2, <2>3 DEF EndStep
<1>5. CASE UNCHANGED vars
  BY <1>5, QuietTable, Constants
<1>6. CASE Next
  <2>1. \/ \E t \in Thread :
             \/ CallStep(t) \/ EndStep(t)
             \/ SignalStep(t) \/ RealSigprocmask(t)
             \/ \/ AdjustAction(t) \/ InstallAction(t) \/ SystemReturn(t)
        \/ UNCHANGED vars
    BY <1>6 DEF Next
  <2> QED
    BY <2>1, <1>1, <1>2, <1>3, <1>4, <1>5
<1> QED
  BY <1>5, <1>6

-----------------------------------------------------------------------------
(* The end of the process: the default comes into the kernel only with it. *)

\* The default action of a signal ends the process.
Raised == status \in {"signalled", "dead"}

\* A frame that has nothing to do with that.
Calm(f) ==
    /\ f.at \notin {"ending", "reset", "bare"}
    /\ f.at = "winning" => f.sig = NoSig \/ f.hand # NoHandler
    /\ f.at = "system" => \A s \in SystemIgnores : f.old[s].by # "dfl"

EndPart ==
    ~Raised => /\ \A f \in Frames : Calm(f)
               /\ \A s \in Managed : kern[s].by # "dfl"

LEMMA CalmPlain ==
  ASSUME NEW f, f.at \notin {"ending", "reset", "bare", "winning", "system"}
  PROVE  Calm(f)
BY DEF Calm

\* The top of a stack is one frame.
LEMMA SameTop ==
  ASSUME StacksOK, NEW t \in Thread, th[t] # <<>>, NEW f, NEW g, SetTop(t, f), SetTop(t, g)
  PROVE  f = g
<1>1. /\ Len(th[t]) \in Nat \ {0} /\ th[t] \in Seq(Frame)
      /\ th \in [Thread -> Seq(Frame)]
  BY RunFacts DEF StacksOK
<1>2. Len(th[t]) \in DOMAIN th[t]
  BY <1>1, LenProperties
<1>3. th'[t] = NewTop(t, f) /\ th'[t] = NewTop(t, g)
  BY <1>1 DEF SetTop, NewTop
<1>4. NewTop(t, f)[Len(th[t])] = f /\ NewTop(t, g)[Len(th[t])] = g
  BY <1>2 DEF NewTop
<1> QED
  BY <1>3, <1>4

LEMMA GotoFrame ==
  ASSUME StacksOK, NEW t \in Thread, th[t] # <<>>, NEW f, SetTop(t, f), NEW l, Goto(t, l)
  PROVE  f.at = l /\ f.hand = Top(t).hand
<1> DEFINE g == [Top(t) EXCEPT !.at = l]
<1>1. Top(t) \in Frame
  BY RunFacts
<1>2. g.at = l /\ g.hand = Top(t).hand
  BY <1>1 DEF Frame
<1>3. SetTop(t, g)
  BY DEF Goto
<1> HIDE DEF g
<1>4. f = g
  BY <1>3, SameTop
<1> QED
  BY <1>2, <1>4

\* What the steps have in common.
LEMMA EndStays ==
  ASSUME EndPart, Raised => Raised',
         Raised \/ \A f \in Frames' : f \in Frames \/ Calm(f),
         Raised \/ \A s \in Managed : kern'[s] = kern[s] \/ kern'[s].by # "dfl"
  PROVE  EndPart'
<1> SUFFICES ASSUME ~Raised'
             PROVE  /\ \A f \in Frames' : Calm(f)
                    /\ \A s \in Managed : kern'[s].by # "dfl"
  BY DEF EndPart
<1>1. ~Raised
  OBVIOUS
<1> QED
  BY <1>1 DEF EndPart

LEMMA EndCalls ==
  ASSUME SignalInv, SignalInv', EndPart, NEW t \in Thread, CallStep(t)
  PROVE  EndPart'
<1>0. StacksOK /\ StacksOK' /\ kern \in [Sig -> KernRecord]
  BY DEF SignalInv, TableTypes
<1>1. ASSUME NEW f, th[t] # <<>>, SetTop(t, f), Calm(f), status' = status,
             \A s \in Managed : kern'[s] = kern[s] \/ kern'[s].by # "dfl"
      PROVE  EndPart'
  <2>1. f \in Frame
    BY <1>0, <1>1, TopTyped
  <2>2. Frames' \subseteq Frames \cup {f}
    BY <1>0, <1>1, <2>1, FramesReplaced
  <2> QED
    BY <1>1, <2>2, EndStays DEF Raised
<1>2. ASSUME th' = th, status' = status,
             \A s \in Managed : kern'[s] = kern[s] \/ kern'[s].by # "dfl"
      PROVE  EndPart'
  <2>1. Frames' = Frames
    BY <1>2 DEF Frames
  <2> QED
    BY <1>2, <2>1, EndStays DEF Raised
<1>3. ASSUME NEW s \in Sig, NEW act \in Act[s], StoreAction(t, s, act)
      PROVE  EndPart'
  <2> DEFINE f == [Top(t) EXCEPT !.at = "adjust", !.on = s]
  <2>1. th[t] # <<>> /\ SetTop(t, f) /\ status' = status /\ kern' = kern
    BY <1>3 DEF StoreAction, Call, At
  <2>2. Top(t) \in Frame
    BY <1>0, <2>1, RunFacts
  <2>3. f.at = "adjust"
    BY <2>2 DEF Frame
  <2> HIDE DEF f
  <2> QED
    BY <1>1, <2>1, <2>3, CalmPlain
<1>4. ASSUME NEW s \in Sig, NEW act \in Act[s], AvoidAction(t, s, act)
      PROVE  EndPart'
  <2>1. th' = th /\ status' = status /\ s \notin Managed
    BY <1>4 DEF AvoidAction, Managed
  <2>2. \A r \in Managed : kern'[r] = kern[r]
    BY <1>0, <1>4, <2>1, Constants DEF AvoidAction
  <2> QED
    BY <1>2, <2>1, <2>2
<1>5. ASSUME NEW s \in Sig, ClientAction(t, s)
      PROVE  EndPart'
  <2>1. th' = th /\ status' = status
    BY <1>5 DEF ClientAction
  <2>2. \/ kern' = kern
        \/ \E m \in MaskOf :
             kern' = [kern EXCEPT ![s] = [by |-> "monitor", mask |-> AdjustSamask(m)]]
    BY <1>5 DEF ClientAction
  <2>3. \A r \in Managed : kern'[r] = kern[r] \/ kern'[r].by # "dfl"
    BY <1>0, <2>2, Constants
  <2> QED
    BY <1>2, <2>1, <2>3
<1>6. ASSUME NEW how \in How, NEW set \in MaskOf, Sigprocmask(t, how, set)
      PROVE  EndPart'
  <2> DEFINE f == [Top(t) EXCEPT !.at = how, !.set = RemoveClientSignals(t, set, how)]
  <2>1. th[t] # <<>> /\ SetTop(t, f) /\ status' = status /\ kern' = kern
    BY <1>6 DEF Sigprocmask, Call, At, tableVars
  <2>2. Top(t) \in Frame
    BY <1>0, <2>1, RunFacts
  <2>3. f.at = how
    BY <2>2 DEF Frame
  <2> HIDE DEF f
  <2>4. Calm(f)
    BY <2>3, CalmPlain DEF How
  <2> QED
    BY <1>1, <2>1, <2>4
<1>7. ASSUME NEW u \in Thread, CreateThread(t, u)
      PROVE  EndPart'
  <2>1. status' = status /\ kern' = kern
    BY <1>7 DEF CreateThread, tableVars
  <2>2. \A f \in Frames' : f \in Frames \/ Calm(f)
    <3>1. th \in [Thread -> Seq(Frame)] /\ th' \in [Thread -> Seq(Frame)]
      BY <1>0 DEF StacksOK
    <3>2. th'[u] = <<Base>> /\ \A v \in Thread \ {u} : th'[v] = th[v]
      BY <1>7, <3>1 DEF CreateThread
    <3>3. Len(<<Base>>) = 1 /\ <<Base>>[1] = Base /\ Base.at = "run"
      BY DEF Base
    <3> SUFFICES ASSUME NEW f \in Frames' PROVE f \in Frames \/ Calm(f)
      OBVIOUS
    <3>4. PICK v \in Thread : \E i \in 1..Len(th'[v]) : f = th'[v][i]
      BY <3>1, FrameInNext
    <3>5. CASE v = u
      <4>1. f = Base
        BY <3>2, <3>3, <3>4, <3>5
      <4> QED
        BY <3>3, <4>1, CalmPlain
    <3>6. CASE v # u
      BY <3>1, <3>2, <3>4, <3>6, FrameIn
    <3> QED
      BY <3>5, <3>6
  <2> QED
    BY <2>1, <2>2, EndStays DEF Raised
<1>8. CASE System(t)
  <2> DEFINE old == [s \in SystemIgnores |-> kern[s]]
             f == [Top(t) EXCEPT !.at = "system", !.saved = mask[t], !.old = old]
  <2>1. /\ th[t] # <<>> /\ SetTop(t, f) /\ status' = status
        /\ kern' = [s \in Sig |-> IF s \in SystemIgnores THEN [by |-> "ign", mask |-> {}]
                                                         ELSE kern[s]]
    BY <1>8 DEF System, Call, At
  <2>2. Top(t) \in Frame
    BY <1>0, <2>1, RunFacts
  <2>3. f.at = "system" /\ f.old = old
    BY <2>2 DEF Frame
  <2>4. \A s \in SystemIgnores : old[s] = kern[s]
    OBVIOUS
  <2> HIDE DEF f, old
  <2>5. \A s \in Managed : kern'[s] = kern[s] \/ kern'[s].by # "dfl"
    BY <2>1, Constants
  <2>6. CASE Raised
    BY <2>1, <2>6 DEF Raised, EndPart
  <2>7. CASE ~Raised
    <3>1. Calm(f)
      BY <2>3, <2>4, <2>7, Constants DEF Calm, EndPart
    <3> QED
      BY <1>1, <2>1, <2>5, <3>1
  <2> QED
    BY <2>6, <2>7
<1> QED
  BY <1>3, <1>4, <1>5, <1>6, <1>7, <1>8 DEF CallStep

\* The later steps of the calls.
LEMMA EndReturns ==
  ASSUME SignalInv, SignalInv', EndPart, NEW t \in Thread,
         \/ AdjustAction(t) \/ InstallAction(t) \/ RealSigprocmask(t) \/ SystemReturn(t)
  PROVE  EndPart'
<1>0. StacksOK /\ StacksOK' /\ kern \in [Sig -> KernRecord]
  BY DEF SignalInv, TableTypes
<1>1. ASSUME NEW f, th[t] # <<>>, SetTop(t, f), f.at \in {"install", "run"},
             status' = status,
             Raised \/ \A s \in Managed : kern'[s] = kern[s] \/ kern'[s].by # "dfl"
      PROVE  EndPart'
  <2>1. f \in Frame
    BY <1>0, <1>1, TopTyped
  <2>2. Frames' \subseteq Frames \cup {f} /\ Calm(f)
    BY <1>0, <1>1, <2>1, FramesReplaced, CalmPlain
  <2> QED
    BY <1>1, <2>2, EndStays DEF Raised
<1>2. th[t] # <<>> /\ Top(t) \in Frame /\ Top(t) \in Frames /\ status' = status
  <2>1. th[t] # <<>> /\ status' = status
    BY DEF AdjustAction, InstallAction, RealSigprocmask, SystemReturn, At
  <2> QED
    BY <1>0, <2>1, RunFacts, TopIsFrame
<1>3. CASE AdjustAction(t)
  <2> DEFINE f == [Top(t) EXCEPT !.at = "install"]
  <2>1. SetTop(t, f) /\ kern' = kern
    BY <1>3 DEF AdjustAction, Goto
  <2>2. f.at = "install"
    BY <1>2 DEF Frame
  <2> HIDE DEF f
  <2> QED
    BY <1>1, <1>2, <2>1, <2>2
<1>4. CASE InstallAction(t)
  <2> DEFINE f == [Top(t) EXCEPT !.at = "run", !.on = NoSig]
             k == [by |-> "monitor", mask |-> kernAct[Top(t).on]]
  <2>1. SetTop(t, f) /\ kern' = [kern EXCEPT ![Top(t).on] = k] /\ k.by = "monitor"
    BY <1>4 DEF InstallAction
  <2>2. f.at = "run"
    BY <1>2 DEF Frame
  <2> HIDE DEF f, k
  <2>3. \A s \in Managed : kern'[s] = kern[s] \/ kern'[s].by # "dfl"
    BY <1>0, <2>1, Constants
  <2> QED
    BY <1>1, <1>2, <2>1, <2>2, <2>3
<1>5. CASE RealSigprocmask(t)
  <2> DEFINE f == [Top(t) EXCEPT !.at = "run", !.set = {}]
  <2>1. SetTop(t, f) /\ kern' = kern
    BY <1>5 DEF RealSigprocmask, tableVars
  <2>2. f.at = "run"
    BY <1>2 DEF Frame
  <2> HIDE DEF f
  <2> QED
    BY <1>1, <1>2, <2>1, <2>2
<1>6. CASE SystemReturn(t)
  <2> DEFINE f == [Top(t) EXCEPT !.at = "run", !.saved = {}, !.old = NoOld]
  <2>1. /\ SetTop(t, f) /\ Top(t).at = "system"
        /\ kern' = [s \in Sig |-> IF s \in SystemIgnores THEN Top(t).old[s] ELSE kern[s]]
    BY <1>6 DEF SystemReturn, At
  <2>2. f.at = "run"
    BY <1>2 DEF Frame
  <2> HIDE DEF f
  <2>3. Raised \/ \A s \in Managed : kern'[s] = kern[s] \/ kern'[s].by # "dfl"
    <3> SUFFICES ASSUME ~Raised, NEW s \in Managed
                 PROVE  kern'[s] = kern[s] \/ kern'[s].by # "dfl"
      OBVIOUS
    <3>1. Calm(Top(t))
      BY <1>2 DEF EndPart
    <3> QED
      BY <2>1, <3>1, Constants DEF Calm
  <2> QED
    BY <1>1, <1>2, <2>1, <2>2, <2>3
<1> QED
  BY <1>3, <1>4, <1>5, <1>6

\* Signals that arrive, what a handler does, and the end.
LEMMA EndMoves ==
  ASSUME SignalInv, SignalInv', EndPart, NEW t \in Thread,
         QuietStep(t) \/ Win(t) \/ ResetAction(t)
  PROVE  EndPart'
<1>0. StacksOK /\ kern \in [Sig -> KernRecord]
  BY DEF SignalInv, TableTypes
<1>1. th[t] # <<>> /\ status # "dead"
  BY DEF QuietStep, ClientAccepts, TestIgnore, ApplyNothing, ApplyDefault, NotDefault,
     ApplyHandler, HandlerReturn, WinOver, ClearMask, ReturnBare, Win, ResetAction, At
<1>2. Top(t) \in Frames /\ Top(t) \in Frame /\ FrameOK(Top(t), Len(th[t]), shoot)
  BY <1>0, <1>1, TopIsFrame, RunFacts
<1>3. Raised => Raised'
  BY DEF QuietStep, ClientAccepts, TestIgnore, ApplyNothing, ApplyDefault, NotDefault,
     ApplyHandler, HandlerReturn, WinOver, ClearMask, ReturnBare, Win, ResetAction, Raised
<1>4. CASE Raised'
  BY <1>4 DEF EndPart, Raised
<1>5. ASSUME ~Raised'
      PROVE  EndPart'
  <2>1. ~Raised /\ Calm(Top(t))
    BY <1>2, <1>3, <1>5 DEF EndPart
  <2>2. ~ApplyDefault(t) /\ ~ClearMask(t) /\ ~ResetAction(t)
    BY <1>5, <2>1 DEF ApplyDefault, ClearMask, ResetAction, At, Calm, Raised
  <2>3. Raised \/ \A s \in Managed : kern'[s] = kern[s] \/ kern'[s].by # "dfl"
    <3>1. CASE Win(t)
      <4>1. \/ kern' = kern
            \/ kern' = [kern EXCEPT ![shoot] = [by |-> "shootdown", mask |-> {}]]
        BY <3>1 DEF Win
      <4> QED
        BY <1>0, <4>1, Constants
    <3>2. CASE QuietStep(t)
      <4>1. kern' = kern
        BY <3>2 DEF QuietStep, ClientAccepts, TestIgnore, ApplyNothing, ApplyDefault,
           NotDefault, ApplyHandler, HandlerReturn, WinOver, ClearMask, ReturnBare, tableVars
      <4> QED
        BY <4>1
    <3> QED
      BY <2>2, <3>1, <3>2
  <2>4. \A f \in Frames' : f \in Frames \/ Calm(f)
    <3>1. CASE Len(th[t]) > 1 /\ Pop(t)
      BY <1>0, <3>1, FramesPopped
    <3>2. CASE ~(Len(th[t]) > 1 /\ Pop(t))
      <4>1. PICK f \in Frame : Moved(t, f)
        BY <1>0, <3>2, MoveFacts
      <4>2. SetTop(t, f) /\ HandOK(f) /\ f.sig = Top(t).sig
        BY <4>1 DEF Moved
      <4>3. Frames' \subseteq Frames \cup {f}
        BY <1>0, <1>1, <4>2, FramesReplaced
      <4>4. Calm(f)
        <5>1. ASSUME NEW l, Goto(t, l)
              PROVE  f.at = l /\ f.hand = Top(t).hand
          BY <1>0, <1>1, <4>2, <5>1, GotoFrame
        <5>2. CASE TestIgnore(t) \/ NotDefault(t)
          <6>1. Goto(t, "default") \/ Goto(t, "apply")
            <7>1. CASE NotDefault(t)
              BY <7>1 DEF NotDefault
            <7>2. CASE TestIgnore(t)
              <8>1. Top(t).at \in HandlerLoc
                BY <7>2 DEF TestIgnore, At, HandlerLoc
              <8>2. Len(th[t]) > 1
                BY <1>0, <1>1, <8>1, PopFrom
              <8> QED
                BY <3>2, <7>2, <8>2 DEF TestIgnore
            <7> QED
              BY <5>2, <7>1, <7>2
          <6> QED
            BY <5>1, <6>1, CalmPlain
        <5>3. CASE ApplyHandler(t)
          <6>1. CASE Goto(t, "fault")
            BY <5>1, <6>1, CalmPlain
          <6>2. ASSUME NEW d, SetTop(t, [Top(t) EXCEPT !.at = "run", !.hand = d])
                PROVE  Calm(f)
            <7> DEFINE g == [Top(t) EXCEPT !.at = "run", !.hand = d]
            <7>1. g.at = "run"
              BY <1>2 DEF Frame
            <7>2. SetTop(t, g)
              BY <6>2
            <7> HIDE DEF g
            <7>3. f = g
              BY <1>0, <1>1, <4>2, <7>2, SameTop
            <7> QED
              BY <7>1, <7>3, CalmPlain
          <6> QED
            BY <5>3, <6>1, <6>2 DEF ApplyHandler
        <5>4. CASE WinOver(t)
          <6>1. Top(t).at = "winning"
            BY <5>4 DEF WinOver, At
          <6>2. Goto(t, "run")
            BY <2>1, <5>4, <6>1 DEF WinOver, Calm
          <6> QED
            BY <5>1, <6>2, CalmPlain
        <5>5. CASE Win(t)
          <6>1. Goto(t, "winning") /\ Top(t).at = "run"
            BY <2>1, <5>5 DEF Win, At, Calm
          <6>2. Top(t).sig = NoSig \/ Top(t).hand # NoHandler
            BY <1>2, <6>1 DEF FrameOK, HandOK
          <6>3. f.at = "winning" /\ f.hand = Top(t).hand
            BY <5>1, <6>1
          <6> QED
            BY <4>2, <6>2, <6>3 DEF Calm
        <5>6. CASE ClientAccepts(t) \/ ApplyNothing(t) \/ ReturnBare(t) \/ HandlerReturn(t)
          <6>1. CASE HandlerReturn(t)
            BY <3>2, <6>1 DEF HandlerReturn
          <6>2. CASE ClientAccepts(t) \/ ApplyNothing(t) \/ ReturnBare(t)
            <7>1. Pop(t) /\ Top(t).at \in HandlerLoc
              BY <6>2 DEF ClientAccepts, ApplyNothing, ReturnBare, At, HandlerLoc
            <7> QED
              BY <1>0, <1>1, <3>2, <7>1, PopFrom
          <6> QED
            BY <5>6, <6>1, <6>2
        <5> QED
          BY <2>2, <5>2, <5>3, <5>4, <5>5, <5>6 DEF QuietStep
      <4> QED
        BY <4>3, <4>4
    <3> QED
      BY <3>1, <3>2
  <2> QED
    BY <1>3, <2>3, <2>4, EndStays
<1> QED
  BY <1>4, <1>5

LEMMA EndSignals ==
  ASSUME SignalInv, SignalInv', EndPart, NEW t \in Thread,
         \/ \E s \in Sig : Deliver(t, s) \/ DeliverShootdown(t, s) \/ DeliverRaw(t, s)
         \/ Fault(t) \/ ExitAgain(t) \/ ExecFails(t) \/ Die(t) \/ UNCHANGED vars
  PROVE  EndPart'
<1>0. StacksOK
  BY DEF SignalInv
<1>1. kern' = kern
  BY DEF Deliver, DeliverShootdown, DeliverRaw, Fault, ExitAgain, ExecFails, Die, vars,
     tableVars
<1>2. CASE Fault(t) \/ ExitAgain(t) \/ ExecFails(t) \/ UNCHANGED vars
  <2>1. Frames' = Frames /\ (Raised => Raised')
    BY <1>2 DEF Fault, ExitAgain, ExecFails, vars, Frames, Raised
  <2> QED
    BY <1>1, <2>1, EndStays
<1>3. CASE Die(t)
  BY <1>3 DEF Die, EndPart, Raised
<1>4. ASSUME NEW s \in Sig, Deliver(t, s) \/ DeliverShootdown(t, s) \/ DeliverRaw(t, s)
      PROVE  EndPart'
  <2>1. CASE \E l \in {"handler", "fini", "late", "run"}, h \in Handler \cup {NoHandler} :
               Push(t, s, kern[s].mask, l, h) /\ status' = status
    <3>1. PICK l \in {"handler", "fini", "late", "run"}, h \in Handler \cup {NoHandler} :
               Push(t, s, kern[s].mask, l, h) /\ status' = status
      BY <2>1
    <3>2. PICK f \in Frame : f.at = l /\ Frames' \subseteq Frames \cup {f}
      BY <1>0, <3>1, PushedFrame
    <3>3. Calm(f)
      BY <3>1, <3>2, CalmPlain
    <3> QED
      BY <1>1, <3>1, <3>2, <3>3, EndStays DEF Raised
  <2>2. CASE DeliverRaw(t, s) /\ kern[s].by \notin Handler
    BY <2>2 DEF DeliverRaw, EndPart, Raised
  <2>3. CASE Deliver(t, s)
    BY <2>1, <2>3 DEF Deliver
  <2>4. CASE DeliverShootdown(t, s)
    BY <2>1, <2>4 DEF DeliverShootdown
  <2>5. CASE DeliverRaw(t, s) /\ kern[s].by \in Handler
    BY <2>1, <2>5 DEF DeliverRaw
  <2> QED
    BY <1>4, <2>2, <2>3, <2>4, <2>5
<1> QED
  BY <1>2, <1>3, <1>4

LEMMA EndOfImage == NewTables => EndPart
<1>1. Base.at = "run"
  BY DEF Base
<1>2. ASSUME NewTables, NEW f \in Frames
      PROVE  Calm(f)
  <2>1. f = Base
    BY <1>2 DEF NewTables
  <2> QED
    BY <1>1, <2>1, CalmPlain
<1> QED
  BY <1>2 DEF NewTables, EndPart

LEMMA InitEnd ==
  ASSUME Init
  PROVE  EndPart
BY InitTables, EndOfImage

LEMMA EndKeeps ==
  ASSUME SignalInv, SignalInv', EndPart, [Next]_vars
  PROVE  EndPart'
<1>1. ASSUME NEW t \in Thread, SignalStep(t)
      PROVE  EndPart'
  BY <1>1, EndMoves, EndSignals DEF SignalStep, QuietStep
<1>2. ASSUME NEW t \in Thread, EndStep(t)
      PROVE  EndPart'
  <2>1. CASE Win(t) \/ ResetAction(t) \/ WinOver(t) \/ ClearMask(t) \/ ReturnBare(t)
    BY <2>1, EndMoves DEF QuietStep
  <2>2. CASE ExitAgain(t) \/ Die(t) \/ ExecFails(t)
    BY <2>2, EndSignals
  <2>3. CASE Exec(t)
    <3>1. NewTables'
      BY <2>3, ExecTables
    <3> QED
      BY <3>1, EndOfImage, PTL
  <2> QED
    BY <1>2, <2>1, <2>2, <2>3 DEF EndStep
<1>3. CASE UNCHANGED vars
  BY <1>3, EndSignals, Constants
<1> QED
  BY <1>1, <1>2, <1>3, EndCalls, EndReturns DEF Next

-----------------------------------------------------------------------------
(* Theorems about the table and about nesting. *)

\* The invariant of the second part: the table and the kernel agree outside a call,
\* a frame of monitor's handler keeps the shootdown signal blocked above it until the
\* callbacks are through, and a default in the kernel is that of an ending process.
THEOREM FullInvariant == Spec => [](SignalInv /\ TableInv /\ NestInv /\ EndPart)
<1>1. Init => SignalInv /\ TableInv /\ NestInv /\ EndPart
  BY InitHolds, InitTable, InitNest, InitEnd
<1>2. SignalInv /\ TableInv /\ NestInv /\ EndPart /\ [Next]_vars
        => (SignalInv /\ TableInv /\ NestInv /\ EndPart)'
  <2> SUFFICES ASSUME SignalInv, TableInv, NestInv, EndPart, [Next]_vars
               PROVE  (SignalInv /\ TableInv /\ NestInv /\ EndPart)'
    OBVIOUS
  <2>1. SignalInv'
    BY StepKeeps
  <2>2. TableInv'
    BY <2>1, TableKeeps
  <2>3. NestInv'
    BY NestKeeps DEF TableInv
  <2>4. EndPart'
    BY <2>1, EndKeeps
  <2> QED
    BY <2>1, <2>2, <2>3, <2>4
<1> QED
  BY <1>1, <1>2, PTL DEF Spec

\* In a thread other than the one that ends the process, no shootdown handler that
\* calls fini-thread runs on top of monitor's handler for a signal about which no two
\* calls overlapped.  Until the callbacks are through the shootdown signal is blocked
\* from that handler on, and then there are no calls of fini-thread: so it does not
\* matter that the handler empties its mask before it raises its signal once more.
THEOREM FiniNeverNested == Spec => []NoNestedFini
<1>1. SignalInv /\ NestInv => NoNestedFini
  <2> SUFFICES ASSUME SignalInv, NestInv, NEW t \in Thread \ {winner},
                      NEW s \in Managed \ tangled,
                      NEW i \in 2..Len(th[t]), th[t][i].at = "fini", InsideHandler(t, i, s)
               PROVE  FALSE
    BY DEF NoNestedFini
  <2>1. th[t] \in Seq(Frame) /\ Nested(th[t], mask[t], shoot, tangled, over)
    BY DEF SignalInv, StacksOK, NestInv
  <2>2. Len(th[t]) \in Nat
    BY <2>1, LenProperties
  <2>3. PICK j \in 2..(i - 1) : th[t][j].sig = s
    BY DEF InsideHandler
  <2>4. FlatOK(th[t], tangled)
    BY <2>1, NestIsFlat DEF Nested
  <2>5. j \in 2..Len(th[t]) /\ i \in 2..Len(th[t]) /\ j < i
    BY <2>2, <2>3
  <2> QED
    BY <2>3, <2>4, <2>5 DEF FlatOK
<1> QED
  BY <1>1, FullInvariant, PTL

\* After any calls, exits and failed execs the kernel has what the table says, for a
\* signal about which no two calls overlapped.
THEOREM TableKept == Spec => []KernelAsTable
<1>1. TableInv /\ EndPart => KernelAsTable
  <2> SUFFICES ASSUME TableInv, EndPart, status = "up", ~InSystem,
                      NEW s \in Managed \ tangled,
                      ~InCallOn(s), ~(kern[s].by = "shootdown" /\ s = shoot)
               PROVE  /\ kern[s].by = "monitor" /\ kern[s].mask = kernAct[s]
                      /\ shoot \in kernAct[s]
                      /\ s \notin client =>
                           kernAct[s] \in {AdjustSamask(appl[s].mask \ k) : k \in SUBSET keepOpen}
    BY DEF KernelAsTable
  <2>1. Good(s, kern[s])
    BY DEF TableInv, SamePart
  <2>2. kern[s].by # "dfl"
    BY DEF EndPart, Raised
  <2> QED
    BY <2>1, <2>2 DEF Good, Adjusted
<1> QED
  BY <1>1, FullInvariant, PTL
=============================================================================
