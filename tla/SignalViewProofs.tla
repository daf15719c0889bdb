--------------------------- MODULE SignalViewProofs ---------------------------
(***************************************************************************)
(* MonitorSignal implements SignalView, for any threads, signals, lists    *)
(* and handlers: what an application sees of signals under monitor, with   *)
(* any calls overlapping, it could see without.                            *)
(***************************************************************************)
EXTENDS MonitorSignalProofs, FiniteSetTheorems

-----------------------------------------------------------------------------
(* Sequences of which one is one longer than the other. *)

LEMMA OneLonger ==
  ASSUME NEW S, NEW h \in Seq(S), NEW g \in Seq(S), Len(g) = Len(h) + 1,
         \A k \in 1..Len(h) : g[k] = h[k]
  PROVE  /\ g = Append(h, g[Len(g)]) /\ g # <<>>
         /\ h = SubSeq(g, 1, Len(g) - 1)
<1>1. Len(h) \in Nat /\ Len(g) \in Nat /\ Len(g) \in 1..Len(g)
  BY LenProperties
<1>2. g[Len(g)] \in S /\ \A k \in 1..Len(g) : g[k] \in S
  BY <1>1, ElementOfSeq
<1>3. g = Append(h, g[Len(g)])
  <2> DEFINE a == Append(h, g[Len(g)])
  <2>1. /\ a \in Seq(S) /\ Len(a) = Len(h) + 1 /\ a[Len(h) + 1] = g[Len(g)]
        /\ \A k \in 1..Len(h) : a[k] = h[k]
    BY <1>2, AppendProperties
  <2> HIDE DEF a
  <2>2. \A k \in 1..Len(g) : g[k] = a[k]
    BY <1>1, <2>1
  <2>3. g = a
    BY <2>1, <2>2, SeqEqual
  <2> QED
    BY <2>3 DEF a
<1>4. h = SubSeq(g, 1, Len(g) - 1)
  <2> DEFINE b == SubSeq(g, 1, Len(g) - 1)
  <2>1. Len(g) - 1 \in Int /\ 1 \in Int /\ \A i \in 1..(Len(g) - 1) : g[i] \in S
    BY <1>1, <1>2
  <2>2. /\ b \in Seq(S)
        /\ Len(b) = IF 1 <= Len(g) - 1 THEN Len(g) - 1 - 1 + 1 ELSE 0
        /\ \A i \in 1..(Len(g) - 1 - 1 + 1) : b[i] = g[1 + i - 1]
    BY <2>1, SubSeqProperties
  <2> HIDE DEF b
  <2>3. Len(b) = Len(h) /\ \A k \in 1..Len(h) : h[k] = b[k]
    BY <1>1, <2>2
  <2>4. h = b
    BY <2>2, <2>3, SeqEqual
  <2> QED
    BY <2>4 DEF b
<1>5. g # <<>>
  BY <1>1, EmptySeq
<1> QED
  BY <1>3, <1>4, <1>5

-----------------------------------------------------------------------------
(* The handlers of a stack. *)

LEMMA FramesFinite ==
  ASSUME NEW st \in Seq(Frame)
  PROVE  /\ HandlerFrames(st) \subseteq 1..Len(st)
         /\ IsFiniteSet(HandlerFrames(st)) /\ Cardinality(HandlerFrames(st)) \in Nat
         /\ \A S \in SUBSET HandlerFrames(st) :
              /\ IsFiniteSet(S) /\ Cardinality(S) \in Nat
              /\ Cardinality(S) <= Cardinality(HandlerFrames(st))
<1>1. Len(st) \in Nat /\ DOMAIN st = 1..Len(st)
  BY LenProperties
<1>2. HandlerFrames(st) \subseteq 1..Len(st)
  BY <1>1 DEF HandlerFrames
<1>3. IsFiniteSet(1..Len(st))
  BY <1>1, FS_Interval
<1>4. IsFiniteSet(HandlerFrames(st))
  BY <1>2, <1>3, FS_Subset
<1>5. Cardinality(HandlerFrames(st)) \in Nat
  BY <1>4, FS_CardinalityType
<1>6. ASSUME NEW S \in SUBSET HandlerFrames(st)
      PROVE  /\ IsFiniteSet(S) /\ Cardinality(S) \in Nat
             /\ Cardinality(S) <= Cardinality(HandlerFrames(st))
  BY <1>4, FS_Subset, FS_CardinalityType
<1> QED
  BY <1>2, <1>4, <1>5, <1>6

\* A choice among the handlers at one place depends on these only.
LEMMA SameChoice ==
  ASSUME NEW st, NEW new, NEW k, Nth(new, k) = Nth(st, k),
         \A i \in Nth(st, k) : AsSeen(new[i]) = AsSeen(st[i])
  PROVE  (CHOOSE h \in {AsSeen(new[i]) : i \in Nth(new, k)} : TRUE)
           = (CHOOSE h \in {AsSeen(st[i]) : i \in Nth(st, k)} : TRUE)
<1>1. {AsSeen(new[i]) : i \in Nth(new, k)} = {AsSeen(st[i]) : i \in Nth(st, k)}
  OBVIOUS
<1> QED
  BY <1>1, Zenon

\* Frames without a handler of the application do not show.
LEMMA HandlersSame ==
  ASSUME NEW st, NEW new, HandlerFrames(new) = HandlerFrames(st),
         \A i \in HandlerFrames(st) : AsSeen(new[i]) = AsSeen(st[i])
  PROVE  Handlers(new) = Handlers(st)
<1>1. ASSUME NEW k
      PROVE  (CHOOSE h \in {AsSeen(new[i]) : i \in Nth(new, k)} : TRUE)
               = (CHOOSE h \in {AsSeen(st[i]) : i \in Nth(st, k)} : TRUE)
  <2>1. Nth(new, k) = Nth(st, k) /\ Nth(st, k) \subseteq HandlerFrames(st)
    BY DEF Nth
  <2> QED
    BY <2>1, SameChoice
<1> DEFINE c == Cardinality(HandlerFrames(st))
           at(x, k) == CHOOSE h \in {AsSeen(x[i]) : i \in Nth(x, k)} : TRUE
<1>2. Handlers(st) = [k \in 1..c |-> at(st, k)]
  BY Zenon DEF Handlers
<1>3. Handlers(new) = [k \in 1..c |-> at(new, k)]
  BY Zenon DEF Handlers
<1>4. \A k : at(new, k) = at(st, k)
  BY <1>1
<1> HIDE DEF c, at
<1> QED
  BY <1>2, <1>3, <1>4

\* A handler on top of the others is the last.
LEMMA HandlersMore ==
  ASSUME NEW st \in Seq(Frame), NEW new \in Seq(Frame), NEW n \in Nat,
         HandlerFrames(new) = HandlerFrames(st) \cup {n},
         \A i \in HandlerFrames(st) : i < n /\ AsSeen(new[i]) = AsSeen(st[i])
  PROVE  /\ Handlers(new) = Append(Handlers(st), AsSeen(new[n]))
         /\ Handlers(new) # <<>>
         /\ Handlers(st) = SubSeq(Handlers(new), 1, Len(Handlers(new)) - 1)
<1> DEFINE H == HandlerFrames(st)
           G == HandlerFrames(new)
           c == Cardinality(H)
<1>1. /\ H \subseteq Nat \ {0} /\ IsFiniteSet(H) /\ c \in Nat /\ n \notin H
      /\ G \subseteq Nat \ {0} /\ G = H \cup {n}
      /\ \A S \in SUBSET H : Cardinality(S) <= c
  BY FramesFinite
<1>2. Cardinality(G) = c + 1
  BY <1>1, FS_AddElement
<1>3. \A i \in H : G \cap 1..i = H \cap 1..i /\ Cardinality(H \cap 1..i) <= c
  BY <1>1
<1>4. G \cap 1..n = G
  BY <1>1
<1> HIDE DEF c, H, G
<1>5. ASSUME NEW k \in 1..c
      PROVE  Nth(new, k) = Nth(st, k) /\ Nth(st, k) \subseteq H
  <2>1. k # c + 1
    BY <1>1
  <2> QED
    BY <1>1, <1>2, <1>3, <1>4, <2>1 DEF Nth, H, G
<1>6. Nth(new, c + 1) = {n}
  <2>1. \A i \in H : Cardinality(G \cap 1..i) # c + 1
    <3>1. ASSUME NEW i \in H
          PROVE  Cardinality(G \cap 1..i) # c + 1
      <4>1. Cardinality(G \cap 1..i) <= c /\ Cardinality(G \cap 1..i) \in Nat
        <5>1. G \cap 1..i \in SUBSET H
          BY <1>3
        <5> QED
          BY <5>1, <1>1, FramesFinite DEF H, c
      <4> QED
        BY <4>1, <1>1
    <3> QED
      BY <3>1
  <2>2. Nth(new, c + 1) = {i \in G : Cardinality(G \cap 1..i) = c + 1}
    BY DEF Nth, G
  <2> QED
    BY <1>1, <1>2, <1>4, <2>1, <2>2
<1> DEFINE h == Handlers(st)
           g == Handlers(new)
           at(x, k) == CHOOSE e \in {AsSeen(x[i]) : i \in Nth(x, k)} : TRUE
<1>7. h = [k \in 1..c |-> at(st, k)] /\ g = [k \in 1..(c + 1) |-> at(new, k)]
  BY <1>2, Zenon DEF Handlers, H, G, c
<1>8. \A k \in 1..c : at(new, k) = at(st, k)
  <2>1. ASSUME NEW k \in 1..c
        PROVE  at(new, k) = at(st, k)
    <3>1. \A i \in Nth(st, k) : AsSeen(new[i]) = AsSeen(st[i])
      BY <1>5 DEF H
    <3> QED
      BY <1>5, <3>1, SameChoice
  <2> QED
    BY <2>1
<1>9. at(new, c + 1) = AsSeen(new[n])
  <2>1. {AsSeen(new[i]) : i \in Nth(new, c + 1)} = {AsSeen(new[n])}
    BY <1>6
  <2>2. \A e : (CHOOSE x \in {e} : TRUE) = e
    OBVIOUS
  <2> QED
    BY <2>1, <2>2, Zenon
<1> HIDE DEF at, h, g
<1> DEFINE S == {g[k] : k \in 1..(c + 1)}
<1>10. /\ h \in [1..c -> S] /\ g \in [1..(c + 1) -> S]
       /\ \A k \in 1..c : g[k] = h[k]
       /\ g[c + 1] = AsSeen(new[n])
  BY <1>1, <1>7, <1>8, <1>9
<1> HIDE DEF S
<1>11. h \in Seq(S) /\ g \in Seq(S)
  <2>1. c + 1 \in Nat
    BY <1>1
  <2> QED
    BY <1>1, <1>10, <2>1, SeqDef
<1>12. Len(h) = c /\ Len(g) = c + 1
  BY <1>1, <1>10, <1>11, LenProperties
<1>13. /\ g = Append(h, g[Len(g)]) /\ g # <<>> /\ h = SubSeq(g, 1, Len(g) - 1)
  <2>1. Len(g) = Len(h) + 1 /\ \A k \in 1..Len(h) : g[k] = h[k]
    BY <1>10, <1>12
  <2> QED
    BY <1>11, <2>1, OneLonger
<1> QED
  BY <1>10, <1>12, <1>13 DEF h, g

LEMMA HandlersNone ==
  Handlers(<<>>) = <<>> /\ Handlers(<<Base>>) = <<>>
<1>1. HandlerFrames(<<>>) = {}
  BY DEF HandlerFrames
<1>2. HandlerFrames(<<Base>>) = {}
  BY DEF HandlerFrames, Base
<1>3. ASSUME NEW st, HandlerFrames(st) = {}
      PROVE  Handlers(st) = <<>>
  <2>1. Cardinality(HandlerFrames(st)) = 0
    BY <1>3, FS_EmptySet
  <2>2. 1..0 = {}
    OBVIOUS
  <2> QED
    BY <2>1, <2>2 DEF Handlers
<1> QED
  BY <1>1, <1>2, <1>3

-----------------------------------------------------------------------------
(* What is known of the handlers on a stack. *)

\* Monitor's own handlers run for signals that it manages, and what a handler has read
\* of a disposition is so still, or the disposition was changed at a bad time.
ReadLoc == {"default", "apply", "fault"}
SeenOK(f) ==
    /\ f.hand = NoHandler => f.sig \in Managed \cup {NoSig}
    /\ f.at = "default" => appl[f.sig].hand # "ign" \/ f.sig \in loose
    /\ f.at = "apply" => appl[f.sig].hand \in Handler \/ f.sig \in loose
    /\ f.at = "fault" => f.sig \in loose
SeenInv == \A t \in Thread : \A i \in 1..Len(th[t]) : SeenOK(th[t][i])

\* Nothing is written of what a handler reads.
SameReads == appl' = appl /\ loose' = loose

\* A frame that goes on elsewhere.
LEMMA SeenGoesOn ==
  ASSUME NEW f, NEW g, SeenOK(g), AsSeen(f) = AsSeen(g), f.at \notin ReadLoc
  PROVE  SeenOK(f)
BY DEF SeenOK, AsSeen, ReadLoc

LEMMA TopSeenOK ==
  ASSUME StacksOK, SeenInv, NEW t \in Thread, th[t] # <<>>
  PROVE  SeenOK(Top(t))
<1>1. Len(th[t]) \in Nat \ {0} /\ Top(t) = th[t][Len(th[t])]
  BY RunFacts
<1>2. Len(th[t]) \in 1..Len(th[t])
  BY <1>1
<1> QED
  BY <1>1, <1>2 DEF SeenInv

\* One stack changes, and with it what the application sees of it.
LEMMA StackChanges ==
  ASSUME StacksOK, SeenInv, NEW t \in Thread, NEW new \in Seq(Frame),
         th' = [th EXCEPT ![t] = new]
  PROVE  /\ SameReads /\ (\A i \in 1..Len(new) : SeenOK(new[i])) => SeenInv'
         /\ ApplStack' = [ApplStack EXCEPT ![t] = Handlers(new)]
         /\ ApplStack[t] = Handlers(th[t])
         /\ Handlers(new) = Handlers(th[t]) => ApplStack' = ApplStack
<1>1. /\ th \in [Thread -> Seq(Frame)] /\ th'[t] = new
      /\ \A u \in Thread \ {t} : th'[u] = th[u]
  BY DEF StacksOK
<1>2. ASSUME SameReads, \A i \in 1..Len(new) : SeenOK(new[i])
      PROVE  SeenInv'
  <2>1. ASSUME NEW u \in Thread, NEW i \in 1..Len(th'[u])
        PROVE  SeenOK(th'[u][i])
    <3>1. CASE u = t
      BY <1>1, <1>2, <2>1, <3>1
    <3>2. CASE u # t
      BY <1>1, <2>1, <3>2 DEF SeenInv
    <3> QED
      BY <3>1, <3>2
  <2> QED
    BY <1>2, <2>1 DEF SeenInv, SeenOK, SameReads
<1>3. ApplStack' = [ApplStack EXCEPT ![t] = Handlers(new)]
  <2>1. ApplStack' = [u \in Thread |-> Handlers(th'[u])]
    BY DEF ApplStack
  <2> QED
    BY <1>1, <2>1 DEF ApplStack
<1>4. ApplStack[t] = Handlers(th[t])
  BY DEF ApplStack
<1>5. Handlers(new) = Handlers(th[t]) => ApplStack' = ApplStack
  <2>1. ApplStack = [u \in Thread |-> ApplStack[u]]
    BY DEF ApplStack
  <2> QED
    BY <1>3, <1>4, <2>1
<1> QED
  BY <1>2, <1>3, <1>4, <1>5

\* The top frame goes on, and has the handler it had.
LEMMA TopSeen ==
  ASSUME StacksOK, SeenInv, NEW t \in Thread, th[t] # <<>>, NEW f \in Frame,
         SetTop(t, f), AsSeen(f) = AsSeen(Top(t))
  PROVE  ApplStack' = ApplStack /\ (SameReads /\ SeenOK(f) => SeenInv')
<1>1. /\ th[t] \in Seq(Frame) /\ Len(th[t]) \in Nat \ {0} /\ Top(t) = th[t][Len(th[t])]
      /\ Top(t) \in Frame
  BY RunFacts
<1> DEFINE new == NewTop(t, f)
           n == Len(th[t])
<1>2. Replaced(th[t], new, f) /\ th' = [th EXCEPT ![t] = new]
  BY SetTopFacts DEF SetTop, NewTop
<1> HIDE DEF new
<1>3. /\ new \in Seq(Frame) /\ Len(new) = n /\ new[n] = f
      /\ \A i \in 1..n : i # n => new[i] = th[t][i]
  BY <1>2 DEF Replaced
<1>4. f.sig = Top(t).sig /\ f.hand = Top(t).hand
  BY DEF AsSeen
<1>5. \A i \in 1..n : AsSeen(new[i]) = AsSeen(th[t][i]) /\ new[i].hand = th[t][i].hand
  BY <1>1, <1>3, <1>4
<1>6. DOMAIN new = 1..n /\ DOMAIN th[t] = 1..n
  BY <1>1, <1>3, LenProperties
<1>7. HandlerFrames(new) = HandlerFrames(th[t]) /\ HandlerFrames(th[t]) \subseteq 1..n
  BY <1>5, <1>6 DEF HandlerFrames
<1>8. Handlers(new) = Handlers(th[t])
  BY <1>5, <1>7, HandlersSame
<1>9. SeenOK(f) => \A i \in 1..Len(new) : SeenOK(new[i])
  BY <1>3 DEF SeenInv
<1> QED
  BY <1>2, <1>3, <1>8, <1>9, StackChanges

\* A handler of the application begins in the top frame.
LEMMA TopEnters ==
  ASSUME StacksOK, SeenInv, NEW t \in Thread, th[t] # <<>>, NEW f \in Frame,
         SetTop(t, f), Top(t).hand = NoHandler, f.hand # NoHandler, SeenOK(f), SameReads
  PROVE  /\ SeenInv'
         /\ ApplStack' = [ApplStack EXCEPT ![t] = Append(ApplStack[t], AsSeen(f))]
<1>1. /\ th[t] \in Seq(Frame) /\ Len(th[t]) \in Nat \ {0} /\ Top(t) = th[t][Len(th[t])]
  BY RunFacts
<1> DEFINE new == NewTop(t, f)
           n == Len(th[t])
<1>2. Replaced(th[t], new, f) /\ th' = [th EXCEPT ![t] = new]
  BY SetTopFacts DEF SetTop, NewTop
<1> HIDE DEF new
<1>3. /\ new \in Seq(Frame) /\ Len(new) = n /\ new[n] = f
      /\ \A i \in 1..n : i # n => new[i] = th[t][i]
  BY <1>2 DEF Replaced
<1>4. DOMAIN new = 1..n /\ DOMAIN th[t] = 1..n
  BY <1>1, <1>3, LenProperties
<1>5. n \notin HandlerFrames(th[t]) /\ HandlerFrames(th[t]) \subseteq 1..n
  BY <1>1, <1>4 DEF HandlerFrames
<1>6. HandlerFrames(new) = HandlerFrames(th[t]) \cup {n}
  BY <1>1, <1>3, <1>4, <1>5 DEF HandlerFrames
<1>7. \A i \in HandlerFrames(th[t]) : i < n /\ AsSeen(new[i]) = AsSeen(th[t][i])
  BY <1>1, <1>3, <1>5
<1>8. Handlers(new) = Append(Handlers(th[t]), AsSeen(new[n]))
  BY <1>1, <1>3, <1>6, <1>7, HandlersMore
<1>9. \A i \in 1..Len(new) : SeenOK(new[i])
  BY <1>3 DEF SeenInv
<1>10. /\ SeenInv'
       /\ ApplStack' = [ApplStack EXCEPT ![t] = Handlers(new)]
       /\ ApplStack[t] = Handlers(th[t])
  BY <1>2, <1>3, <1>9, StackChanges
<1>11. Handlers(new) = Append(ApplStack[t], AsSeen(f))
  BY <1>3, <1>8, <1>10
<1> QED
  BY <1>10, <1>11

\* A frame is pushed, with a handler of the application or without.
Pushable(s, l, h) ==
    /\ l \in {"handler", "fini", "late", "run"} /\ h \in Handler \cup {NoHandler}
    /\ h = NoHandler => s \in Managed

LEMMA PushSeen ==
  ASSUME StacksOK, SeenInv, NEW t \in Thread, NEW s \in Sig, NEW m \in SUBSET Sig,
         NEW l, NEW h, Push(t, s, m, l, h), Pushable(s, l, h), SameReads
  PROVE  /\ SeenInv'
         /\ h = NoHandler => ApplStack' = ApplStack
         /\ h # NoHandler => ApplStack' =
              [ApplStack EXCEPT ![t] = Append(ApplStack[t], [sig |-> s, hand |-> h])]
<1> DEFINE f == [Base EXCEPT !.sig = s, !.saved = mask[t], !.at = l, !.hand = h]
           new == Append(th[t], f)
           n == Len(th[t]) + 1
<1>1. th[t] \in Seq(Frame) /\ mask[t] \in SUBSET Sig
  BY DEF StacksOK
<1>2. NoOld \in [SystemIgnores -> KernRecord]
  BY DEF NoOld, KernRecord
<1>3. f \in Frame /\ f.sig = s /\ f.at = l /\ f.hand = h
  BY <1>1, <1>2 DEF Base, Frame, Loc, Pushable
<1>4. th' = [th EXCEPT ![t] = new]
  BY DEF Push
<1> HIDE DEF f
<1>5. Pushed(th[t], new, f)
  BY <1>1, <1>3, PushFacts
<1> HIDE DEF new
<1>6. /\ new \in Seq(Frame) /\ Len(new) = n /\ new[n] = f /\ n \in Nat
      /\ \A i \in 1..Len(th[t]) : new[i] = th[t][i]
  BY <1>1, <1>5, LenProperties DEF Pushed
<1>7. /\ DOMAIN new = 1..n /\ DOMAIN th[t] = 1..(n - 1) /\ Len(th[t]) = n - 1
      /\ 1..n = 1..(n - 1) \cup {n} /\ Len(th[t]) \in Nat
  BY <1>1, <1>6, LenProperties
<1>8. SeenOK(f)
  BY <1>3 DEF SeenOK, Pushable
<1>9. \A i \in 1..Len(new) : SeenOK(new[i])
  BY <1>6, <1>7, <1>8 DEF SeenInv
<1> HIDE DEF n
<1>10. CASE h = NoHandler
  <2>1. HandlerFrames(new) = HandlerFrames(th[t])
    BY <1>3, <1>6, <1>7, <1>10 DEF HandlerFrames
  <2>2. \A i \in HandlerFrames(th[t]) : AsSeen(new[i]) = AsSeen(th[t][i])
    BY <1>6, <1>7 DEF HandlerFrames
  <2>3. Handlers(new) = Handlers(th[t])
    BY <2>1, <2>2, HandlersSame
  <2> QED
    BY <1>4, <1>6, <1>9, <1>10, <2>3, StackChanges
<1>11. CASE h # NoHandler
  <2>1. HandlerFrames(new) = HandlerFrames(th[t]) \cup {n}
    BY <1>3, <1>6, <1>7, <1>11 DEF HandlerFrames
  <2>2. \A i \in HandlerFrames(th[t]) : i < n /\ AsSeen(new[i]) = AsSeen(th[t][i])
    BY <1>6, <1>7 DEF HandlerFrames
  <2>3. Handlers(new) = Append(Handlers(th[t]), AsSeen(new[n]))
    BY <1>1, <1>6, <2>1, <2>2, HandlersMore
  <2>4. AsSeen(new[n]) = [sig |-> s, hand |-> h]
    BY <1>3, <1>6 DEF AsSeen
  <2>5. /\ SeenInv'
        /\ ApplStack' = [ApplStack EXCEPT ![t] = Handlers(new)]
        /\ ApplStack[t] = Handlers(th[t])
    BY <1>4, <1>6, <1>9, StackChanges
  <2>6. Handlers(new) = Append(ApplStack[t], [sig |-> s, hand |-> h])
    BY <2>3, <2>4, <2>5
  <2> QED
    BY <1>11, <2>5, <2>6
<1> QED
  BY <1>10, <1>11

\* A frame is popped, and with it the handler that ran in it.
LEMMA PopSeen ==
  ASSUME StacksOK, SeenInv, NEW t \in Thread, Len(th[t]) > 1, Pop(t), SameReads
  PROVE  /\ SeenInv'
         /\ Top(t).hand = NoHandler => ApplStack' = ApplStack
         /\ Top(t).hand # NoHandler =>
              /\ ApplStack[t] # <<>>
              /\ ApplStack' = [ApplStack EXCEPT ![t] =
                                 SubSeq(ApplStack[t], 1, Len(ApplStack[t]) - 1)]
<1> DEFINE new == Front(th[t])
           n == Len(th[t])
<1>1. th[t] \in Seq(Frame) /\ th[t] # <<>>
  BY EmptySeq DEF StacksOK
<1>2. n \in Nat \ {0} /\ Top(t) = th[t][n]
  BY <1>1, RunFacts
<1>3. th' = [th EXCEPT ![t] = new]
  BY DEF Pop
<1>4. Popped(th[t], new)
  BY <1>1, PopFacts
<1> HIDE DEF new
<1>5. /\ new \in Seq(Frame) /\ Len(new) = n - 1
      /\ \A i \in 1..(n - 1) : new[i] = th[t][i]
  BY <1>4 DEF Popped
<1>6. /\ DOMAIN new = 1..(n - 1) /\ DOMAIN th[t] = 1..n
      /\ 1..n = 1..(n - 1) \cup {n} /\ n \notin 1..(n - 1)
  BY <1>1, <1>2, <1>5, LenProperties
<1>7. \A i \in 1..Len(new) : SeenOK(new[i])
  BY <1>2, <1>5, <1>6 DEF SeenInv
<1>8. \A i \in HandlerFrames(new) : AsSeen(th[t][i]) = AsSeen(new[i])
  BY <1>5, <1>6 DEF HandlerFrames
<1>9. CASE Top(t).hand = NoHandler
  <2>1. HandlerFrames(th[t]) = HandlerFrames(new)
    BY <1>2, <1>5, <1>6, <1>9 DEF HandlerFrames
  <2>2. Handlers(new) = Handlers(th[t])
    BY <2>1, <1>8, HandlersSame
  <2> QED
    BY <1>3, <1>5, <1>7, <1>9, <2>2, StackChanges
<1>10. CASE Top(t).hand # NoHandler
  <2>1. HandlerFrames(th[t]) = HandlerFrames(new) \cup {n}
    BY <1>2, <1>5, <1>6, <1>10 DEF HandlerFrames
  <2>2. \A i \in HandlerFrames(new) : i < n
    BY <1>2, <1>6 DEF HandlerFrames
  <2>3. /\ Handlers(th[t]) # <<>>
        /\ Handlers(new) = SubSeq(Handlers(th[t]), 1, Len(Handlers(th[t])) - 1)
    BY <1>1, <1>2, <1>5, <1>8, <2>1, <2>2, HandlersMore
  <2>4. /\ SeenInv'
        /\ ApplStack' = [ApplStack EXCEPT ![t] = Handlers(new)]
        /\ ApplStack[t] = Handlers(th[t])
    BY <1>3, <1>5, <1>7, StackChanges
  <2> QED
    BY <1>10, <2>3, <2>4
<1> QED
  BY <1>9, <1>10

\* Nothing that runs here is seen: stacks are as they were, or new.
LEMMA StacksSeen ==
  ASSUME SeenInv, th' = th, SameReads
  PROVE  SeenInv' /\ ApplStack' = ApplStack
<1>1. SeenInv'
  BY DEF SeenInv, SeenOK, SameReads
<1>2. ApplStack' = ApplStack
  BY DEF ApplStack
<1> QED
  BY <1>1, <1>2

LEMMA NoneSeen ==
  ASSUME NEW S, th' = [u \in Thread |-> IF u \in S THEN <<Base>> ELSE <<>>]
  PROVE  SeenInv' /\ ApplStack' = [u \in Thread |-> <<>>]
<1>1. \A u \in Thread : th'[u] = <<Base>> \/ th'[u] = <<>>
  OBVIOUS
<1>2. SeenInv'
  <2>1. ASSUME NEW u \in Thread, NEW i \in 1..Len(th'[u])
        PROVE  th'[u][i] = Base
    BY <1>1
  <2>2. Base.at = "run" /\ Base.sig = NoSig
    BY DEF Base
  <2> QED
    BY <2>1, <2>2 DEF SeenInv, SeenOK
<1>3. ApplStack' = [u \in Thread |-> <<>>]
  <2>1. ApplStack' = [u \in Thread |-> Handlers(th'[u])]
    BY DEF ApplStack
  <2>2. \A u \in Thread : Handlers(th'[u]) = <<>>
    BY <1>1, HandlersNone
  <2> QED
    BY <2>1, <2>2
<1> QED
  BY <1>2, <1>3

-----------------------------------------------------------------------------
(* What is known of the dispositions. *)

LEMMA DispSame ==
  ASSUME \A s \in Managed : appl'[s].hand = appl[s].hand,
         \A s \in Sig \ Managed : kern'[s].by = kern[s].by
  PROVE  ApplDisp' = ApplDisp
<1>1. ApplDisp' = [s \in Sig |-> IF s \in Managed THEN appl'[s].hand ELSE kern'[s].by]
  BY DEF ApplDisp
<1> QED
  BY <1>1 DEF ApplDisp

LEMMA DispSet ==
  ASSUME NEW s \in Sig, NEW d \in Disposition,
         \A r \in Managed : appl'[r].hand = IF r = s THEN d ELSE appl[r].hand,
         \A r \in Sig \ Managed : kern'[r].by = IF r = s THEN d ELSE kern[r].by
  PROVE  ApplDisp' = [ApplDisp EXCEPT ![s] = d]
<1>1. ApplDisp' = [r \in Sig |-> IF r \in Managed THEN appl'[r].hand ELSE kern'[r].by]
  BY DEF ApplDisp
<1> QED
  BY <1>1 DEF ApplDisp

\* Whom a signal finds.
LEMMA DispFacts ==
  ASSUME SignalInv, NEW s \in Sig
  PROVE  /\ s \in Managed => ApplDisp[s] = appl[s].hand
         /\ s \notin Managed => ApplDisp[s] = kern[s].by
         /\ kern[s].by \in Handler => s \notin Managed
<1>1. kern[s].by \in Handler => s \notin Managed
  BY SignalAssumption DEF SignalInv, KernPart
<1> QED
  BY <1>1 DEF ApplDisp

-----------------------------------------------------------------------------
(* Each step of MonitorSignal is a step of SignalView, or none. *)

ViewStep == SeenInv' /\ [View!Next]_View!vars

Unseen == UNCHANGED <<ApplDisp, ApplStack, status, loose>>

LEMMA UnseenStep ==
  ASSUME SeenInv', Unseen
  PROVE  ViewStep
BY DEF ViewStep, Unseen, View!vars

LEMMA SetStep ==
  ASSUME SeenInv', NEW s \in Sig, NEW d \in Disposition, loose' \in {loose, loose \cup {s}},
         ApplDisp' = [ApplDisp EXCEPT ![s] = d], ApplStack' = ApplStack, status' = status
  PROVE  ViewStep
<1>1. View!SetDisposition
  BY DEF View!SetDisposition, Disposition
<1> QED
  BY <1>1 DEF ViewStep, View!Next

LEMMA HandleStep ==
  ASSUME SeenInv', NEW t \in Thread, NEW s \in Sig, ApplDisp[s] \in Handler,
         ApplStack' = [ApplStack EXCEPT ![t] =
                         Append(ApplStack[t], [sig |-> s, hand |-> ApplDisp[s]])],
         ApplDisp' = ApplDisp, status' = status, loose' = loose
  PROVE  ViewStep
<1>1. View!Handle(t, s)
  BY DEF View!Handle
<1> QED
  BY <1>1 DEF ViewStep, View!Next

LEMMA ReturnStep ==
  ASSUME SeenInv', NEW t \in Thread, ApplStack[t] # <<>>,
         ApplStack' = [ApplStack EXCEPT ![t] =
                         SubSeq(ApplStack[t], 1, Len(ApplStack[t]) - 1)],
         ApplDisp' = ApplDisp, status' = status, loose' = loose
  PROVE  ViewStep
<1>1. View!Return(t)
  BY DEF View!Return
<1> QED
  BY <1>1 DEF ViewStep, View!Next

LEMMA StrikeStep ==
  ASSUME SeenInv', NEW s \in Sig, s \in Fatal, ApplDisp[s] = "dfl", status # "dead",
         status' \in {"signalled", "dead"}, ApplDisp' = ApplDisp, ApplStack' = ApplStack,
         loose' = loose
  PROVE  ViewStep
<1>1. View!Strike(s)
  BY DEF View!Strike
<1> QED
  BY <1>1 DEF ViewStep, View!Next

LEMMA ViewEnd ==
  ASSUME SeenInv', ApplDisp' = ApplDisp, loose' = loose, status # "dead",
         \/ status = "up" /\ status' \in {"exiting", "dead"} /\ ApplStack' = ApplStack
         \/ /\ status \in {"exiting", "signalled"} /\ status' = "dead"
            /\ ApplStack' \in {ApplStack, [u \in Thread |-> <<>>]}
         \/ status' = "up" /\ ApplStack' = ApplStack
  PROVE  ViewStep
<1>1. View!Exit \/ View!Die \/ View!Exec
  BY DEF View!Exit, View!Die, View!Exec
<1> QED
  BY <1>1 DEF ViewStep, View!Next

LEMMA CrashStep ==
  ASSUME SeenInv', ApplDisp' = ApplDisp, ApplStack' = ApplStack, loose' = loose,
         loose # {}, status' = "dead"
  PROVE  ViewStep
<1>1. View!Crash
  BY DEF View!Crash
<1> QED
  BY <1>1 DEF ViewStep, View!Next

LEMMA NewImageStep ==
  ASSUME SeenInv', status # "dead", status' = "up", loose' = {},
         ApplDisp' \in [Sig -> {"dfl", "ign"}], ApplStack' = [u \in Thread |-> <<>>]
  PROVE  ViewStep
<1>1. View!Exec
  BY DEF View!Exec
<1> QED
  BY <1>1 DEF ViewStep, View!Next

-----------------------------------------------------------------------------
(* The calls of the application and the client. *)

LEMMA StoreActionSeen ==
  ASSUME SignalInv, SignalInv', SeenInv, NEW t \in Thread, NEW s \in Sig, NEW act \in Act[s],
         StoreAction(t, s, act)
  PROVE  ViewStep
<1>0. /\ TableTypes /\ StacksOK /\ StacksOK' /\ s \in Managed /\ Managed \subseteq Sig
      /\ th \in [Thread -> Seq(Frame)]
  BY Constants DEF SignalInv, StoreAction, StacksOK
<1> DEFINE f == [Top(t) EXCEPT !.at = "adjust", !.on = s]
<1>1. /\ th[t] # <<>> /\ SetTop(t, f) /\ status' = status /\ kern' = kern
      /\ loose' = loose \cup {r \in {s} : Reading(r)}
  BY DEF StoreAction, Call, At
<1>2. Top(t) \in Frame /\ f \in Frame
  BY <1>0, <1>1, RunFacts, TopTyped
<1>3. f.at = "adjust" /\ f.sig = Top(t).sig /\ f.hand = Top(t).hand
  BY <1>2 DEF Frame
<1> HIDE DEF f
<1>4. AsSeen(f) = AsSeen(Top(t)) /\ SeenOK(Top(t))
  BY <1>0, <1>1, <1>3, TopSeenOK DEF AsSeen
<1>5. ApplStack' = ApplStack
  BY <1>0, <1>1, <1>2, <1>4, TopSeen
<1>6. act.hand \in Disposition
  BY Constants
<1>7. appl \in [Sig -> ApplRecord] /\ appl' = [appl EXCEPT ![s] = act]
  BY <1>0 DEF TableTypes, StoreAction
<1>8. \A r \in Managed : appl'[r].hand = IF r = s THEN act.hand ELSE appl[r].hand
  BY <1>0, <1>7
<1>9. \A r \in Sig \ Managed : kern'[r].by = IF r = s THEN act.hand ELSE kern[r].by
  BY <1>0, <1>1
<1>10. ApplDisp' = [ApplDisp EXCEPT ![s] = act.hand]
  BY <1>6, <1>8, <1>9, DispSet
<1>11. SeenInv'
  <2> DEFINE Then(g) ==
        /\ g.hand = NoHandler => g.sig \in Managed \cup {NoSig}
        /\ g.at = "default" => appl'[g.sig].hand # "ign" \/ g.sig \in loose'
        /\ g.at = "apply" => appl'[g.sig].hand \in Handler \/ g.sig \in loose'
        /\ g.at = "fault" => g.sig \in loose'
  <2>1. ASSUME NEW g \in Frames', g # f
        PROVE  Then(g)
    <3>1. g \in Frames
      BY <1>0, <1>1, <1>2, <2>1, FramesReplaced
    <3>2. SeenOK(g)
      <4>1. PICK u \in Thread : \E i \in 1..Len(th[u]) : g = th[u][i]
        BY <1>0, <3>1, FrameIn
      <4> QED
        BY <4>1 DEF SeenInv
    <3>3. g.at \in {"default", "apply"} /\ g.sig = s => s \in loose'
      BY <1>1, <3>1 DEF Reading
    <3>4. g.sig # s => appl'[g.sig] = appl[g.sig]
      BY <1>7
    <3>5. loose \subseteq loose'
      BY <1>1
    <3>6. g.at = "default" => appl'[g.sig].hand # "ign" \/ g.sig \in loose'
      BY <3>2, <3>3, <3>4, <3>5 DEF SeenOK
    <3>7. g.at = "apply" => appl'[g.sig].hand \in Handler \/ g.sig \in loose'
      BY <3>2, <3>3, <3>4, <3>5 DEF SeenOK
    <3> QED
      BY <3>2, <3>3, <3>5, <3>6, <3>7 DEF SeenOK
  <2>2. Then(f)
    BY <1>3, <1>4 DEF SeenOK, AsSeen
  <2>3. th' \in [Thread -> Seq(Frame)]
    BY <1>0 DEF StacksOK
  <2>4. ASSUME NEW u \in Thread, NEW i \in 1..Len(th'[u])
        PROVE  Then(th'[u][i])
    <3>1. PICK g : g = th'[u][i]
      OBVIOUS
    <3>2. g \in Frames'
      BY <2>3, <3>1, FrameInNext
    <3>3. Then(g)
      BY <2>1, <2>2, <3>2
    <3> HIDE DEF Then
    <3> QED
      BY <3>1, <3>3
  <2> QED
    BY <2>4 DEF SeenInv, SeenOK
<1>12. loose' \in {loose, loose \cup {s}}
  <2>1. CASE Reading(s)
    BY <1>1, <2>1
  <2>2. CASE ~Reading(s)
    BY <1>1, <2>2
  <2> QED
    BY <2>1, <2>2
<1> QED
  BY <1>1, <1>5, <1>6, <1>10, <1>11, <1>12, SetStep

LEMMA AvoidActionSeen ==
  ASSUME SignalInv, SeenInv, NEW t \in Thread, NEW s \in Sig, NEW act \in Act[s],
         AvoidAction(t, s, act)
  PROVE  ViewStep
<1>0. TableTypes /\ s \notin Managed
  BY DEF SignalInv, AvoidAction, Managed
<1>1. /\ th' = th /\ status' = status /\ SameReads
      /\ kern' = [kern EXCEPT ![s] = [by |-> act.hand, mask |-> act.mask]]
  BY DEF AvoidAction, SameReads, histVars
<1>2. SeenInv' /\ ApplStack' = ApplStack
  BY <1>1, StacksSeen
<1>3. act.hand \in Disposition /\ Managed \subseteq Sig
  BY Constants
<1>4. \A r \in Managed : appl'[r].hand = IF r = s THEN act.hand ELSE appl[r].hand
  BY <1>0, <1>1 DEF SameReads
<1>5. kern \in [Sig -> KernRecord]
  BY <1>0 DEF TableTypes
<1>6. \A r \in Sig \ Managed : kern'[r].by = IF r = s THEN act.hand ELSE kern[r].by
  BY <1>1, <1>5
<1>7. ApplDisp' = [ApplDisp EXCEPT ![s] = act.hand]
  BY <1>3, <1>4, <1>6, DispSet
<1> QED
  BY <1>1, <1>2, <1>3, <1>7, SetStep DEF SameReads

\* Only signals that monitor manages change their kernel action.
ManagedOnly == \A s \in Sig \ Managed : kern'[s].by = kern[s].by

LEMMA ClientActionSeen ==
  ASSUME SignalInv, SeenInv, NEW t \in Thread, NEW s \in Sig, ClientAction(t, s)
  PROVE  ViewStep
<1>0. kern \in [Sig -> KernRecord] /\ s \in Managed
  BY DEF SignalInv, TableTypes, ClientAction
<1>1. th' = th /\ status' = status /\ SameReads
  BY DEF ClientAction, SameReads
<1>2. \/ kern' = kern
      \/ \E m \in MaskOf :
           kern' = [kern EXCEPT ![s] = [by |-> "monitor", mask |-> AdjustSamask(m)]]
  BY DEF ClientAction
<1>3. SeenInv' /\ ApplStack' = ApplStack
  BY <1>1, StacksSeen
<1>4. ApplDisp' = ApplDisp
  BY <1>0, <1>1, <1>2, DispSame DEF SameReads
<1> QED
  BY <1>1, <1>3, <1>4, UnseenStep DEF Unseen, SameReads

LEMMA CreateThreadSeen ==
  ASSUME SignalInv, SeenInv, NEW t \in Thread, NEW u \in Thread, CreateThread(t, u)
  PROVE  ViewStep
<1>0. StacksOK
  BY DEF SignalInv
<1>1. /\ th[u] = <<>> /\ th' = [th EXCEPT ![u] = <<Base>>]
      /\ status' = status /\ SameReads /\ kern' = kern
  BY DEF CreateThread, tableVars, histVars, SameReads
<1>2. <<Base>> \in Seq(Frame)
  BY BaseFacts
<1>3. SeenOK(Base)
  BY DEF SeenOK, Base
<1>4. \A i \in 1..Len(<<Base>>) : SeenOK(<<Base>>[i])
  BY <1>3
<1>5. Handlers(<<Base>>) = Handlers(th[u])
  BY <1>1, HandlersNone
<1> DEFINE new == <<Base>>
<1> HIDE DEF new
<1>6. SeenInv' /\ ApplStack' = ApplStack
  BY <1>0, <1>1, <1>2, <1>4, <1>5, StackChanges DEF new
<1>7. ApplDisp' = ApplDisp
  BY <1>1, DispSame DEF SameReads
<1> QED
  BY <1>1, <1>6, <1>7, UnseenStep DEF Unseen, SameReads

\* A thread goes on in the call it is in, or in monitor's handler.
LEMMA GoesOnUnseen ==
  ASSUME StacksOK, StacksOK', SeenInv, NEW t \in Thread, th[t] # <<>>, NEW f, SetTop(t, f),
         AsSeen(f) = AsSeen(Top(t)), f.at \notin ReadLoc, SameReads
  PROVE  SeenInv' /\ ApplStack' = ApplStack
<1>1. f \in Frame
  BY TopTyped
<1>2. SeenOK(f)
  BY TopSeenOK, SeenGoesOn
<1> QED
  BY <1>1, <1>2, TopSeen

\* The steps that finish sigaction, sigprocmask, and system.
LEMMA CallStepsSeen ==
  ASSUME SignalInv, SignalInv', SeenInv, NEW t \in Thread,
         \/ \E how \in How, set \in MaskOf : Sigprocmask(t, how, set)
         \/ AdjustAction(t) \/ InstallAction(t) \/ RealSigprocmask(t)
         \/ System(t) \/ SystemReturn(t)
  PROVE  ViewStep
<1>0. StacksOK /\ StacksOK' /\ kern \in [Sig -> KernRecord]
  BY DEF SignalInv, TableTypes
<1>1. th[t] # <<>> /\ status' = status /\ SameReads
  BY DEF AdjustAction, InstallAction, System, SystemReturn, Sigprocmask, RealSigprocmask,
     Call, At, SameReads, tableVars, histVars
<1>2. Top(t) \in Frame /\ FrameOK(Top(t), Len(th[t]), shoot)
  BY <1>0, <1>1, RunFacts
<1>3. ASSUME NEW f, SetTop(t, f), AsSeen(f) = AsSeen(Top(t)),
             f.at \in {"run", "install", "system"} \cup How
      PROVE  SeenInv' /\ ApplStack' = ApplStack
  <2>1. f.at \notin ReadLoc
    BY <1>3 DEF ReadLoc, How
  <2> QED
    BY <1>0, <1>1, <1>3, <2>1, GoesOnUnseen
<1>4. SeenInv' /\ ApplStack' = ApplStack
  <2>1. CASE AdjustAction(t)
    <3> DEFINE f == [Top(t) EXCEPT !.at = "install"]
    <3>1. SetTop(t, f)
      BY <2>1 DEF AdjustAction, Goto
    <3>2. f.at = "install" /\ AsSeen(f) = AsSeen(Top(t))
      BY <1>2 DEF Frame, AsSeen
    <3> HIDE DEF f
    <3> QED
      BY <1>3, <3>1, <3>2
  <2>2. CASE InstallAction(t)
    <3> DEFINE f == [Top(t) EXCEPT !.at = "run", !.on = NoSig]
    <3>1. SetTop(t, f)
      BY <2>2 DEF InstallAction
    <3>2. f.at = "run" /\ AsSeen(f) = AsSeen(Top(t))
      BY <1>2 DEF Frame, AsSeen
    <3> HIDE DEF f
    <3> QED
      BY <1>3, <3>1, <3>2
  <2>3. CASE System(t)
    <3> DEFINE old == [s \in SystemIgnores |-> kern[s]]
               f == [Top(t) EXCEPT !.at = "system", !.saved = mask[t], !.old = old]
    <3>1. SetTop(t, f)
      BY <2>3 DEF System
    <3> HIDE DEF old
    <3>2. f.at = "system" /\ AsSeen(f) = AsSeen(Top(t))
      BY <1>2 DEF Frame, AsSeen
    <3> HIDE DEF f
    <3> QED
      BY <1>3, <3>1, <3>2
  <2>4. CASE SystemReturn(t)
    <3> DEFINE f == [Top(t) EXCEPT !.at = "run", !.saved = {}, !.old = NoOld]
    <3>1. SetTop(t, f)
      BY <2>4 DEF SystemReturn
    <3>2. f.at = "run" /\ AsSeen(f) = AsSeen(Top(t))
      BY <1>2 DEF Frame, AsSeen
    <3> HIDE DEF f
    <3> QED
      BY <1>3, <3>1, <3>2
  <2>5. ASSUME NEW how \in How, NEW set \in MaskOf, Sigprocmask(t, how, set)
        PROVE  SeenInv' /\ ApplStack' = ApplStack
    <3> DEFINE f == [Top(t) EXCEPT !.at = how, !.set = RemoveClientSignals(t, set, how)]
    <3>1. SetTop(t, f)
      BY <2>5 DEF Sigprocmask
    <3>2. f.at = how /\ AsSeen(f) = AsSeen(Top(t))
      BY <1>2 DEF Frame, AsSeen
    <3> HIDE DEF f
    <3> QED
      BY <1>3, <3>1, <3>2
  <2>6. CASE RealSigprocmask(t)
    <3> DEFINE f == [Top(t) EXCEPT !.at = "run", !.set = {}]
    <3>1. SetTop(t, f)
      BY <2>6 DEF RealSigprocmask
    <3>2. f.at = "run" /\ AsSeen(f) = AsSeen(Top(t))
      BY <1>2 DEF Frame, AsSeen
    <3> HIDE DEF f
    <3> QED
      BY <1>3, <3>1, <3>2
  <2> QED
    BY <2>1, <2>2, <2>3, <2>4, <2>5, <2>6
<1>5. ManagedOnly
  <2>1. CASE AdjustAction(t) \/ RealSigprocmask(t)
             \/ \E how \in How, set \in MaskOf : Sigprocmask(t, how, set)
    BY <2>1 DEF AdjustAction, Sigprocmask, RealSigprocmask, tableVars, ManagedOnly
  <2>2. CASE InstallAction(t)
    <3>1. Top(t).on \in Managed
      BY <1>2, <2>2 DEF InstallAction, At, FrameOK
    <3>2. kern' = [kern EXCEPT ![Top(t).on] =
                     [by |-> "monitor", mask |-> kernAct[Top(t).on]]]
      BY <2>2 DEF InstallAction
    <3> QED
      BY <1>0, <3>1, <3>2 DEF ManagedOnly
  <2>3. CASE System(t) \/ SystemReturn(t)
    <3>1. \A s \in Sig \ SystemIgnores : kern'[s] = kern[s]
      BY <2>3 DEF System, SystemReturn
    <3> QED
      BY <3>1, Constants DEF ManagedOnly
  <2> QED
    BY <2>1, <2>2, <2>3
<1>6. ApplDisp' = ApplDisp
  BY <1>1, <1>5, DispSame DEF ManagedOnly, SameReads
<1> QED
  BY <1>1, <1>4, <1>6, UnseenStep DEF Unseen, SameReads

-----------------------------------------------------------------------------
(* A signal arrives, and its handler returns. *)

LEMMA TablesUnseen ==
  ASSUME UNCHANGED tableVars, UNCHANGED histVars
  PROVE  ApplDisp' = ApplDisp /\ SameReads
BY DispSame DEF tableVars, histVars, SameReads

LEMMA DeliverSeen ==
  ASSUME SignalInv, SeenInv, NEW t \in Thread, NEW s \in Sig,
         Deliver(t, s) \/ DeliverShootdown(t, s)
  PROVE  ViewStep
<1>0. TableTypes /\ KernPart /\ StacksOK
  BY DEF SignalInv
<1>1. status' = status /\ UNCHANGED tableVars /\ UNCHANGED histVars
  BY DEF Deliver, DeliverShootdown
<1>2. kern[s].mask \in SUBSET Sig /\ s \in Managed
  BY <1>0 DEF TableTypes, KernRecord, KernPart, Deliver, DeliverShootdown
<1>3. ApplDisp' = ApplDisp /\ SameReads
  BY <1>1, TablesUnseen
<1>4. SeenInv' /\ ApplStack' = ApplStack
  <2>1. PICK m \in SUBSET Sig : m = kern[s].mask
    BY <1>2
  <2>2. PICK l \in {"handler", "fini", "late"} : Push(t, s, m, l, NoHandler)
    BY <2>1 DEF Deliver, DeliverShootdown
  <2>3. PICK h \in Handler \cup {NoHandler} : h = NoHandler
    OBVIOUS
  <2>4. Push(t, s, m, l, h) /\ Pushable(s, l, h)
    BY <1>2, <2>2, <2>3 DEF Pushable
  <2> QED
    BY <1>0, <1>3, <2>3, <2>4, PushSeen
<1> QED
  BY <1>1, <1>3, <1>4, UnseenStep DEF Unseen, SameReads

\* Signals that monitor leaves to the system behave as without it; one that monitor
\* manages finds the default only when the process is at its end.
LEMMA DeliverRawSeen ==
  ASSUME SignalInv, EndPart, SeenInv, NEW t \in Thread, NEW s \in Sig, DeliverRaw(t, s)
  PROVE  ViewStep
<1>0. TableTypes /\ KernPart /\ StacksOK
  BY DEF SignalInv
<1>1. UNCHANGED tableVars /\ UNCHANGED histVars /\ status # "dead"
  BY DEF DeliverRaw, Arrives
<1>2. ApplDisp' = ApplDisp /\ SameReads
  BY <1>1, TablesUnseen
<1>3. kern[s].mask \in SUBSET Sig
  BY <1>0 DEF TableTypes, KernRecord
<1>4. CASE kern[s].by \in Handler
  <2>1. Push(t, s, kern[s].mask, "run", kern[s].by) /\ status' = status
    BY <1>4 DEF DeliverRaw
  <2>2. ApplDisp[s] = kern[s].by /\ kern[s].by # NoHandler
    BY <1>4, DispFacts, Constants
  <2>3. PICK h \in Handler : h = kern[s].by
    BY <1>4
  <2>4. PICK m \in SUBSET Sig : m = kern[s].mask
    BY <1>3
  <2>5. PICK l : l = "run"
    OBVIOUS
  <2>6. Push(t, s, m, l, h) /\ h # NoHandler /\ Pushable(s, l, h)
    <3>1. Push(t, s, m, l, h)
      BY <2>1, <2>3, <2>4, <2>5
    <3> QED
      BY <2>2, <2>3, <2>5, <3>1 DEF Pushable
  <2>7. SeenInv' /\ ApplStack' = [ApplStack EXCEPT ![t] =
                       Append(ApplStack[t], [sig |-> s, hand |-> h])]
    BY <1>0, <1>2, <2>6, PushSeen
  <2> QED
    BY <1>2, <1>4, <2>1, <2>2, <2>3, <2>7, HandleStep DEF SameReads
<1>5. CASE kern[s].by \notin Handler
  <2>1. kern[s].by = "dfl" /\ s \in Fatal /\ status' = "dead" /\ th' = th
    BY <1>5 DEF DeliverRaw
  <2>2. SeenInv' /\ ApplStack' = ApplStack
    BY <1>2, <2>1, StacksSeen
  <2>3. CASE s \in Managed
    <3>1. status = "signalled"
      BY <1>1, <2>1, <2>3 DEF EndPart, Raised
    <3> QED
      BY <1>1, <1>2, <2>1, <2>2, <3>1, ViewEnd DEF SameReads
  <2>4. CASE s \notin Managed
    <3>1. ApplDisp[s] = "dfl"
      BY <2>1, <2>4, DispFacts
    <3> QED
      BY <1>1, <1>2, <2>1, <2>2, <3>1, StrikeStep DEF SameReads
  <2> QED
    BY <2>3, <2>4
<1> QED
  BY <1>4, <1>5

\* The handler of monitor has found nobody to run or does not end the process, or a
\* handler of the application has run.
LEMMA PopsSeen ==
  ASSUME SignalInv, SeenInv, NEW t \in Thread, Len(th[t]) > 1, Pop(t), status' = status,
         UNCHANGED tableVars, UNCHANGED histVars
  PROVE  ViewStep
<1>0. StacksOK
  BY DEF SignalInv
<1>1. ApplDisp' = ApplDisp /\ SameReads
  BY TablesUnseen
<1>2. CASE Top(t).hand = NoHandler
  BY <1>0, <1>1, <1>2, PopSeen, UnseenStep DEF Unseen, SameReads
<1>3. CASE Top(t).hand # NoHandler
  BY <1>0, <1>1, <1>3, PopSeen, ReturnStep DEF SameReads
<1> QED
  BY <1>2, <1>3

\* What is known of a thread in the handler of monitor.
LEMMA InHandler ==
  ASSUME SignalInv, SeenInv, NEW t \in Thread, NEW l \in {"handler", "default", "apply", "fault"},
         At(t, l)
  PROVE  /\ th[t] # <<>> /\ Top(t) \in Frame /\ status # "dead" /\ Top(t).at = l
         /\ Top(t).hand = NoHandler /\ Top(t).sig \in Managed /\ Top(t).sig \in Sig
         /\ SeenOK(Top(t)) /\ ApplDisp[Top(t).sig] = appl[Top(t).sig].hand
         /\ appl[Top(t).sig].hand \in Disposition
<1>0. StacksOK /\ appl \in [Sig -> ApplRecord]
  BY DEF SignalInv, TableTypes
<1>1. th[t] # <<>> /\ Top(t).at = l /\ status # "dead"
  BY DEF At
<1>2. Top(t) \in Frame /\ FrameOK(Top(t), Len(th[t]), shoot) /\ SeenOK(Top(t))
  BY <1>0, <1>1, RunFacts, TopSeenOK
<1>3. Top(t).hand = NoHandler /\ Top(t).sig # NoSig
  BY <1>1, <1>2 DEF FrameOK, HandOK, HandlerLoc
<1>4. Top(t).sig \in Managed /\ Top(t).sig \in Sig
  BY <1>2, <1>3, Constants DEF SeenOK
<1>5. appl[Top(t).sig].hand \in Disposition
  BY <1>0, <1>4 DEF ApplRecord
<1> QED
  BY <1>1, <1>2, <1>3, <1>4, <1>5, DispFacts

\* Monitor's handler goes on to location l.
LEMMA GotoSeen ==
  ASSUME StacksOK, StacksOK', SeenInv, NEW t \in Thread, th[t] # <<>>, NEW l, Goto(t, l),
         SameReads, NEW f, f = [Top(t) EXCEPT !.at = l], SeenOK(f)
  PROVE  SeenInv' /\ ApplStack' = ApplStack
<1>1. SetTop(t, f) /\ Top(t) \in Frame
  BY RunFacts DEF Goto
<1>2. f \in Frame
  BY <1>1, TopTyped
<1>3. AsSeen(f) = AsSeen(Top(t))
  BY <1>1 DEF AsSeen, Frame
<1> QED
  BY <1>1, <1>2, <1>3, TopSeen

\* Each test of the disposition finds what the next one may not.
LEMMA TestsSeen ==
  ASSUME SignalInv, SignalInv', SeenInv, NEW t \in Thread,
         TestIgnore(t) \/ NotDefault(t) \/ (ApplyHandler(t) /\ Goto(t, "fault"))
  PROVE  ViewStep
<1>0. StacksOK /\ StacksOK'
  BY DEF SignalInv
<1>1. UNCHANGED tableVars /\ UNCHANGED histVars /\ status' = status
  BY DEF TestIgnore, NotDefault, ApplyHandler
<1>2. ApplDisp' = ApplDisp /\ SameReads
  BY <1>1, TablesUnseen
<1>3. PICK l \in {"handler", "default", "apply", "fault"} : At(t, l)
  BY DEF TestIgnore, NotDefault, ApplyHandler
<1>4. /\ th[t] # <<>> /\ Top(t) \in Frame /\ Top(t).hand = NoHandler
      /\ Top(t).sig \in Managed /\ SeenOK(Top(t)) /\ Top(t).at = l
      /\ appl[Top(t).sig].hand \in Disposition
  BY <1>3, InHandler
<1>5. ASSUME NEW m \in ReadLoc, Goto(t, m),
             m = "default" => appl[Top(t).sig].hand # "ign",
             m = "apply" => appl[Top(t).sig].hand \in Handler \/ Top(t).sig \in loose,
             m = "fault" => Top(t).sig \in loose
      PROVE  ViewStep
  <2> DEFINE f == [Top(t) EXCEPT !.at = m]
  <2>1. f.at = m /\ f.sig = Top(t).sig /\ f.hand = Top(t).hand
    BY <1>4 DEF Frame
  <2> HIDE DEF f
  <2>2. SeenOK(f)
    BY <1>4, <1>5, <2>1 DEF SeenOK, ReadLoc
  <2>3. SeenInv' /\ ApplStack' = ApplStack
    BY <1>0, <1>2, <1>4, <1>5, <2>2, GotoSeen DEF f
  <2> QED
    BY <1>1, <1>2, <2>3, UnseenStep DEF Unseen, SameReads
<1>6. CASE TestIgnore(t)
  <2>1. CASE Pop(t)
    <3>1. Top(t).at \in HandlerLoc
      BY <1>6 DEF TestIgnore, At, HandlerLoc
    <3> QED
      BY <1>0, <1>1, <1>4, <2>1, <3>1, PopFrom, PopsSeen
  <2>2. CASE appl[Top(t).sig].hand # "ign" /\ Goto(t, "default")
    BY <1>5, <2>2 DEF ReadLoc
  <2> QED
    BY <1>6, <2>1, <2>2 DEF TestIgnore
<1>7. CASE NotDefault(t)
  <2>1. /\ Top(t).at = "default" /\ appl[Top(t).sig].hand # "dfl" /\ Goto(t, "apply")
    BY <1>7 DEF NotDefault, At
  <2>2. appl[Top(t).sig].hand \in Handler \/ Top(t).sig \in loose
    BY <1>4, <2>1 DEF SeenOK, Disposition
  <2> QED
    BY <1>5, <2>1, <2>2 DEF ReadLoc
<1>8. CASE ApplyHandler(t) /\ Goto(t, "fault")
  <2>1. Top(t).at = "apply"
    BY <1>8 DEF ApplyHandler, At
  <2>2. CASE appl[Top(t).sig].hand \notin Handler
    <3>1. Top(t).sig \in loose
      BY <1>4, <2>1, <2>2 DEF SeenOK
    <3> QED
      BY <1>5, <1>8, <3>1 DEF ReadLoc
  <2>3. CASE appl[Top(t).sig].hand \in Handler
    <3> DEFINE h == appl[Top(t).sig].hand
               g == [Top(t) EXCEPT !.at = "run", !.hand = h]
    <3>1. SetTop(t, g)
      BY <1>8, <2>3 DEF ApplyHandler
    <3> HIDE DEF h
    <3>2. g.at = "run"
      BY <1>4 DEF Frame
    <3> HIDE DEF g
    <3>3. g.at = "fault"
      BY <1>0, <1>4, <1>8, <3>1, GotoFrame
    <3> QED
      BY <3>2, <3>3
  <2> QED
    BY <2>2, <2>3
<1> QED
  BY <1>6, <1>7, <1>8

LEMMA ApplySeen ==
  ASSUME SignalInv, SignalInv', SeenInv, NEW t \in Thread, ApplyDefault(t) \/ ApplyHandler(t)
  PROVE  ViewStep
<1>0. StacksOK /\ StacksOK'
  BY DEF SignalInv
<1>1. UNCHANGED tableVars /\ UNCHANGED histVars
  BY DEF ApplyDefault, ApplyHandler
<1>2. ApplDisp' = ApplDisp /\ SameReads
  BY <1>1, TablesUnseen
<1>3. PICK l \in {"handler", "default", "apply", "fault"} : At(t, l)
  BY DEF ApplyDefault, ApplyHandler
<1>4. /\ th[t] # <<>> /\ Top(t) \in Frame /\ status # "dead" /\ Top(t).hand = NoHandler
      /\ Top(t).sig \in Managed /\ Top(t).sig \in Sig /\ SeenOK(Top(t))
      /\ ApplDisp[Top(t).sig] = appl[Top(t).sig].hand
  BY <1>3, InHandler
<1>5. CASE ApplyDefault(t)
  <2> DEFINE f == [Top(t) EXCEPT !.at = "ending"]
  <2>1. SetTop(t, f) /\ status' = "signalled"
    BY <1>5 DEF ApplyDefault, Goto
  <2>2. f.at = "ending" /\ AsSeen(f) = AsSeen(Top(t))
    BY <1>4 DEF Frame, AsSeen
  <2> HIDE DEF f
  <2>3. SeenInv' /\ ApplStack' = ApplStack
    BY <1>0, <1>2, <1>4, <2>1, <2>2, GoesOnUnseen DEF ReadLoc
  <2>4. ApplDisp[Top(t).sig] = "dfl" /\ Top(t).sig \in Fatal
    BY <1>4, <1>5 DEF ApplyDefault, DefaultEnds, Fatal
  <2> QED
    BY <1>2, <1>4, <2>1, <2>3, <2>4, StrikeStep DEF SameReads
<1>6. CASE ApplyHandler(t)
  <2> DEFINE h == appl[Top(t).sig].hand
             f == [Top(t) EXCEPT !.at = "run", !.hand = h]
  <2>1. \/ h \in Handler /\ SetTop(t, f)
        \/ Goto(t, "fault")
    BY <1>6 DEF ApplyHandler
  <2>2. status' = status
    BY <1>6 DEF ApplyHandler
  <2>3. CASE Goto(t, "fault")
    BY <1>6, <2>3, TestsSeen
  <2>4. CASE h \in Handler /\ SetTop(t, f)
    <3>1. ApplDisp[Top(t).sig] = h
      BY <1>4
    <3> HIDE DEF h
    <3>2. f.at = "run" /\ f.sig = Top(t).sig /\ f.hand = h
      BY <1>4 DEF Frame
    <3>3. SetTop(t, f) /\ h \in Handler
      BY <2>4
    <3> HIDE DEF f
    <3>4. f \in Frame
      BY <1>0, <1>4, <3>3, TopTyped
    <3>5. f.hand # NoHandler /\ SeenOK(f) /\ AsSeen(f) = [sig |-> Top(t).sig, hand |-> h]
      BY <3>2, <3>3, Constants DEF AsSeen, SeenOK
    <3>6. SeenInv' /\ ApplStack' = [ApplStack EXCEPT ![t] =
                         Append(ApplStack[t], [sig |-> Top(t).sig, hand |-> h])]
      BY <1>0, <1>2, <1>4, <3>3, <3>4, <3>5, TopEnters
    <3>7. PICK s \in Sig : s = Top(t).sig
      BY <1>4
    <3> QED
      BY <1>2, <2>2, <3>1, <3>3, <3>6, <3>7, HandleStep DEF SameReads
  <2> QED
    BY <2>1, <2>3, <2>4
<1> QED
  BY <1>5, <1>6

\* A handler that is no function was changed at a bad time.
LEMMA FaultSeen ==
  ASSUME SignalInv, SeenInv, NEW t \in Thread, Fault(t)
  PROVE  ViewStep
<1>1. UNCHANGED tableVars /\ UNCHANGED histVars /\ th' = th /\ status' = "dead"
  BY DEF Fault
<1>2. ApplDisp' = ApplDisp /\ SameReads
  BY <1>1, TablesUnseen
<1>3. SeenInv' /\ ApplStack' = ApplStack
  BY <1>1, <1>2, StacksSeen
<1>4. Top(t).at = "fault" /\ SeenOK(Top(t))
  BY InHandler DEF Fault
<1>5. loose # {}
  BY <1>4 DEF SeenOK
<1> QED
  BY <1>1, <1>2, <1>3, <1>5, CrashStep DEF SameReads

-----------------------------------------------------------------------------
(* The end of the process, and new images. *)

\* The handler that ends the process does not show, and what it does to the
\* kernel is about signals that monitor manages.
LEMMA TailSeen ==
  ASSUME SignalInv, SignalInv', SeenInv, NEW t \in Thread,
         WinOver(t) \/ ClearMask(t) \/ ResetAction(t)
  PROVE  ViewStep
<1>0. StacksOK /\ StacksOK' /\ kern \in [Sig -> KernRecord]
  BY DEF SignalInv, TableTypes
<1>1. th[t] # <<>> /\ SameReads /\ status' = status
  BY DEF WinOver, ClearMask, ResetAction, At, SameReads, tableVars, histVars
<1>2. /\ Top(t) \in Frame /\ FrameOK(Top(t), Len(th[t]), shoot) /\ SeenOK(Top(t))
  BY <1>0, <1>1, RunFacts, TopSeenOK
<1>3. PICK l \in {"ending", "run", "reset", "bare"} : Goto(t, l)
  BY DEF WinOver, ClearMask, ResetAction
<1>4. SeenInv' /\ ApplStack' = ApplStack
  <2> DEFINE f == [Top(t) EXCEPT !.at = l]
  <2>1. SetTop(t, f)
    BY <1>3 DEF Goto
  <2>2. f.at = l /\ AsSeen(f) = AsSeen(Top(t))
    BY <1>2 DEF Frame, AsSeen
  <2> HIDE DEF f
  <2> QED
    BY <1>0, <1>1, <2>1, <2>2, GoesOnUnseen DEF ReadLoc
<1>5. ManagedOnly
  <2>1. CASE WinOver(t) \/ ClearMask(t)
    BY <2>1 DEF WinOver, ClearMask, tableVars, ManagedOnly
  <2>2. CASE ResetAction(t)
    <3>1. /\ Top(t).at = "ending"
          /\ kern' = [kern EXCEPT ![Top(t).sig] = [by |-> "dfl", mask |-> {}]]
      BY <2>2 DEF ResetAction, At
    <3>2. Top(t).sig \in Managed
      BY <1>2, <3>1 DEF FrameOK, HandOK, HandlerLoc, SeenOK
    <3> QED
      BY <1>0, <3>1, <3>2 DEF ManagedOnly
  <2> QED
    BY <2>1, <2>2
<1>6. ApplDisp' = ApplDisp
  BY <1>1, <1>5, DispSame DEF ManagedOnly, SameReads
<1> QED
  BY <1>1, <1>4, <1>6, UnseenStep DEF Unseen, SameReads

LEMMA WinSeen ==
  ASSUME SignalInv, SignalInv', SeenInv, NEW t \in Thread, Win(t)
  PROVE  ViewStep
<1>0. /\ TableTypes /\ StacksOK /\ StacksOK' /\ kern \in [Sig -> KernRecord]
      /\ shoot \in Sig \ Avoid
  BY DEF SignalInv, TableTypes
<1>1. th[t] # <<>> /\ SameReads /\ status # "dead"
  BY DEF Win, At, SameReads, histVars
<1>2. Top(t) \in Frame
  BY <1>0, <1>1, RunFacts
<1>3. SeenInv' /\ ApplStack' = ApplStack
  <2> DEFINE f == [Top(t) EXCEPT !.at = "winning"]
  <2>1. SetTop(t, f)
    BY DEF Win, Goto
  <2>2. f.at = "winning" /\ AsSeen(f) = AsSeen(Top(t))
    BY <1>2 DEF Frame, AsSeen
  <2> HIDE DEF f
  <2> QED
    BY <1>0, <1>1, <2>1, <2>2, GoesOnUnseen DEF ReadLoc
<1>4. ManagedOnly
  <2>1. CASE kern' = kern
    BY <2>1 DEF ManagedOnly
  <2>2. CASE kern' # kern
    <3>1. /\ shoot \notin Invalid
          /\ kern' = [kern EXCEPT ![shoot] = [by |-> "shootdown", mask |-> {}]]
      BY <2>2 DEF Win
    <3>2. shoot \in Managed
      BY <1>0, <3>1 DEF Managed
    <3> QED
      BY <1>0, <3>1, <3>2 DEF ManagedOnly
  <2> QED
    BY <2>1, <2>2
<1>5. ApplDisp' = ApplDisp
  BY <1>1, <1>4, DispSame DEF ManagedOnly, SameReads
<1>6. status' = "dead" \/ (status = "up" /\ status' = "exiting") \/ status' = status
  BY DEF Win
<1>7. CASE status' = status
  BY <1>1, <1>3, <1>5, <1>7, UnseenStep DEF Unseen, SameReads
<1>8. CASE status' = "dead" \/ (status = "up" /\ status' = "exiting")
  <2>1. status \in {"up", "exiting", "signalled"}
    BY <1>0, <1>1 DEF TableTypes
  <2> QED
    BY <1>1, <1>3, <1>5, <1>8, <2>1, ViewEnd DEF SameReads
<1> QED
  BY <1>6, <1>7, <1>8

LEMMA StatusSeen ==
  ASSUME SignalInv, SeenInv, NEW t \in Thread, ExitAgain(t) \/ ExecFails(t)
  PROVE  ViewStep
<1>1. /\ th' = th /\ UNCHANGED tableVars /\ UNCHANGED histVars /\ status # "dead"
      /\ (status = "up" /\ status' = "exiting") \/ status' = "up"
  BY DEF ExitAgain, ExecFails
<1>2. ApplDisp' = ApplDisp /\ SameReads
  BY <1>1, TablesUnseen
<1>3. SeenInv' /\ ApplStack' = ApplStack
  BY <1>1, <1>2, StacksSeen
<1> QED
  BY <1>1, <1>2, <1>3, ViewEnd DEF SameReads

LEMMA DieSeen ==
  ASSUME SignalInv, SeenInv, NEW t \in Thread, Die(t)
  PROVE  ViewStep
<1>1. /\ status \in {"exiting", "signalled"} /\ status' = "dead"
      /\ th' = [u \in Thread |-> <<>>] /\ UNCHANGED tableVars /\ UNCHANGED histVars
  BY DEF Die
<1>2. PICK S : th' = [u \in Thread |-> IF u \in S THEN <<Base>> ELSE <<>>]
  <2>1. th' = [u \in Thread |-> IF u \in {} THEN <<Base>> ELSE <<>>]
    BY <1>1
  <2> QED
    BY <2>1
<1>3. SeenInv' /\ ApplStack' = [u \in Thread |-> <<>>]
  BY <1>2, NoneSeen
<1>4. ApplDisp' = ApplDisp /\ loose' = loose
  BY <1>1, TablesUnseen DEF SameReads
<1> QED
  BY <1>1, <1>3, <1>4, ViewEnd

LEMMA ExecSeen ==
  ASSUME SignalInv, SeenInv, NEW t \in Thread, Exec(t)
  PROVE  ViewStep
<1>1. /\ status # "dead" /\ status' = "up" /\ loose' = {}
      /\ th' = [u \in Thread |-> IF u \in {Main} THEN <<Base>> ELSE <<>>]
  BY DEF Exec, At
<1>2. SeenInv' /\ ApplStack' = [u \in Thread |-> <<>>]
  BY <1>1, NoneSeen
<1>3. PICK env \in FromEnv : /\ appl' = Fresh(KeptByExec, env).appl
                             /\ kern' = Fresh(KeptByExec, env).kern
  BY DEF Exec
<1>4. \A s \in Sig : KeptByExec[s] \in {"dfl", "ign"}
  BY DEF KeptByExec
<1>5. /\ \A s \in Sig : appl'[s].hand = KeptByExec[s]
      /\ \A s \in Sig \ Managed : kern'[s].by = KeptByExec[s]
  BY <1>3 DEF Fresh
<1>6. ApplDisp' = [s \in Sig |-> KeptByExec[s]]
  <2>1. ApplDisp' = [s \in Sig |-> IF s \in Managed THEN appl'[s].hand ELSE kern'[s].by]
    BY DEF ApplDisp
  <2> QED
    BY <1>5, <2>1
<1>7. ApplDisp' \in [Sig -> {"dfl", "ign"}]
  BY <1>4, <1>6
<1> QED
  BY <1>1, <1>2, <1>7, NewImageStep

-----------------------------------------------------------------------------
(* Theorems. *)

LEMMA InitSeen ==
  ASSUME Init
  PROVE  SeenInv /\ View!Init
<1>1. PICK ign \in InheritedIgn, env \in FromEnv :
        LET f == Fresh([s \in Sig |-> IF s \in ign THEN "ign" ELSE "dfl"], env) IN
        appl = f.appl /\ kern = f.kern
  BY DEF Init
<1> DEFINE inh == [s \in Sig |-> IF s \in ign THEN "ign" ELSE "dfl"]
<1>2. appl = Fresh(inh, env).appl /\ kern = Fresh(inh, env).kern
  BY <1>1
<1>3. \A s \in Sig : inh[s] \in {"dfl", "ign"}
  OBVIOUS
<1> HIDE DEF inh
<1>4. /\ \A s \in Sig : appl[s].hand = inh[s]
      /\ \A s \in Sig \ Managed : kern[s].by = inh[s]
  BY <1>2 DEF Fresh
<1>5. ApplDisp \in [Sig -> {"dfl", "ign"}]
  BY <1>3, <1>4 DEF ApplDisp
<1>6. /\ th = [t \in Thread |-> IF t = Main THEN <<Base>> ELSE <<>>] /\ status = "up"
      /\ loose = {}
  BY DEF Init
<1>7. \A t \in Thread : th[t] = <<Base>> \/ th[t] = <<>>
  BY <1>6
<1>8. SeenInv
  <2>1. ASSUME NEW t \in Thread, NEW i \in 1..Len(th[t])
        PROVE  th[t][i] = Base
    BY <1>7
  <2>2. Base.at = "run" /\ Base.sig = NoSig
    BY DEF Base
  <2> QED
    BY <2>1, <2>2 DEF SeenInv, SeenOK
<1>9. ApplStack = [t \in Thread |-> <<>>]
  <2>1. \A t \in Thread : Handlers(th[t]) = <<>>
    BY <1>7, HandlersNone
  <2> QED
    BY <2>1 DEF ApplStack
<1> QED
  BY <1>5, <1>6, <1>8, <1>9 DEF View!Init

LEMMA StepSeen ==
  ASSUME SignalInv, SignalInv', EndPart, SeenInv, [Next]_vars
  PROVE  ViewStep
<1>0. StacksOK
  BY DEF SignalInv
<1>1. ASSUME NEW t \in Thread, CallStep(t)
      PROVE  ViewStep
  <2>1. ASSUME NEW s \in Sig, NEW act \in Act[s],
               StoreAction(t, s, act) \/ AvoidAction(t, s, act)
        PROVE  ViewStep
    BY <2>1, StoreActionSeen, AvoidActionSeen
  <2>2. ASSUME NEW s \in Sig, ClientAction(t, s)
        PROVE  ViewStep
    BY <2>2, ClientActionSeen
  <2>3. ASSUME NEW u \in Thread, CreateThread(t, u)
        PROVE  ViewStep
    BY <2>3, CreateThreadSeen
  <2>4. CASE System(t) \/ \E how \in How, set \in MaskOf : Sigprocmask(t, how, set)
    BY <2>4, CallStepsSeen
  <2> QED
    BY <1>1, <2>1, <2>2, <2>3, <2>4 DEF CallStep
<1>2. ASSUME NEW t \in Thread, ClientAccepts(t) \/ ApplyNothing(t) \/ HandlerReturn(t)
                                 \/ ReturnBare(t)
      PROVE  ViewStep
  <2>1. status' = status /\ UNCHANGED tableVars /\ UNCHANGED histVars /\ Pop(t)
    BY <1>2 DEF ClientAccepts, ApplyNothing, HandlerReturn, ReturnBare
  <2>2. Len(th[t]) > 1
    <3>1. CASE HandlerReturn(t)
      BY <3>1 DEF HandlerReturn
    <3>2. CASE ClientAccepts(t) \/ ApplyNothing(t) \/ ReturnBare(t)
      <4>1. th[t] # <<>> /\ Top(t).at \in HandlerLoc
        BY <3>2 DEF ClientAccepts, ApplyNothing, ReturnBare, At, HandlerLoc
      <4> QED
        BY <1>0, <4>1, PopFrom
    <3> QED
      BY <1>2, <3>1, <3>2
  <2> QED
    BY <2>1, <2>2, PopsSeen
<1>3. ASSUME NEW t \in Thread, SignalStep(t)
      PROVE  ViewStep
  <2>1. ASSUME NEW s \in Sig, Deliver(t, s) \/ DeliverShootdown(t, s) \/ DeliverRaw(t, s)
        PROVE  ViewStep
    BY <2>1, DeliverSeen, DeliverRawSeen
  <2>2. CASE TestIgnore(t) \/ NotDefault(t)
    BY <2>2, TestsSeen
  <2>3. CASE ApplyDefault(t) \/ ApplyHandler(t)
    BY <2>3, ApplySeen
  <2>4. CASE Fault(t)
    BY <2>4, FaultSeen
  <2> QED
    BY <1>2, <1>3, <2>1, <2>2, <2>3, <2>4 DEF SignalStep
<1>4. ASSUME NEW t \in Thread, \/ AdjustAction(t) \/ InstallAction(t)
                               \/ RealSigprocmask(t) \/ SystemReturn(t)
      PROVE  ViewStep
  BY <1>4, CallStepsSeen
<1>5. ASSUME NEW t \in Thread, EndStep(t)
      PROVE  ViewStep
  <2>1. CASE WinOver(t) \/ ClearMask(t) \/ ResetAction(t)
    BY <2>1, TailSeen
  <2>2. CASE Win(t)
    BY <2>2, WinSeen
  <2>3. CASE ExitAgain(t) \/ ExecFails(t)
    BY <2>3, StatusSeen
  <2>4. CASE Die(t) \/ Exec(t)
    BY <2>4, DieSeen, ExecSeen
  <2> QED
    BY <1>2, <1>5, <2>1, <2>2, <2>3, <2>4 DEF EndStep
<1>6. CASE UNCHANGED vars
  <2>1. th' = th /\ UNCHANGED tableVars /\ UNCHANGED histVars /\ status' = status
    BY <1>6 DEF vars
  <2>2. ApplDisp' = ApplDisp /\ SameReads
    BY <2>1, TablesUnseen
  <2>3. SeenInv' /\ ApplStack' = ApplStack
    BY <2>1, <2>2, StacksSeen
  <2> QED
    BY <2>1, <2>2, <2>3, UnseenStep DEF Unseen, SameReads
<1>7. CASE Next
  <2>1. \/ \E t \in Thread :
             \/ CallStep(t) \/ SignalStep(t) \/ EndStep(t)
             \/ \/ AdjustAction(t) \/ InstallAction(t)
                \/ RealSigprocmask(t) \/ SystemReturn(t)
        \/ UNCHANGED vars
    BY <1>7 DEF Next
  <2> QED
    BY <2>1, <1>1, <1>3, <1>4, <1>5, <1>6
<1> QED
  BY <1>6, <1>7

\* What the application sees of signals it could see without monitor, for any
\* threads, signals and lists, however calls about one signal overlap: a handler
\* runs only while it is the disposition, and only a disposition that is the
\* default ends the process, or one that is changed between the reads that monitor's
\* handler makes of it.
THEOREM SignalsImplemented == Spec => ImplementsSignals
<1>1. Init => SeenInv /\ View!Init
  BY InitSeen
<1>2. SignalInv /\ SignalInv' /\ EndPart /\ SeenInv /\ [Next]_vars
        => SeenInv' /\ [View!Next]_View!vars
  BY StepSeen DEF ViewStep
<1>3. Spec => [](SignalInv /\ EndPart)
  BY FullInvariant, PTL
<1> QED
  BY <1>1, <1>2, <1>3, PTL DEF Spec, ImplementsSignals, View!Spec
=============================================================================
