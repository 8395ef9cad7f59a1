------------------------------ MODULE UiProofs ------------------------------
(***************************************************************************)
(* Proofs about the frames of the UI, what requests them, and the graph    *)
(* that is drawn in them.                                                  *)
(*                                                                         *)
(* FramePacer, for any number of threads and any periods: the loop sleeps  *)
(* through no request, and nothing waits for a frame longer than the       *)
(* maximum period.                                                         *)
(*                                                                         *)
(* TouchHandler, for any number of fingers and touches: each index is that *)
(* of one finger or released, whichever reports are lost, late or made up  *)
(* by the timeout.                                                         *)
(*                                                                         *)
(* GraphModel, for any blocks, ports and changes: when all messages are    *)
(* handled the model shows the scheduler's graph, and what the UI points   *)
(* to is alive at all times.                                               *)
(*                                                                         *)
(* FlowgraphEditors, for any groups however they are nested: every edit    *)
(* reaches the graph and the scheduler of the blocks it is about.          *)
(*                                                                         *)
(* BlockPlacement, for any blocks, links and UIs: an arrangement can be    *)
(* read from left to right, and a block stays where it was dragged last.   *)
(***************************************************************************)
EXTENDS FramePacer, TouchHandler, GraphModel, FlowgraphEditors,
        BlockPlacement, SelectionLemmas, FiniteSetTheorems, SequenceTheorems, TLAPS

-----------------------------------------------------------------------------
(* FramePacer.                                                             *)

\* The types, apart from those of the flags.
Numbers ==
  /\ since \in 0..MaxPeriod /\ sleepLeft \in 0..MaxPeriod
  /\ requesting \in [Threads -> {"no", "exchange", "push"}]
  /\ sdlEvents \subseteq {"frame", "input", "quit"}
  /\ loopPc \in {"wait", "sleep", "poll", "callbacks", "request", "should",
                 "draw", "drawn", "late", "ended"}
  /\ undrawn \subseteq Workers

Flags ==
  /\ dirty \in BOOLEAN /\ hasInput \in BOOLEAN /\ isRunning \in BOOLEAN
  /\ active \in BOOLEAN

LEMMA Types == PacerTypeOK <=> Numbers /\ Flags
  BY DEF PacerTypeOK, Numbers, Flags

-----------------------------------------------------------------------------
LEMMA NumbersInductive ==
  /\ PacerInit => Numbers
  /\ Numbers /\ [PacerNext]_pacerVars => Numbers'
<1>1. PacerInit => Numbers
  BY PacerAssumption DEF PacerInit, Numbers
<1>2. Numbers /\ UNCHANGED pacerVars => Numbers'
  BY DEF Numbers, pacerVars, requestVars, loopVars, dataVars, activeVars
<1>3. ASSUME Numbers, PacerNext
      PROVE  Numbers'
  <2> USE <1>3 DEF Numbers, Threads
  <2>1. ASSUME NEW w \in Workers, DataArrives(w) PROVE Numbers'
    BY <2>1 DEF DataArrives, loopVars, activeVars
  <2>2. ASSUME NEW w \in Workers, RequestByWorker(w) PROVE Numbers'
    BY <2>2 DEF RequestByWorker, RequestFrame, loopVars, dataVars, activeVars
  <2>3. CASE ExecuteLater
    BY <2>3 DEF ExecuteLater, requestVars, loopVars, dataVars
  <2>4. ASSUME NEW e \in {"input", "quit"}, UserEvent(e) PROVE Numbers'
    BY <2>4 DEF UserEvent, loopVars, dataVars, activeVars
  <2>5. CASE BeginWait
    <3>1. WaitTimeout \in 0..MaxPeriod
      BY PacerAssumption DEF WaitTimeout
    <3> QED BY <2>5, <3>1, PacerAssumption
            DEF BeginWait, requestVars, dataVars, activeVars
  <2>6. CASE WakeUp
    BY <2>6, PacerAssumption DEF WakeUp, requestVars, dataVars, activeVars
  <2>7. CASE PollEvent
    BY <2>7 DEF PollEvent, dataVars, activeVars
  <2>8. CASE FireCallbacks
    BY <2>8 DEF FireCallbacks, dataVars
  <2>9. CASE RequestOwnFrame
    BY <2>9 DEF RequestOwnFrame, RequestFrame, requestVars, loopVars, dataVars,
                activeVars
  <2>10. CASE Decide
    BY <2>10 DEF Decide, requestVars, loopVars, dataVars, activeVars
  <2>11. CASE DrawFrame
    BY <2>11 DEF DrawFrame, requestVars, loopVars, activeVars
  <2>12. CASE Rendered
    BY <2>12, PacerAssumption DEF Rendered, loopVars, dataVars, activeVars
  <2>13. CASE PacerTick
    <3>1. since' \in 0..MaxPeriod
      BY <2>13, PacerAssumption DEF PacerTick, AtMost
    <3>2. sleepLeft' \in 0..MaxPeriod /\ loopPc' \in {"sleep", "late"}
      BY <2>13, PacerAssumption DEF PacerTick
    <3> QED BY <2>13, <3>1, <3>2 DEF PacerTick, requestVars
  <2>14. CASE LoopEnded
    BY <2>14, <1>2 DEF LoopEnded
  <2> QED
    BY <2>1, <2>2, <2>3, <2>4, <2>5, <2>6, <2>7, <2>8, <2>9, <2>10, <2>11,
       <2>12, <2>13, <2>14 DEF PacerNext
<1> QED BY <1>1, <1>2, <1>3

LEMMA FlagsInductive ==
  /\ PacerInit => Flags
  /\ Flags /\ [PacerNext]_pacerVars => Flags'
<1>1. PacerInit => Flags
  BY Zenon DEF PacerInit, Flags
<1>2. Flags /\ UNCHANGED pacerVars => Flags'
  BY Zenon DEF Flags, pacerVars, requestVars, loopVars, dataVars, activeVars
<1>3. ASSUME Flags, PacerNext
      PROVE  Flags'
  <2> USE <1>3 DEF Flags, requestVars, loopVars, dataVars, activeVars
  <2>1. ASSUME NEW w \in Workers, DataArrives(w) \/ RequestByWorker(w)
        PROVE  Flags'
    BY <2>1, Zenon DEF DataArrives, RequestByWorker, RequestFrame
  <2>2. CASE ExecuteLater \/ \E e \in {"input", "quit"} : UserEvent(e)
    BY <2>2, Zenon DEF ExecuteLater, UserEvent
  <2>3. CASE BeginWait \/ WakeUp
    BY <2>3, Zenon DEF BeginWait, WakeUp
  <2>4. CASE PollEvent
    BY <2>4, Zenon DEF PollEvent
  <2>5. CASE FireCallbacks
    BY <2>5, Zenon DEF FireCallbacks
  <2>6. CASE RequestOwnFrame
    BY <2>6, Zenon DEF RequestOwnFrame, RequestFrame
  <2>7. CASE Decide \/ DrawFrame \/ Rendered
    BY <2>7, Zenon DEF Decide, DrawFrame, Rendered
  <2>8. CASE PacerTick \/ LoopEnded
    BY <2>8, <1>2, Zenon DEF PacerTick, LoopEnded
  <2> QED
    BY <2>1, <2>2, <2>3, <2>4, <2>5, <2>6, <2>7, <2>8, Zenon DEF PacerNext
<1> QED BY <1>1, <1>2, <1>3

\* The pacer and the loop keep their types; in particular the loop never sleeps
\* for a negative time.
THEOREM PacerTypeCorrect == PacerSpec => []PacerTypeOK
<1>1. PacerInit => PacerTypeOK
  BY Types, NumbersInductive, FlagsInductive
<1>2. PacerTypeOK /\ [PacerNext]_pacerVars => PacerTypeOK'
  <2>1. Numbers' /\ Flags' => PacerTypeOK'
    BY Zenon DEF PacerTypeOK, Numbers, Flags
  <2> QED BY <2>1, Types, NumbersInductive, FlagsInductive
<1> QED BY <1>1, <1>2, PTL DEF PacerSpec

-----------------------------------------------------------------------------
(* No request is slept through.                                            *)

LEMMA SleepingOn ==
  ASSUME NEW s \in Nat, NEW l \in Nat, NEW t \in Nat, NEW m \in Nat, t <= s + 1,
         t + (l - 1) > m
  PROVE  s + l > m
OBVIOUS

LEMMA WakesInductive ==
  ASSUME Numbers, RequestWakesLoop, PacerNext
  PROVE  RequestWakesLoop'
<1> USE DEF RequestWakesLoop, Numbers, Threads
<1>1. ASSUME NEW w \in Workers, DataArrives(w) PROVE RequestWakesLoop'
  BY <1>1 DEF DataArrives, loopVars
\* The thread that sets the flag has yet to push the event, and does.
<1>2. ASSUME NEW w \in Workers, RequestByWorker(w) PROVE RequestWakesLoop'
  <2>1. CASE requesting[w] = "exchange" /\ dirty
    BY <1>2, <2>1 DEF RequestByWorker, RequestFrame, loopVars
  <2>2. CASE requesting[w] = "exchange" /\ ~dirty
    BY <1>2, <2>2 DEF RequestByWorker, RequestFrame, loopVars
  <2>3. CASE requesting[w] = "push"
    BY <1>2, <2>3 DEF RequestByWorker, RequestFrame, loopVars
  <2> QED BY <1>2, <2>1, <2>2, <2>3 DEF RequestByWorker, RequestFrame
<1>3. CASE ExecuteLater
  BY <1>3 DEF ExecuteLater, requestVars, loopVars
<1>4. ASSUME NEW e \in {"input", "quit"}, UserEvent(e) PROVE RequestWakesLoop'
  BY <1>4 DEF UserEvent, loopVars
\* A loop that knows of the request sleeps for the minimum period at most.
<1>5. CASE BeginWait
  BY <1>5, PacerAssumption DEF BeginWait, WaitTimeout, requestVars
<1>6. CASE WakeUp \/ PollEvent \/ FireCallbacks \/ RequestOwnFrame
  BY <1>6 DEF WakeUp, PollEvent, FireCallbacks, RequestOwnFrame
<1>7. CASE Decide \/ DrawFrame \/ Rendered
  BY <1>7 DEF Decide, DrawFrame, Rendered
\* Sleeping on, the loop gets no further from the last frame.
<1>8. CASE PacerTick
  <2>1. since' <= since + 1
    BY <1>8, PacerAssumption DEF PacerTick, AtMost
  <2>2. CASE loopPc = "sleep"
    <3>1. sleepLeft' = sleepLeft - 1
      BY <1>8, <2>2 DEF PacerTick
    <3>2. UNCHANGED dirty /\ UNCHANGED requesting /\ UNCHANGED sdlEvents
      BY <1>8 DEF PacerTick, requestVars
    <3>3. since' \in Nat
      BY <1>8, PacerAssumption DEF PacerTick, AtMost
    <3>4. sleepLeft' > 0 => sleepLeft > 0
      BY <3>1
    <3>5. since' + sleepLeft' > MinPeriod => since + sleepLeft > MinPeriod
      <4>1. since \in Nat /\ sleepLeft \in Nat /\ MinPeriod \in Nat
        BY PacerAssumption
      <4>2. since' + (sleepLeft - 1) > MinPeriod => since + sleepLeft > MinPeriod
        BY <2>1, <3>3, <4>1, SleepingOn
      <4> QED BY <3>1, <4>2
    <3>6. SUFFICES ASSUME dirty, sleepLeft > 0, since + sleepLeft > MinPeriod
                   PROVE  sdlEvents # {} \/ \E w \in Workers : requesting[w] = "push"
      BY <3>2, <3>4, <3>5, Zenon DEF RequestWakesLoop
    <3> QED BY <2>2, <3>6, Zenon DEF RequestWakesLoop
  <2> QED BY <1>8, <2>2 DEF PacerTick
<1>9. CASE LoopEnded
  BY <1>9 DEF LoopEnded, pacerVars, requestVars, loopVars
<1> QED
  BY <1>1, <1>2, <1>3, <1>4, <1>5, <1>6, <1>7, <1>8, <1>9 DEF PacerNext

\* However many threads request frames, and whenever: the loop sleeps beyond the
\* minimum period over a request only if the event that wakes it is there or on
\* its way.
THEOREM RequestsWakeLoop == PacerSpec => []RequestWakesLoop
<1>1. PacerInit => Numbers /\ RequestWakesLoop
  BY NumbersInductive DEF PacerInit, RequestWakesLoop
<1>2. ASSUME Numbers /\ RequestWakesLoop, [PacerNext]_pacerVars
      PROVE  Numbers' /\ RequestWakesLoop'
  <2>1. CASE UNCHANGED pacerVars
    BY <1>2, <2>1, NumbersInductive
       DEF RequestWakesLoop, pacerVars, requestVars, loopVars
  <2> QED BY <1>2, <2>1, NumbersInductive, WakesInductive
<1> QED BY <1>1, <1>2, PTL DEF PacerSpec

-----------------------------------------------------------------------------
(* Nothing waits for longer than a period.                                 *)

\* How long the oldest data that is not drawn has waited: no longer than the last
\* frame was ago, or else since the frame that is drawn.
DataAge ==
  /\ age \in Nat
  /\ age <= CASE loopPc = "drawn" -> 0
              [] loopPc = "late"  -> 1
              [] OTHER            -> since + 1

\* How long a posted function has waited, unless the loop is about to end.
FunctionAge ==
  /\ activeAge \in Nat
  /\ isRunning =>
       activeAge <= CASE loopPc \in {"callbacks", "poll"} -> MaxPeriod + 1
                      [] loopPc = "sleep"            -> MaxPeriod + 1 - sleepLeft
                      [] loopPc \in {"wait", "late"} -> 1
                      [] OTHER                       -> 0

\* A sleep ends when the maximum period does.
SleepEnds == loopPc = "sleep" => sleepLeft = 0 \/ since + sleepLeft <= MaxPeriod

LEMMA SleepEndsInductive ==
  ASSUME Numbers, SleepEnds, PacerNext
  PROVE  SleepEnds'
<1> USE DEF SleepEnds, Numbers
<1>1. CASE BeginWait
  BY <1>1, PacerAssumption DEF BeginWait, WaitTimeout
<1>2. CASE PacerTick
  BY <1>2, PacerAssumption DEF PacerTick, AtMost
<1>3. CASE WakeUp \/ PollEvent \/ FireCallbacks \/ RequestOwnFrame \/ Decide
           \/ DrawFrame \/ Rendered
  BY <1>3 DEF WakeUp, PollEvent, FireCallbacks, RequestOwnFrame, Decide,
              DrawFrame, Rendered
<1>4. CASE UNCHANGED <<since, loopPc, sleepLeft>>
  BY <1>4
<1> QED
  BY <1>1, <1>2, <1>3, <1>4
     DEF PacerNext, DataArrives, RequestByWorker, ExecuteLater, UserEvent,
         LoopEnded, loopVars, pacerVars

LEMMA DataAgeInductive ==
  ASSUME Numbers, SleepEnds, DataAge, PacerNext
  PROVE  DataAge'
<1> USE DEF DataAge, Numbers
<1>1. CASE BeginWait \/ WakeUp \/ PollEvent \/ FireCallbacks \/ RequestOwnFrame
           \/ Decide
  BY <1>1 DEF BeginWait, WakeUp, PollEvent, FireCallbacks, RequestOwnFrame,
              Decide, dataVars
<1>2. CASE DrawFrame
  BY <1>2 DEF DrawFrame
<1>3. CASE Rendered
  BY <1>3 DEF Rendered, dataVars
<1>4. CASE PacerTick
  <2>1. CASE loopPc = "drawn"
    BY <1>4, <2>1, PacerAssumption DEF PacerTick, AtMost
  <2>2. CASE loopPc = "sleep" /\ sleepLeft > 0
    <3>1. since' = since + 1 /\ loopPc' = "sleep"
      BY <1>4, <2>2, PacerAssumption DEF PacerTick, AtMost, SleepEnds
    <3>2. age' \in Nat /\ age' <= age + 1
      BY <1>4, PacerAssumption DEF PacerTick, AtMost
    <3> QED BY <2>2, <3>1, <3>2
  <2> QED BY <1>4, <2>1, <2>2 DEF PacerTick
<1>5. CASE UNCHANGED <<since, loopPc, age>>
  BY <1>5
<1> QED
  BY <1>1, <1>2, <1>3, <1>4, <1>5
     DEF PacerNext, DataArrives, RequestByWorker, ExecuteLater, UserEvent,
         LoopEnded, dataVars, pacerVars

LEMMA FunctionAgeInductive ==
  ASSUME Numbers, FunctionAge, PacerNext
  PROVE  FunctionAge'
<1> USE DEF FunctionAge, Numbers
<1>1. CASE BeginWait
  BY <1>1, PacerAssumption DEF BeginWait, WaitTimeout, activeVars
<1>2. CASE WakeUp
  BY <1>2, PacerAssumption DEF WakeUp, activeVars
<1>3. CASE PollEvent
  BY <1>3 DEF PollEvent, activeVars
<1>4. CASE FireCallbacks
  BY <1>4 DEF FireCallbacks
<1>5. CASE RequestOwnFrame \/ Decide \/ DrawFrame \/ Rendered
  BY <1>5 DEF RequestOwnFrame, Decide, DrawFrame, Rendered, loopVars, activeVars
<1>6. CASE PacerTick
  <2>1. activeAge' \in Nat /\ activeAge' <= activeAge + 1
    BY <1>6, PacerAssumption DEF PacerTick, AtMost
  <2> QED BY <1>6, <2>1, PacerAssumption DEF PacerTick
<1>7. CASE UNCHANGED <<loopPc, sleepLeft, isRunning, activeAge>>
  BY <1>7
<1> QED
  BY <1>1, <1>2, <1>3, <1>4, <1>5, <1>6, <1>7
     DEF PacerNext, DataArrives, RequestByWorker, ExecuteLater, UserEvent,
         LoopEnded, loopVars, activeVars, pacerVars

\* Whatever the periods are, data waits for a frame, and a posted function for its
\* call, no longer than the maximum period and a frame, although rendered() may
\* drop the request and executeLater wakes nobody.
THEOREM NothingWaitsLonger == PacerSpec => []WaitsOnePeriodAtMost
<1> DEFINE Inv == Numbers /\ SleepEnds /\ DataAge /\ FunctionAge
<1>1. PacerInit => Inv
  BY NumbersInductive, PacerAssumption
     DEF PacerInit, SleepEnds, DataAge, FunctionAge
<1>2. ASSUME Inv, [PacerNext]_pacerVars PROVE Inv'
  <2>1. CASE UNCHANGED pacerVars
    BY <1>2, <2>1, NumbersInductive
       DEF SleepEnds, DataAge, FunctionAge, pacerVars, loopVars, dataVars, activeVars
  <2>2. CASE PacerNext
    BY <1>2, <2>2, NumbersInductive, SleepEndsInductive, DataAgeInductive,
       FunctionAgeInductive
  <2> QED BY <1>2, <2>1, <2>2
<1>3. Inv => WaitsOnePeriodAtMost
  BY PacerAssumption DEF Numbers, DataAge, FunctionAge, WaitsOnePeriodAtMost
<1> QED BY <1>1, <1>2, <1>3, PTL DEF PacerSpec

\* Both together: frames are drawn and functions called in time.
THEOREM PacerOnTime == PacerSpec => []PacerIsOnTime
<1>1. RequestWakesLoop /\ WaitsOnePeriodAtMost => PacerIsOnTime
  BY DEF PacerIsOnTime
<1> QED BY <1>1, RequestsWakeLoop, NothingWaitsLonger, PTL

-----------------------------------------------------------------------------
(* TouchHandler.                                                           *)

IndexTypes ==
  /\ fingerIdToIndex \in [Mapped -> Nat]
  /\ releasedIndices \in Seq(Nat)
  /\ nextAvailableIndex \in Nat

\* The indices of a map and of a stack.
IndicesOf(map) == {map[f] : f \in DOMAIN map}
InStack(s) == {s[k] : k \in 1..Len(s)}
OneToOne(f) == \A x, y \in DOMAIN f : f[x] = f[y] => x = y

IndexInv ==
  /\ IndexTypes
  /\ OneToOne(fingerIdToIndex) /\ fingerPressed = IndicesOf(fingerIdToIndex)
  /\ \A j, k \in 1..Len(releasedIndices) : releasedIndices[j] = releasedIndices[k] => j = k
  /\ InStack(releasedIndices) \cap fingerPressed = {}
  /\ InStack(releasedIndices) \cup fingerPressed = 0..(nextAvailableIndex - 1)

LEMMA IndexInvImplies == IndexInv => EachFingerHasItsIndex
<1> SUFFICES ASSUME IndexInv PROVE EachFingerHasItsIndex
  OBVIOUS
<1>1. DOMAIN releasedIndices = 1..Len(releasedIndices)
  BY DEF IndexInv, IndexTypes
<1>2. InStack(releasedIndices) = {releasedIndices[k] : k \in DOMAIN releasedIndices}
  BY <1>1 DEF InStack
<1> QED
  BY <1>1, <1>2 DEF IndexInv, EachFingerHasItsIndex, OneToOne, IndicesOf, Mapped

-----------------------------------------------------------------------------
(* Stacks of indices.                                                      *)

\* What is pushed on a stack is in it, and what is popped is gone if it was there once.
LEMMA Stacks ==
  ASSUME NEW s \in Seq(Nat), \A j, k \in 1..Len(s) : s[j] = s[k] => j = k
  PROVE  /\ \A i \in Nat :
              LET t == Append(s, i)
              IN /\ t \in Seq(Nat) /\ InStack(t) = InStack(s) \cup {i}
                 /\ i \notin InStack(s) => \A j, k \in 1..Len(t) : t[j] = t[k] => j = k
         /\ s # <<>> =>
              LET t == SubSeq(s, 1, Len(s) - 1)
                  top == s[Len(s)]
              IN /\ t \in Seq(Nat) /\ top \in Nat /\ top \in InStack(s)
                 /\ InStack(t) = InStack(s) \ {top}
                 /\ \A j, k \in 1..Len(t) : t[j] = t[k] => j = k
<1>1. ASSUME NEW i \in Nat
      PROVE  LET t == Append(s, i)
             IN /\ t \in Seq(Nat) /\ InStack(t) = InStack(s) \cup {i}
                /\ i \notin InStack(s) => \A j, k \in 1..Len(t) : t[j] = t[k] => j = k
  <2> DEFINE t == Append(s, i)
  <2>1. /\ t \in Seq(Nat) /\ Len(t) = Len(s) + 1
        /\ \A k \in 1..Len(s) : t[k] = s[k] /\ s[k] \in Nat
        /\ t[Len(s) + 1] = i /\ Len(s) \in Nat
    OBVIOUS
  <2> HIDE DEF t
  <2>2. InStack(t) = InStack(s) \cup {i}
    <3>1. ASSUME NEW k \in 1..Len(s) PROVE k \in 1..Len(t) /\ t[k] = s[k]
      BY <2>1
    <3>2. Len(s) + 1 \in 1..Len(t) /\ t[Len(s) + 1] = i
      BY <2>1
    <3>3. ASSUME NEW k \in 1..Len(t) PROVE k \in 1..Len(s) \/ t[k] = i
      BY <2>1
    <3> QED BY <3>1, <3>2, <3>3 DEF InStack
  <2>3. ASSUME i \notin InStack(s), NEW j \in 1..Len(t), NEW k \in 1..Len(t), t[j] = t[k]
        PROVE  j = k
    <3>1. \A l \in 1..Len(s) : t[l] = s[l] /\ s[l] # i
      BY <2>1, <2>3 DEF InStack
    <3>2. \A l \in 1..Len(t) : l \in 1..Len(s) \/ (l = Len(s) + 1 /\ t[l] = i)
      BY <2>1
    <3>3. CASE j \in 1..Len(s) /\ k \in 1..Len(s)
      BY <2>3, <3>1, <3>3
    <3> QED BY <2>3, <3>1, <3>2, <3>3
  <2> QED BY <2>1, <2>2, <2>3 DEF t
<1>2. ASSUME s # <<>>
      PROVE  LET t == SubSeq(s, 1, Len(s) - 1)
                 top == s[Len(s)]
             IN /\ t \in Seq(Nat) /\ top \in Nat /\ top \in InStack(s)
                /\ InStack(t) = InStack(s) \ {top}
                /\ \A j, k \in 1..Len(t) : t[j] = t[k] => j = k
  <2> DEFINE t == SubSeq(s, 1, Len(s) - 1)
             top == s[Len(s)]
  <2>1. /\ Len(s) \in Nat \ {0} /\ \A k \in 1..Len(s) : s[k] \in Nat
    BY <1>2
  <2>2. /\ t \in Seq(Nat) /\ Len(t) = Len(s) - 1
        /\ \A k \in 1..(Len(s) - 1) : t[k] = s[k]
    <3>1. /\ t \in Seq(Nat) /\ Len(t) = IF 1 <= Len(s) - 1 THEN Len(s) - 1 - 1 + 1 ELSE 0
          /\ \A k \in 1..(Len(s) - 1 - 1 + 1) : t[k] = s[1 + k - 1]
      BY <2>1, SubSeqProperties
    <3> HIDE DEF t
    <3>2. \A k \in 1..(Len(s) - 1) : k \in 1..(Len(s) - 1 - 1 + 1) /\ 1 + k - 1 = k
      BY <2>1
    <3>3. \A k \in 1..(Len(s) - 1) : t[k] = s[k]
      BY <3>1, <3>2
    <3>4. Len(t) = Len(s) - 1
      <4>1. \A n \in Nat \ {0} : (IF 1 <= n - 1 THEN n - 1 - 1 + 1 ELSE 0) = n - 1
        OBVIOUS
      <4> QED BY <2>1, <3>1, <4>1
    <3>5. t \in Seq(Nat)
      BY <3>1
    <3> QED BY <3>3, <3>4, <3>5
  <2> HIDE DEF t
  <2>3. top \in Nat /\ top \in InStack(s)
    BY <2>1 DEF InStack
  <2>4. InStack(t) = InStack(s) \ {top}
    <3>1. ASSUME NEW i \in InStack(t) PROVE i \in InStack(s) \ {top}
      <4>1. PICK k \in 1..Len(t) : t[k] = i
        BY DEF InStack
      <4>2. k \in 1..Len(s) /\ k # Len(s) /\ s[k] = i /\ Len(s) \in 1..Len(s)
        BY <2>1, <2>2, <4>1
      <4> QED BY <4>2 DEF InStack
    <3>2. ASSUME NEW i \in InStack(s), i # top PROVE i \in InStack(t)
      <4>1. PICK k \in 1..Len(s) : s[k] = i
        BY DEF InStack
      <4>2. k \in 1..Len(t) /\ t[k] = i
        BY <2>1, <2>2, <3>2, <4>1
      <4> QED BY <4>2 DEF InStack
    <3> QED BY <3>1, <3>2
  <2>5. ASSUME NEW j \in 1..Len(t), NEW k \in 1..Len(t), t[j] = t[k] PROVE j = k
    <3>1. /\ j \in 1..(Len(s) - 1) /\ k \in 1..(Len(s) - 1)
          /\ j \in 1..Len(s) /\ k \in 1..Len(s)
      BY <2>1, <2>2
    <3>2. s[j] = s[k]
      BY <2>2, <2>5, <3>1
    <3> QED BY <3>1, <3>2
  <2> QED BY <2>2, <2>3, <2>4, <2>5 DEF t
<1> QED BY <1>1, <1>2

-----------------------------------------------------------------------------
(* The handler's steps.                                                    *)

\* getOrAssignIndex: the finger keeps its index, takes one from the stack, or the next.
LEMMA Assigning ==
  ASSUME IndexInv, NEW f, AssignIndex(f), fingerPressed' = fingerPressed \cup {IndexOf(f)}
  PROVE  IndexInv'
<1> DEFINE i == IndexOf(f)
<1> USE DEF Mapped
<1>1. /\ fingerIdToIndex' = [g \in Mapped \cup {f} |-> IF g = f THEN i ELSE fingerIdToIndex[g]]
      /\ DOMAIN fingerIdToIndex' = Mapped \cup {f}
  BY DEF AssignIndex, Extend
<1>2. CASE f \in Mapped
  <2>1. i = fingerIdToIndex[f] /\ i \in fingerPressed
    BY <1>2 DEF IndexOf, IndexInv, IndicesOf
  <2>2. fingerIdToIndex' = fingerIdToIndex
    BY <1>1, <1>2, <2>1 DEF IndexInv, IndexTypes
  <2>3. UNCHANGED <<fingerPressed, releasedIndices, nextAvailableIndex>>
    BY <1>2, <2>1 DEF AssignIndex
  <2> QED BY <2>2, <2>3 DEF IndexInv, IndexTypes
<1>3. CASE f \notin Mapped
  <2>1. ASSUME i \in Nat, i \notin fingerPressed
        PROVE  /\ fingerIdToIndex' \in [Mapped' -> Nat] /\ OneToOne(fingerIdToIndex)'
               /\ fingerPressed' = IndicesOf(fingerIdToIndex')
    <3> HIDE DEF i
    <3>1. fingerIdToIndex' \in [Mapped' -> Nat]
      BY <1>1, <2>1 DEF IndexInv, IndexTypes
    <3>2. \A g \in Mapped : fingerIdToIndex'[g] = fingerIdToIndex[g] /\ fingerIdToIndex[g] # i
      BY <1>1, <1>3, <2>1 DEF IndexInv, IndicesOf
    <3>3. fingerIdToIndex'[f] = i
      BY <1>1
    <3>4. OneToOne(fingerIdToIndex)'
      BY <1>1, <3>2, <3>3 DEF OneToOne, IndexInv
    <3>5. IndicesOf(fingerIdToIndex') = IndicesOf(fingerIdToIndex) \cup {i}
      BY <1>1, <3>2, <3>3 DEF IndicesOf
    <3>6. fingerPressed' = fingerPressed \cup {i}
      BY DEF i
    <3>7. fingerPressed' = IndicesOf(fingerIdToIndex')
      BY <3>5, <3>6 DEF IndexInv
    <3> QED BY <3>1, <3>4, <3>7
  <2>2. CASE releasedIndices # <<>>
    <3>1. /\ i = releasedIndices[Len(releasedIndices)] /\ nextAvailableIndex' = nextAvailableIndex
          /\ releasedIndices' = SubSeq(releasedIndices, 1, Len(releasedIndices) - 1)
      BY <1>3, <2>2 DEF AssignIndex, IndexOf, Top, Pop
    <3>2. releasedIndices \in Seq(Nat)
          /\ \A j, k \in 1..Len(releasedIndices) : releasedIndices[j] = releasedIndices[k] => j = k
      BY DEF IndexInv, IndexTypes
    <3>5. /\ releasedIndices' \in Seq(Nat) /\ i \in Nat /\ i \in InStack(releasedIndices)
          /\ InStack(releasedIndices') = InStack(releasedIndices) \ {i}
          /\ \A j, k \in 1..Len(releasedIndices') : releasedIndices'[j] = releasedIndices'[k] => j = k
      <4> HIDE DEF i
      <4> QED BY <2>2, <3>1, <3>2, Stacks
    <3> HIDE DEF i
    <3>3. i \notin fingerPressed
      BY <3>5 DEF IndexInv
    <3>4. fingerPressed' = fingerPressed \cup {i}
      BY DEF i
    <3> QED BY <2>1, <3>1, <3>5, <3>3, <3>4 DEF IndexInv, IndexTypes
  <2>3. CASE releasedIndices = <<>>
    <3>1. /\ i = nextAvailableIndex /\ nextAvailableIndex' = nextAvailableIndex + 1
          /\ releasedIndices' = releasedIndices
      BY <1>3, <2>3 DEF AssignIndex, IndexOf
    <3>6. InStack(releasedIndices') = {} /\ InStack(releasedIndices) = {}
      BY <2>3, <3>1 DEF InStack
    <3>2. i \in Nat /\ fingerPressed = 0..(i - 1)
      BY <3>1, <3>6 DEF IndexInv, IndexTypes
    <3>3. fingerPressed' = fingerPressed \cup {i}
      OBVIOUS
    <3> HIDE DEF i
    <3>4. i \notin fingerPressed
      BY <3>2
    <3>5. fingerPressed' = 0..(nextAvailableIndex' - 1)
      BY <3>1, <3>2, <3>3
    <3> QED BY <2>1, <2>3, <3>1, <3>2, <3>4, <3>5, <3>6 DEF IndexInv, IndexTypes
  <2> QED BY <2>2, <2>3
<1> QED BY <1>2, <1>3

\* A finger that is lifted gives its index back.
LEMMA Releasing ==
  ASSUME IndexInv, NEW f, AssignAndRelease(f), fingerPressed' = fingerPressed \ {IndexOf(f)}
  PROVE  IndexInv'
<1> DEFINE i == IndexOf(f)
<1> USE DEF Mapped
<1>1. /\ fingerIdToIndex' = [g \in Mapped \ {f} |-> fingerIdToIndex[g]]
      /\ DOMAIN fingerIdToIndex' = Mapped \ {f}
  BY DEF AssignAndRelease, Forget
<1>2. /\ fingerIdToIndex' \in [Mapped' -> Nat] /\ OneToOne(fingerIdToIndex')
  BY <1>1 DEF IndexInv, IndexTypes, OneToOne
<1>3. releasedIndices \in Seq(Nat)
      /\ \A j, k \in 1..Len(releasedIndices) : releasedIndices[j] = releasedIndices[k] => j = k
  BY DEF IndexInv, IndexTypes
<1>4. CASE f \in Mapped
  <2>1. i = fingerIdToIndex[f] /\ i \in Nat /\ i \in fingerPressed
    BY <1>4 DEF IndexOf, IndexInv, IndexTypes, IndicesOf
  <2>2. /\ releasedIndices' = Append(releasedIndices, i)
        /\ nextAvailableIndex' = nextAvailableIndex
    BY <1>4 DEF AssignAndRelease
  <2>3. fingerPressed' = fingerPressed \ {i}
    OBVIOUS
  <2> HIDE DEF i
  <2>4. i \notin InStack(releasedIndices)
    BY <2>1 DEF IndexInv
  <2>5. /\ releasedIndices' \in Seq(Nat)
        /\ InStack(releasedIndices') = InStack(releasedIndices) \cup {i}
        /\ \A j, k \in 1..Len(releasedIndices') : releasedIndices'[j] = releasedIndices'[k] => j = k
    BY <1>3, <2>1, <2>2, <2>4, Stacks
  <2>6. fingerPressed' = IndicesOf(fingerIdToIndex')
    <3>1. IndicesOf(fingerIdToIndex') = IndicesOf(fingerIdToIndex) \ {i}
      BY <1>1, <1>4, <2>1 DEF IndexInv, OneToOne, IndicesOf
    <3> QED BY <2>3, <3>1 DEF IndexInv
  <2> QED BY <1>2, <2>1, <2>2, <2>3, <2>5, <2>6 DEF IndexInv, IndexTypes
<1>5. CASE f \notin Mapped
  <2>1. fingerIdToIndex' = fingerIdToIndex
    BY <1>1, <1>5 DEF IndexInv, IndexTypes
  <2>2. CASE releasedIndices # <<>>
    <3>1. /\ i = releasedIndices[Len(releasedIndices)] /\ releasedIndices' = releasedIndices
          /\ nextAvailableIndex' = nextAvailableIndex
      BY <1>5, <2>2 DEF AssignAndRelease, IndexOf, Top
    <3>2. i \in InStack(releasedIndices)
      <4> HIDE DEF i
      <4> QED BY <1>3, <2>2, <3>1, Stacks
    <3>3. fingerPressed' = fingerPressed
      BY <3>2 DEF IndexInv
    <3> QED BY <1>1, <2>1, <3>1, <3>3 DEF IndexInv, IndexTypes
  <2>3. CASE releasedIndices = <<>>
    <3>1. /\ i = nextAvailableIndex /\ releasedIndices' = <<i>>
          /\ nextAvailableIndex' = nextAvailableIndex + 1
      BY <1>5, <2>3 DEF AssignAndRelease, IndexOf
    <3>2. InStack(releasedIndices) = {} /\ InStack(<<i>>) = {i}
      BY <2>3 DEF InStack
    <3>3. i \in Nat /\ fingerPressed = 0..(i - 1)
      BY <3>1, <3>2 DEF IndexInv, IndexTypes
    <3>4. fingerPressed' = fingerPressed \ {i}
      OBVIOUS
    <3> HIDE DEF i
    <3>5. fingerPressed' = fingerPressed /\ InStack(releasedIndices') = {i}
      BY <3>1, <3>2, <3>3, <3>4
    <3>6. {i} \cup fingerPressed' = 0..(nextAvailableIndex' - 1)
      BY <3>1, <3>3, <3>5
    <3>7. /\ releasedIndices' \in Seq(Nat) /\ Len(releasedIndices') = 1
          /\ nextAvailableIndex' \in Nat
      BY <3>1, <3>3
    <3>8. fingerPressed' = IndicesOf(fingerIdToIndex')
      BY <2>1, <3>5 DEF IndexInv
    <3>9. {i} \cap fingerPressed' = {}
      BY <3>3, <3>5
    <3> QED BY <1>2, <3>5, <3>6, <3>7, <3>8, <3>9 DEF IndexInv, IndexTypes
  <2> QED BY <2>2, <2>3
<1> QED BY <1>4, <1>5

\* The timeout gives all indices back, those of the fingers in their order.
LEMMA LiftingAll ==
  ASSUME IndexInv, LiftInactive
  PROVE  IndexInv'
<1> USE DEF Mapped
<1> DEFINE n == Cardinality(fingerPressed)
<1>1. PICK order \in [1..n -> fingerPressed] :
        /\ \A j, k \in DOMAIN order : j < k => order[j] < order[k]
        /\ releasedIndices' = releasedIndices \o order
  BY DEF LiftInactive
<1>2. IsFiniteSet(fingerPressed) /\ n \in Nat /\ fingerPressed \subseteq Nat
  <2>1. fingerPressed \subseteq 0..(nextAvailableIndex - 1)
    BY DEF IndexInv
  <2>2. 0 \in Int /\ nextAvailableIndex - 1 \in Int
    BY DEF IndexInv, IndexTypes
  <2>3. IsFiniteSet(0..(nextAvailableIndex - 1))
    BY <2>2, FS_Interval
  <2>4. IsFiniteSet(fingerPressed)
    BY <2>1, <2>3, FS_Subset
  <2>5. \A m \in Int : 0..m \subseteq Nat
    OBVIOUS
  <2>6. fingerPressed \subseteq Nat
    BY <2>1, <2>2, <2>5
  <2>7. Cardinality(fingerPressed) \in Nat
    BY <2>4, FS_CardinalityType
  <2> QED BY <2>4, <2>6, <2>7
<1> HIDE DEF n
<1>3. order \in Injection(1..n, fingerPressed)
  <2>1. DOMAIN order = 1..n /\ \A k \in 1..n : order[k] \in Nat
    BY <1>1, <1>2
  <2>2. ASSUME NEW j \in 1..n, NEW k \in 1..n, j # k PROVE order[j] # order[k]
    <3>1. j < k \/ k < j
      BY <1>2, <2>2
    <3>2. order[j] < order[k] \/ order[k] < order[j]
      BY <1>1, <2>1, <3>1
    <3> QED BY <2>1, <3>2
  <2>3. IsInjective(order)
    BY <2>1, <2>2 DEF IsInjective
  <2> QED BY <1>1, <2>3 DEF Injection
<1>4. \A i \in fingerPressed : \E k \in 1..n : order[k] = i
  <2>1. IsFiniteSet(1..n) /\ Cardinality(1..n) = n
    BY <1>2, FS_Interval
  <2>2. order \in Surjection(1..n, fingerPressed)
    BY <1>2, <1>3, <2>1, FS_Injection DEF n
  <2> QED BY <2>2 DEF Surjection
<1>5. order \in Seq(Nat) /\ Len(order) = n
  <2>1. order \in [1..n -> Nat]
    BY <1>1, <1>2
  <2>2. order \in Seq(Nat)
    BY <1>2, <2>1, SeqDef
  <2>3. Len(order) \in Nat /\ 1..Len(order) = 1..n
    BY <2>1, <2>2, LenProperties
  <2>4. \A l, m \in Nat : 1..l = 1..m => l = m
    <3>1. ASSUME NEW l \in Nat, NEW m \in Nat, 1..l = 1..m PROVE ~(l < m)
      <4>1. l < m => m \in 1..m /\ m \notin 1..l
        OBVIOUS
      <4> QED BY <3>1, <4>1
    <3>2. ASSUME NEW l \in Nat, NEW m \in Nat, ~(l < m), ~(m < l) PROVE l = m
      BY <3>2
    <3> QED BY <3>1, <3>2
  <2> QED BY <1>2, <2>2, <2>3, <2>4
<1>6. /\ releasedIndices \in Seq(Nat) /\ Len(releasedIndices) \in Nat
      /\ releasedIndices' \in Seq(Nat) /\ Len(releasedIndices') = Len(releasedIndices) + n
      /\ \A k \in 1..Len(releasedIndices') :
           releasedIndices'[k] = IF k <= Len(releasedIndices) THEN releasedIndices[k]
                                 ELSE order[k - Len(releasedIndices)]
  <2>1. releasedIndices \in Seq(Nat) /\ Len(releasedIndices) \in Nat
    BY DEF IndexInv, IndexTypes
  <2> DEFINE both == releasedIndices \o order
  <2>2. /\ both \in Seq(Nat) /\ Len(both) = Len(releasedIndices) + Len(order)
        /\ \A k \in 1..(Len(releasedIndices) + Len(order)) :
             both[k] = IF k <= Len(releasedIndices) THEN releasedIndices[k]
                       ELSE order[k - Len(releasedIndices)]
    BY <2>1, <1>5, ConcatProperties
  <2>3. releasedIndices' = both
    BY <1>1
  <2> HIDE DEF both
  <2> QED BY <1>5, <2>1, <2>2, <2>3
<1>7. InStack(releasedIndices') = InStack(releasedIndices) \cup fingerPressed
  <2>1. ASSUME NEW i \in InStack(releasedIndices') PROVE i \in InStack(releasedIndices) \cup fingerPressed
    <3>1. PICK k \in 1..Len(releasedIndices') : releasedIndices'[k] = i
      BY DEF InStack
    <3>2. CASE k <= Len(releasedIndices)
      <4>1. k \in 1..Len(releasedIndices) /\ releasedIndices[k] = i
        BY <1>6, <3>1, <3>2
      <4> QED BY <4>1 DEF InStack
    <3>3. CASE k > Len(releasedIndices)
      <4>1. k - Len(releasedIndices) \in 1..n /\ order[k - Len(releasedIndices)] = i
        BY <1>2, <1>6, <3>1, <3>3
      <4> QED BY <1>1, <4>1
    <3> QED BY <1>6, <3>2, <3>3
  <2>2. ASSUME NEW i \in InStack(releasedIndices) PROVE i \in InStack(releasedIndices')
    <3>1. PICK k \in 1..Len(releasedIndices) : releasedIndices[k] = i
      BY DEF InStack
    <3>2. k \in 1..Len(releasedIndices') /\ releasedIndices'[k] = i
      BY <1>2, <1>6, <3>1
    <3> QED BY <3>2 DEF InStack
  <2>3. ASSUME NEW i \in fingerPressed PROVE i \in InStack(releasedIndices')
    <3>1. PICK k \in 1..n : order[k] = i
      BY <1>4
    <3>2. /\ k + Len(releasedIndices) \in 1..Len(releasedIndices')
          /\ releasedIndices'[k + Len(releasedIndices)] = i
      <4>1. \A l, m \in Nat : \A x \in 1..m :
              x + l \in 1..(l + m) /\ ~(x + l <= l) /\ x + l - l = x
        OBVIOUS
      <4> DEFINE x == k + Len(releasedIndices)
      <4>2. x \in 1..Len(releasedIndices') /\ ~(x <= Len(releasedIndices))
        BY <1>2, <1>6
      <4>3. x - Len(releasedIndices) = k
        BY <1>2, <1>6, <4>1
      <4> HIDE DEF x
      <4>4. releasedIndices'[x] = order[x - Len(releasedIndices)]
        BY <1>6, <4>2
      <4> QED BY <3>1, <4>2, <4>3, <4>4 DEF x
    <3> QED BY <3>2 DEF InStack
  <2> QED BY <2>1, <2>2, <2>3
<1>8. ASSUME NEW j \in 1..Len(releasedIndices'), NEW k \in 1..Len(releasedIndices'),
             releasedIndices'[j] = releasedIndices'[k]
      PROVE  j = k
  <2>1. \A l \in 1..Len(releasedIndices') :
          IF l <= Len(releasedIndices)
          THEN l \in 1..Len(releasedIndices) /\ releasedIndices'[l] \in InStack(releasedIndices)
          ELSE l - Len(releasedIndices) \in 1..n /\ releasedIndices'[l] \in fingerPressed
    <3> SUFFICES ASSUME NEW l \in 1..Len(releasedIndices')
                 PROVE  IF l <= Len(releasedIndices)
                        THEN /\ l \in 1..Len(releasedIndices)
                             /\ releasedIndices'[l] \in InStack(releasedIndices)
                        ELSE /\ l - Len(releasedIndices) \in 1..n
                             /\ releasedIndices'[l] \in fingerPressed
      OBVIOUS
    <3>1. CASE l <= Len(releasedIndices)
      <4>1. l \in 1..Len(releasedIndices) /\ releasedIndices'[l] = releasedIndices[l]
        BY <1>6, <3>1
      <4> QED BY <3>1, <4>1 DEF InStack
    <3>2. CASE ~(l <= Len(releasedIndices))
      <4>1. /\ l - Len(releasedIndices) \in 1..n
            /\ releasedIndices'[l] = order[l - Len(releasedIndices)]
        BY <1>2, <1>6, <3>2
      <4> QED BY <1>1, <3>2, <4>1
    <3> QED BY <3>1, <3>2
  <2>2. \A i : ~(i \in InStack(releasedIndices) /\ i \in fingerPressed)
    BY DEF IndexInv
  <2>3. CASE j <= Len(releasedIndices)
    <3>1. k <= Len(releasedIndices)
      BY <1>8, <2>1, <2>2, <2>3
    <3>2. releasedIndices[j] = releasedIndices[k]
      BY <1>6, <1>8, <2>3, <3>1
    <3> QED BY <2>1, <2>3, <3>1, <3>2 DEF IndexInv
  <2>4. CASE j > Len(releasedIndices)
    <3>1. ~(j <= Len(releasedIndices)) /\ ~(k <= Len(releasedIndices))
      BY <1>6, <1>8, <2>1, <2>2, <2>4
    <3>2. order[j - Len(releasedIndices)] = order[k - Len(releasedIndices)]
      BY <1>6, <1>8, <3>1
    <3>3. j - Len(releasedIndices) = k - Len(releasedIndices)
      BY <1>1, <1>3, <2>1, <3>1, <3>2 DEF Injection, IsInjective
    <3> QED BY <1>6, <3>3
  <2> QED BY <1>6, <2>3, <2>4
<1>9. fingerIdToIndex' = [f \in {} |-> 0]
  <2>1. {f \in Mapped : fingerIdToIndex[f] \in fingerPressed} = Mapped
    BY DEF IndexInv, IndicesOf
  <2> QED BY <2>1 DEF LiftInactive, Forget
<1>10. /\ fingerIdToIndex' \in [Mapped' -> Nat] /\ OneToOne(fingerIdToIndex')
       /\ IndicesOf(fingerIdToIndex') = {}
  BY <1>9 DEF OneToOne, IndicesOf
<1>11. fingerPressed' = {} /\ nextAvailableIndex' = nextAvailableIndex
  BY DEF LiftInactive
<1> QED BY <1>6, <1>7, <1>8, <1>10, <1>11 DEF IndexInv, IndexTypes

-----------------------------------------------------------------------------
LEMMA IndexInductive ==
  /\ TouchInit => IndexInv
  /\ IndexInv /\ [TouchNext]_touchVars => IndexInv'
<1>1. TouchInit => IndexInv
  BY DEF TouchInit, IndexInv, IndexTypes, OneToOne, IndicesOf, InStack, Mapped
<1>2. IndexInv /\ UNCHANGED indexVars => IndexInv'
  BY DEF indexVars, IndexInv, IndexTypes, Mapped
<1>3. ASSUME IndexInv, TouchNext
      PROVE  IndexInv'
  <2>1. ASSUME NEW f \in Fingers, Touch(f) PROVE IndexInv'
    BY <1>2, <1>3, <2>1, Assigning DEF Touch, FingerDown, Lost
  <2>2. ASSUME NEW f \in Fingers, Lift(f) PROVE IndexInv'
    BY <1>2, <1>3, <2>2, Releasing DEF Lift, FingerUp, Lost
  <2>3. ASSUME NEW f \in Fingers, Move(f) PROVE IndexInv'
    BY <1>3, <2>3, Assigning DEF Move, FingerMotion
  <2>4. CASE Wait
    BY <1>2, <1>3, <2>4 DEF Wait
  <2>5. CASE UpdateGestures
    BY <1>2, <1>3, <2>5, LiftingAll DEF UpdateGestures
  <2>6. CASE TouchFrame
    BY <1>2, <1>3, <2>6 DEF TouchFrame
  <2> QED BY <1>3, <2>1, <2>2, <2>3, <2>4, <2>5, <2>6 DEF TouchNext
<1> QED BY <1>1, <1>2, <1>3 DEF touchVars

\* EachFingerHasItsIndex, for any number of fingers: getOrAssignIndex and releaseIndex
\* (TouchHandler.hpp) share and leak no index, whatever is reported twice, late or never.
THEOREM IndicesAreNotShared == TouchSpec => []EachFingerHasItsIndex
<1> QED BY IndexInductive, IndexInvImplies, PTL DEF TouchSpec

-----------------------------------------------------------------------------
(* GraphModel.                                                             *)
(*                                                                         *)
(* A message tells something of the graph, and so do the answer to a       *)
(* request and the model itself, as if it were the message before the      *)
(* first.  The invariant says of whatever is told that it is true of the   *)
(* graph as it is now or that a later message corrects it.                 *)

Datum == [ports : Nat, version : Nat]
ChildData == [ports : Nat, version : Nat, vector : Nat]
EdgeOf(B) == B \X Nat \X B

\* The messages that can have been sent so far, and the requests.
Messages ==
  [kind : {"running", "error"}]
  \cup [kind : {"emplaced"}, graph : 0..graph, block : used, data : Datum]
  \cup [kind : {"removed"}, graph : 0..graph, block : used]
  \cup [kind : {"replaced"}, graph : 0..graph, old : used, block : used, data : Datum]
  \cup [kind : {"edgeEmplaced"}, graph : 0..graph, edge : EdgeOf(Blocks)]
  \cup [kind : {"edgeRemoved"}, graph : 0..graph]
  \cup [kind : {"exported"}, block : used]
  \cup [kind : {"setting"}, block : used, version : Nat]
  \cup [kind : {"blockInspected"}, block : used, data : Datum]
  \cup [kind : {"schedulerInspected"}, graph : 0..graph,
        blocks : UNION {[B -> Datum] : B \in SUBSET used}, edges : SUBSET EdgeOf(Blocks)]

Requests == {FullUpdate} \cup {InspectBlock(b) : b \in Blocks}

\* The elements of a sequence between two positions, and after one.
Between(q, j, k) == {q[i] : i \in (j + 1)..(k - 1)}
Later(q, j) == Between(q, j, Len(q) + 1)
MembersOf(q) == Later(q, 0)

Adds(m, b) == m.kind \in {"emplaced", "replaced"} /\ m.block = b
Removes(m, b) == \/ m.kind = "removed" /\ m.block = b
                 \/ m.kind = "replaced" /\ m.old = b

IsAnswer(m) == m.kind = "schedulerInspected"

\* Message m says that block b is there; tells its ports and settings; its settings.
TellsThere(m, b) == Adds(m, b) \/ (IsAnswer(m) /\ b \in DOMAIN m.blocks)
TellsBlock(m, b) == TellsThere(m, b) \/ (m.kind = "blockInspected" /\ m.block = b)
TellsVersion(m, b) == TellsBlock(m, b) \/ (m.kind = "setting" /\ m.block = b)
Exports(m, b) == m.kind = "exported" /\ m.block = b

\* What it tells.
DataIn(m, b) == IF IsAnswer(m) THEN m.blocks[b] ELSE m.data
EdgesIn(m) == IF IsAnswer(m) THEN m.edges
              ELSE IF m.kind = "edgeEmplaced" THEN {m.edge} ELSE {}
VersionIn(m, b) == IF m.kind = "setting" THEN m.version ELSE DataIn(m, b).version

-----------------------------------------------------------------------------
(* The invariant.                                                          *)

TypesInv ==
  /\ graph \in Nat
  /\ used \subseteq Blocks /\ DOMAIN blocks \subseteq used
  /\ blocks \in [DOMAIN blocks -> Datum]
  /\ edges \subseteq EdgeOf(DOMAIN blocks)
  /\ toUi \in Seq(Messages) /\ inspections \in Seq(Requests)
  /\ modelGraph \in 0..graph \cup {None}
  /\ DOMAIN childBlocks \subseteq used
  /\ childBlocks \in [DOMAIN childBlocks -> ChildData]
  /\ childEdges \subseteq (DOMAIN childBlocks) \X Nat \X Nat \X (DOMAIN childBlocks)
  /\ requestedFullUpdate \in BOOLEAN /\ exchanged \in BOOLEAN
  /\ selectedBlock \in Blocks \cup {None}

\* One full update is under way at most: asked for or answered.
RequestInv ==
  /\ \A i, k \in 1..Len(inspections) :
       inspections[i] = FullUpdate /\ inspections[k] = FullUpdate => i = k
  /\ \A i, k \in 1..Len(toUi) : IsAnswer(toUi[i]) /\ IsAnswer(toUi[k]) => i = k
  /\ (\E r \in MembersOf(inspections) : r = FullUpdate) =>
       ~ \E m \in MembersOf(toUi) : IsAnswer(m)
  /\ requestedFullUpdate <=> \/ \E r \in MembersOf(inspections) : r = FullUpdate
                             \/ \E m \in MembersOf(toUi) : IsAnswer(m)

\* A block that a message removes does not come back.
GoneInv == \A m \in MembersOf(toUi) : \A b \in used : Removes(m, b) => b \notin DOMAIN blocks

\* One of these messages removes block b of graph g.
Goes(L, b, g) == \E m \in L : Removes(m, b) /\ m.graph = g

\* The blocks of graph g that the model has, or is told of, before position k are in
\* B, or are removed before it.
Cleared(k, g, B) ==
  /\ modelGraph = g => \A b \in DOMAIN childBlocks \ B : Goes(Between(toUi, 0, k), b, g)
  /\ \A j \in 1..(k - 1) : \A b \in used \ B :
       TellsThere(toUi[j], b) /\ toUi[j].graph = g => Goes(Between(toUi, j, k), b, g)

ClearedInv ==
  /\ Cleared(Len(toUi) + 1, graph, DOMAIN blocks)
  /\ \A k \in 1..Len(toUi) :
       IsAnswer(toUi[k]) => Cleared(k, toUi[k].graph, DOMAIN toUi[k].blocks)

\* These messages, or the answers to these requests, tell the ports of block b anew;
\* its settings; that edge e is gone.
PortsFollow(L, I, b) == \/ \E m \in L : Exports(m, b) \/ TellsBlock(m, b)
                        \/ InspectBlock(b) \in I
VersionFollows(L, b) == \E m \in L : TellsVersion(m, b)
EdgeGoes(L, e) == \E m \in L : \/ m.kind \in {"running", "edgeRemoved"}
                               \/ Removes(m, e[1]) \/ Removes(m, e[3])

\* What messages tell is true or corrected.
ToldInv ==
  \A j \in 1..Len(toUi) :
    /\ \A b \in DOMAIN blocks :
         /\ TellsBlock(toUi[j], b) =>
              \/ DataIn(toUi[j], b).ports = blocks[b].ports
              \/ PortsFollow(Later(toUi, j), MembersOf(inspections), b)
         /\ TellsVersion(toUi[j], b) =>
              VersionIn(toUi[j], b) = blocks[b].version \/ VersionFollows(Later(toUi, j), b)
    /\ \A e \in EdgesIn(toUi[j]) \ edges : EdgeGoes(Later(toUi, j), e)

\* What graph g with blocks B and edges E lacks is told by these messages, or the graph
\* is replaced.
Complete(g, B, E, L) ==
  \/ \E m \in L : m.kind = "running"
  \/ /\ g = graph
     /\ \A b \in DOMAIN blocks \ B : \E m \in L : Adds(m, b) /\ m.graph = graph
     /\ \A e \in edges \ E : \/ {e[1], e[3]} \cap successors # {}
                             \/ \E m \in L : m.kind = "edgeEmplaced" /\ m.edge = e

AnswerInv ==
  \A k \in 1..Len(toUi) :
    IsAnswer(toUi[k]) =>
      /\ toUi[k].edges \subseteq EdgeOf(DOMAIN toUi[k].blocks)
      /\ Complete(toUi[k].graph, DOMAIN toUi[k].blocks, toUi[k].edges, Later(toUi, k))

\* The model, unless a full update is under way.
ModelInv ==
  ~requestedFullUpdate =>
    /\ Complete(modelGraph, DOMAIN childBlocks, SeenEdges, MembersOf(toUi))
    /\ \A b \in DOMAIN childBlocks \cap DOMAIN blocks :
         /\ \/ childBlocks[b].ports = blocks[b].ports
            \/ PortsFollow(MembersOf(toUi), MembersOf(inspections), b)
         /\ childBlocks[b].version = blocks[b].version \/ VersionFollows(MembersOf(toUi), b)
    /\ \A e \in SeenEdges \ edges : EdgeGoes(MembersOf(toUi), e)

SelectionInv == selectedBlock = None \/ selectedBlock \in DOMAIN childBlocks \/ exchanged

ReplicaInv ==
  /\ TypesInv /\ RequestInv /\ GoneInv /\ ClearedInv /\ ToldInv /\ AnswerInv /\ ModelInv
  /\ SelectionInv

-----------------------------------------------------------------------------
(* Sequences of messages.                                                  *)

\* What is between two positions when a message is appended.
LEMMA BetweenAppend ==
  ASSUME NEW S, NEW q \in Seq(S), NEW x
  PROVE  /\ Len(Append(q, x)) = Len(q) + 1
         /\ \A j \in 1..Len(q) : Append(q, x)[j] = q[j]
         /\ Append(q, x)[Len(q) + 1] = x
         /\ \A j \in Nat, k \in 1..(Len(q) + 1) : Between(Append(q, x), j, k) = Between(q, j, k)
         /\ \A j \in 0..Len(q) : Later(Append(q, x), j) = Later(q, j) \cup {x}
         /\ MembersOf(Append(q, x)) = MembersOf(q) \cup {x}
         /\ Later(Append(q, x), Len(q) + 1) = {}
<1> DEFINE a == Append(q, x)
<1>1. Len(q) \in Nat /\ Len(a) = Len(q) + 1 /\ (\A j \in 1..Len(q) : a[j] = q[j])
      /\ a[Len(q) + 1] = x
  OBVIOUS
<1> HIDE DEF a
<1>2. \A j \in Nat, k \in 1..(Len(q) + 1) : Between(a, j, k) = Between(q, j, k)
  <2> TAKE j \in Nat, k \in 1..(Len(q) + 1)
  <2>1. \A i \in (j + 1)..(k - 1) : a[i] = q[i]
    BY <1>1
  <2> QED BY <2>1 DEF Between
<1>3. \A j \in 0..Len(q) : Later(a, j) = Later(q, j) \cup {x}
  <2> TAKE j \in 0..Len(q)
  <2>1. (j + 1)..(Len(a) + 1 - 1) = (j + 1)..(Len(q) + 1 - 1) \cup {Len(q) + 1}
    BY <1>1
  <2>2. \A i \in (j + 1)..(Len(q) + 1 - 1) : a[i] = q[i]
    BY <1>1
  <2> QED BY <1>1, <2>1, <2>2 DEF Later, Between
<1>4. Later(a, Len(q) + 1) = {}
  BY <1>1 DEF Later, Between
<1> QED BY <1>1, <1>2, <1>3, <1>4 DEF MembersOf, a

\* What is between two positions when the first message is taken.
IsTail(q, t, S) ==
  /\ Head(q) \in S /\ Head(q) = q[1] /\ t \in Seq(S)
  /\ Len(q) \in Nat \ {0} /\ Len(t) = Len(q) - 1
  /\ \A j \in 1..Len(t) : t[j] = q[j + 1] /\ j + 1 \in 1..Len(q)
  /\ \A j, k \in Nat : k <= Len(q) => Between(t, j, k) = Between(q, j + 1, k + 1)
  /\ \A j \in Nat : Later(t, j) = Later(q, j + 1)
  /\ \A k \in 2..(Len(q) + 1) : Between(q, 0, k) = {Head(q)} \cup Between(q, 1, k)
  /\ Between(q, 0, 1) = {}
  /\ MembersOf(q) = {Head(q)} \cup MembersOf(t)

\* Between two positions is what was there, one position further.
LEMMA BetweenTail ==
  ASSUME NEW S, NEW q \in Seq(S), q # <<>>
  PROVE  IsTail(q, Tail(q), S)
<1> DEFINE t == Tail(q)
<1>1. /\ Head(q) \in S /\ Head(q) = q[1] /\ t \in Seq(S)
      /\ Len(q) \in Nat \ {0} /\ Len(t) = Len(q) - 1
      /\ \A j \in 1..Len(t) : t[j] = q[j + 1]
  OBVIOUS
<1> HIDE DEF t
<1>2. \A j, k \in Nat : k <= Len(q) => Between(t, j, k) = Between(q, j + 1, k + 1)
  <2> SUFFICES ASSUME NEW j \in Nat, NEW k \in Nat, k <= Len(q)
               PROVE  Between(t, j, k) = Between(q, j + 1, k + 1)
    OBVIOUS
  <2>1. \A i \in (j + 1)..(k - 1) : t[i] = q[i + 1] /\ i + 1 \in (j + 1 + 1)..(k + 1 - 1)
    BY <1>1
  <2>2. \A i \in (j + 1 + 1)..(k + 1 - 1) : i - 1 \in (j + 1)..(k - 1) /\ q[i] = t[i - 1]
    BY <1>1
  <2>3. ASSUME NEW x \in Between(t, j, k) PROVE x \in Between(q, j + 1, k + 1)
    <3>1. PICK i \in (j + 1)..(k - 1) : x = t[i]
      BY DEF Between
    <3>2. x = q[i + 1] /\ i + 1 \in (j + 1 + 1)..(k + 1 - 1)
      BY <2>1, <3>1
    <3> QED BY <3>2 DEF Between
  <2>4. ASSUME NEW x \in Between(q, j + 1, k + 1) PROVE x \in Between(t, j, k)
    <3>1. PICK i \in (j + 1 + 1)..(k + 1 - 1) : x = q[i]
      BY DEF Between
    <3>2. x = t[i - 1] /\ i - 1 \in (j + 1)..(k - 1)
      BY <2>2, <3>1
    <3> QED BY <3>2 DEF Between
  <2> QED BY <2>3, <2>4
<1>3. \A j \in Nat : Later(t, j) = Later(q, j + 1)
  BY <1>1, <1>2 DEF Later
<1>4. \A k \in 2..(Len(q) + 1) : Between(q, 0, k) = {Head(q)} \cup Between(q, 1, k)
  <2> TAKE k \in 2..(Len(q) + 1)
  <2>1. (0 + 1)..(k - 1) = {1} \cup (1 + 1)..(k - 1)
    BY <1>1
  <2> QED BY <1>1, <2>1 DEF Between
<1>5. Between(q, 0, 1) = {}
  BY DEF Between
<1>6. MembersOf(q) = {Head(q)} \cup MembersOf(t)
  <2>1. MembersOf(t) = Later(q, 1)
    BY <1>3 DEF MembersOf
  <2>2. Len(q) + 1 \in 2..(Len(q) + 1)
    BY <1>1
  <2> QED BY <1>4, <2>1, <2>2 DEF MembersOf, Later
<1>7. \A j \in 1..Len(t) : j + 1 \in 1..Len(q)
  BY <1>1
<1>8. IsTail(q, t, S)
  BY <1>1, <1>2, <1>3, <1>4, <1>5, <1>6, <1>7 DEF IsTail
<1> QED BY <1>8 DEF t

\* The members of a sequence are its elements.
LEMMA MembersAre ==
  ASSUME NEW S, NEW q \in Seq(S)
  PROVE  /\ MembersOf(q) = {q[i] : i \in 1..Len(q)}
         /\ \A j \in Nat : Later(q, j) \subseteq S
         /\ \A j, k \in Nat : k <= Len(q) + 1 => Between(q, j, k) \subseteq S
BY DEF MembersOf, Later, Between

-----------------------------------------------------------------------------
(* Messages and their kinds.                                               *)

Kinds == {"running", "error", "emplaced", "removed", "replaced", "edgeEmplaced",
          "edgeRemoved", "exported", "setting", "blockInspected", "schedulerInspected"}
ForGraph == {"emplaced", "removed", "replaced", "edgeEmplaced", "edgeRemoved",
             "schedulerInspected"}

\* What a message of each kind carries.
LEMMA KindsOfMessages ==
  ASSUME NEW m \in Messages
  PROVE  /\ m.kind \in Kinds
         /\ "graph" \in DOMAIN m <=> m.kind \in ForGraph
         /\ m.kind \in ForGraph => m.graph \in 0..graph
         /\ m.kind \in {"emplaced", "replaced", "blockInspected"} =>
              m.block \in used /\ m.data \in Datum
         /\ m.kind \in {"removed", "exported", "setting"} => m.block \in used
         /\ m.kind = "replaced" => m.old \in used
         /\ m.kind = "setting" => m.version \in Nat
         /\ m.kind = "edgeEmplaced" => m.edge \in EdgeOf(Blocks)
         /\ m.kind = "schedulerInspected" =>
              /\ DOMAIN m.blocks \subseteq used /\ m.blocks \in [DOMAIN m.blocks -> Datum]
              /\ m.edges \subseteq EdgeOf(Blocks)
<1>1. CASE m \in [kind : {"running", "error"}]
  BY <1>1 DEF Kinds, ForGraph
<1>2. CASE m \in [kind : {"emplaced"}, graph : 0..graph, block : used, data : Datum]
  BY <1>2 DEF Kinds, ForGraph
<1>3. CASE m \in [kind : {"removed"}, graph : 0..graph, block : used]
  BY <1>3 DEF Kinds, ForGraph
<1>4. CASE m \in [kind : {"replaced"}, graph : 0..graph, old : used, block : used, data : Datum]
  BY <1>4 DEF Kinds, ForGraph
<1>5. CASE m \in [kind : {"edgeEmplaced"}, graph : 0..graph, edge : EdgeOf(Blocks)]
  BY <1>5 DEF Kinds, ForGraph
<1>6. CASE m \in [kind : {"edgeRemoved"}, graph : 0..graph]
  BY <1>6 DEF Kinds, ForGraph
<1>7. CASE m \in [kind : {"exported"}, block : used]
  BY <1>7 DEF Kinds, ForGraph
<1>8. CASE m \in [kind : {"setting"}, block : used, version : Nat]
  BY <1>8 DEF Kinds, ForGraph
<1>9. CASE m \in [kind : {"blockInspected"}, block : used, data : Datum]
  BY <1>9 DEF Kinds, ForGraph
<1>10. CASE m \in [kind : {"schedulerInspected"}, graph : 0..graph,
                   blocks : UNION {[B -> Datum] : B \in SUBSET used},
                   edges : SUBSET EdgeOf(Blocks)]
  <2>1. PICK B \in SUBSET used : m.blocks \in [B -> Datum]
    BY <1>10
  <2>2. DOMAIN m.blocks = B
    BY <2>1
  <2> QED BY <1>10, <2>1, <2>2 DEF Kinds, ForGraph
<1> QED BY <1>1, <1>2, <1>3, <1>4, <1>5, <1>6, <1>7, <1>8, <1>9, <1>10 DEF Messages

\* What has been sent can still have been sent later.
LEMMA MessagesGrow ==
  ASSUME graph \in Nat, graph' \in Nat, graph <= graph', used \subseteq used'
  PROVE  Messages \subseteq Messages'
<1>1. 0..graph \subseteq 0..graph'
  OBVIOUS
<1>2. UNION {[B -> Datum] : B \in SUBSET used} \subseteq UNION {[B -> Datum] : B \in SUBSET used'}
  OBVIOUS
<1> QED BY <1>1, <1>2 DEF Messages

-----------------------------------------------------------------------------
(* Steps of the scheduler.                                                 *)

\* The graph stays one.
StaysGraph ==
  /\ graph' \in Nat /\ graph <= graph' /\ used \subseteq used' /\ used' \subseteq Blocks
  /\ DOMAIN blocks' \subseteq used' /\ blocks' \in [DOMAIN blocks' -> Datum]
  /\ edges' \subseteq EdgeOf(DOMAIN blocks') /\ successors \subseteq successors'

\* What message m says of the graph is true after the step.
TellsTruth(m) ==
  /\ \A b \in used' : Removes(m, b) => b \notin DOMAIN blocks'
  /\ \A b \in used' : TellsThere(m, b) => b \in DOMAIN blocks'
  /\ \A b \in DOMAIN blocks' : /\ TellsBlock(m, b) => DataIn(m, b) = blocks'[b]
                               /\ TellsVersion(m, b) => VersionIn(m, b) = blocks'[b].version
  /\ EdgesIn(m) \subseteq edges'
  /\ IsAnswer(m) => m.graph = graph' /\ DOMAIN m.blocks = DOMAIN blocks' /\ m.edges = edges'

\* Message m tells whatever changes.
TellsChange(m) ==
  /\ graph' # graph => m.kind = "running"
  /\ m.kind \in ForGraph => m.graph = graph'
  /\ \A b \in DOMAIN blocks' \ DOMAIN blocks :
       b \notin used /\ (m.kind = "running" \/ Adds(m, b))
  /\ graph' = graph => \A b \in DOMAIN blocks \ DOMAIN blocks' : Removes(m, b) /\ m.graph = graph
  /\ \A b \in DOMAIN blocks \cap DOMAIN blocks' :
       /\ blocks'[b].ports = blocks[b].ports \/ Exports(m, b)
       /\ blocks'[b].version = blocks[b].version \/ TellsVersion(m, b)
  /\ \A e \in edges \ edges' : \/ m.kind \in {"running", "edgeRemoved"}
                               \/ Removes(m, e[1]) \/ Removes(m, e[3])
  /\ \A e \in edges' \ edges : \/ {e[1], e[3]} \cap successors' # {}
                               \/ m.kind = "edgeEmplaced" /\ m.edge = e

Notified(m) ==
  /\ m \in Messages' /\ toUi' = Append(toUi, m)
  /\ StaysGraph /\ TellsTruth(m) /\ TellsChange(m)

\* Each change of the graph is notified by one message: a block is emplaced,
LEMMA EmplacedIsNotified ==
  ASSUME TypesInv, NEW b \in Blocks, BlockEmplaced(b)
  PROVE  \E m : Notified(m) /\ ~IsAnswer(m)
<1> DEFINE m == [kind |-> "emplaced", graph |-> graph, block |-> b, data |-> NewBlock]
<1>1. /\ toUi' = Append(toUi, m) /\ graph' = graph /\ edges' = edges
      /\ used' = used \cup {b} /\ b \notin used /\ successors' = successors
      /\ blocks' = With(blocks, b, NewBlock)
  BY DEF BlockEmplaced, Edit
<1>2. NewBlock \in Datum
  BY DEF NewBlock, Datum
<1>3. /\ DOMAIN blocks' = DOMAIN blocks \cup {b} /\ blocks' \in [DOMAIN blocks' -> Datum]
      /\ blocks'[b] = NewBlock /\ \A x \in DOMAIN blocks : blocks'[x] = blocks[x]
  BY <1>1, <1>2 DEF TypesInv, With
<1>4. StaysGraph
  BY <1>1, <1>3 DEF StaysGraph, TypesInv, EdgeOf
<1>5. m \in Messages'
  BY <1>1, <1>2 DEF Messages, TypesInv
<1>6. TellsTruth(m)
  BY <1>1, <1>3 DEF TellsTruth, Removes, TellsThere, TellsBlock, TellsVersion, Adds, IsAnswer,
                    DataIn, VersionIn, EdgesIn
<1>7. TellsChange(m)
  BY <1>1, <1>3 DEF TellsChange, Adds, ForGraph, TypesInv
<1>8. ~IsAnswer(m)
  BY DEF IsAnswer
<1> HIDE DEF m
<1> QED BY <1>1, <1>4, <1>5, <1>6, <1>7, <1>8 DEF Notified

\* a block is removed,
LEMMA RemovedIsNotified ==
  ASSUME TypesInv, NEW b \in Blocks, BlockRemoved(b)
  PROVE  \E m : Notified(m) /\ ~IsAnswer(m)
<1> DEFINE m == [kind |-> "removed", graph |-> graph, block |-> b]
<1>1. /\ toUi' = Append(toUi, m) /\ graph' = graph /\ edges' = Untouched(edges, b)
      /\ used' = used /\ b \in DOMAIN blocks /\ successors' = successors
      /\ blocks' = Without(blocks, b)
  BY DEF BlockRemoved, Edit
<1>2. /\ DOMAIN blocks' = DOMAIN blocks \ {b} /\ blocks' \in [DOMAIN blocks' -> Datum]
      /\ \A x \in DOMAIN blocks' : blocks'[x] = blocks[x]
  BY <1>1 DEF TypesInv, Without
<1>3. edges' = {e \in edges : e[1] # b /\ e[3] # b}
  <2>1. \A e \in edges : Len(e) = 3
    BY DEF TypesInv, EdgeOf
  <2> QED BY <1>1, <2>1 DEF Untouched
<1>4. StaysGraph
  BY <1>1, <1>2, <1>3 DEF StaysGraph, TypesInv, EdgeOf
<1>5. m \in Messages'
  BY <1>1 DEF Messages, TypesInv
<1>6. TellsTruth(m)
  BY <1>1, <1>2 DEF TellsTruth, Removes, TellsThere, TellsBlock, TellsVersion, Adds, IsAnswer,
                    DataIn, VersionIn, EdgesIn
<1>7. TellsChange(m)
  BY <1>1, <1>2, <1>3 DEF TellsChange, Removes, ForGraph, TypesInv
<1>8. ~IsAnswer(m)
  BY DEF IsAnswer
<1> HIDE DEF m
<1> QED BY <1>1, <1>4, <1>5, <1>6, <1>7, <1>8 DEF Notified

\* a block is replaced and its successor takes over the edges,
LEMMA ReplacedIsNotified ==
  ASSUME TypesInv, NEW b \in Blocks, NEW c \in Blocks, BlockReplaced(b, c)
  PROVE  \E m : Notified(m) /\ ~IsAnswer(m)
<1> DEFINE m == [kind |-> "replaced", graph |-> graph, old |-> b, block |-> c,
                 data |-> NewBlock]
           moved(x) == IF x = b THEN c ELSE x
<1>1. /\ toUi' = Append(toUi, m) /\ graph' = graph
      /\ edges' = {<<moved(e[1]), e[2], moved(e[3])>> :
                     e \in {f \in edges : f[1] # b \/ f[2] = 1}}
      /\ used' = used \cup {c} /\ b \in DOMAIN blocks /\ c \notin used
      /\ successors' = successors \cup {c}
      /\ blocks' = With(Without(blocks, b), c, NewBlock)
  BY DEF BlockReplaced, Edit
<1>2. NewBlock \in Datum
  BY DEF NewBlock, Datum
<1>3. /\ DOMAIN blocks' = (DOMAIN blocks \ {b}) \cup {c} /\ blocks' \in [DOMAIN blocks' -> Datum]
      /\ blocks'[c] = NewBlock /\ \A x \in DOMAIN blocks \ {b} : blocks'[x] = blocks[x]
  BY <1>1, <1>2 DEF TypesInv, With, Without
<1>4. /\ \A e \in edges : e[1] # b /\ e[3] # b => e \in edges'
      /\ \A e \in edges' : e \in edges \/ e[1] = c \/ e[3] = c
      /\ edges' \subseteq EdgeOf(DOMAIN blocks')
  <2>1. \A e \in edges : /\ e[1] \in DOMAIN blocks /\ e[2] \in Nat /\ e[3] \in DOMAIN blocks
                         /\ e = <<e[1], e[2], e[3]>>
    BY DEF TypesInv, EdgeOf
  <2>2. ASSUME NEW e \in edges, e[1] # b, e[3] # b
        PROVE  e \in edges'
    <3>1. <<moved(e[1]), e[2], moved(e[3])>> = e
      BY <2>1, <2>2
    <3> QED BY <1>1, <2>2, <3>1
  <2>3. ASSUME NEW e \in edges'
        PROVE  /\ e \in edges \/ e[1] = c \/ e[3] = c
               /\ e \in EdgeOf(DOMAIN blocks')
    <3>1. PICK f \in edges : e = <<moved(f[1]), f[2], moved(f[3])>>
      BY <1>1
    <3>2. e[1] = moved(f[1]) /\ e[3] = moved(f[3])
      BY <3>1
    <3>3. e \in edges \/ e[1] = c \/ e[3] = c
      BY <2>1, <3>1, <3>2
    <3>4. moved(f[1]) \in DOMAIN blocks' /\ moved(f[3]) \in DOMAIN blocks' /\ f[2] \in Nat
      BY <1>3, <2>1
    <3> QED BY <3>1, <3>3, <3>4 DEF EdgeOf
  <2> QED BY <2>2, <2>3
<1>5. StaysGraph
  <2>1. graph' \in Nat /\ graph <= graph' /\ used \subseteq used' /\ successors \subseteq successors'
    BY <1>1 DEF TypesInv
  <2>2. used' \subseteq Blocks /\ DOMAIN blocks' \subseteq used'
    BY <1>1, <1>3 DEF TypesInv
  <2> QED BY <1>3, <1>4, <2>1, <2>2 DEF StaysGraph
<1>6. m \in Messages'
  BY <1>1, <1>2 DEF Messages, TypesInv
<1>7. TellsTruth(m)
  BY <1>1, <1>3 DEF TellsTruth, Removes, TellsThere, TellsBlock, TellsVersion, Adds, IsAnswer,
                    DataIn, VersionIn, EdgesIn, TypesInv
<1>8. TellsChange(m)
  BY <1>1, <1>3, <1>4 DEF TellsChange, Adds, Removes, ForGraph, TypesInv
<1>9. ~IsAnswer(m)
  BY DEF IsAnswer
<1> HIDE DEF m
<1> QED BY <1>1, <1>5, <1>6, <1>7, <1>8, <1>9 DEF Notified

\* two blocks are connected,
LEMMA EdgeEmplacedIsNotified ==
  ASSUME TypesInv, NEW b \in Blocks, NEW c \in Blocks, EdgeEmplaced(b, c)
  PROVE  \E m : Notified(m) /\ ~IsAnswer(m)
<1>1. PICK p \in 1..blocks[b].ports :
        Edit(blocks, edges \cup {<<b, p, c>>},
             [kind |-> "edgeEmplaced", graph |-> graph, edge |-> <<b, p, c>>])
  BY DEF EdgeEmplaced
<1> DEFINE e == <<b, p, c>>
           m == [kind |-> "edgeEmplaced", graph |-> graph, edge |-> e]
<1>2. /\ toUi' = Append(toUi, m) /\ graph' = graph /\ edges' = edges \cup {e}
      /\ used' = used /\ successors' = successors /\ blocks' = blocks
      /\ b \in DOMAIN blocks /\ c \in DOMAIN blocks
  BY <1>1 DEF EdgeEmplaced, Edit
<1>3. e \in EdgeOf(DOMAIN blocks) /\ e \in EdgeOf(Blocks)
  <2>1. blocks[b].ports \in Nat
    BY <1>2 DEF TypesInv, Datum
  <2> QED BY <1>2, <2>1 DEF EdgeOf
<1> HIDE DEF e
<1>4. StaysGraph
  BY <1>2, <1>3 DEF StaysGraph, TypesInv
<1>5. m \in Messages'
  BY <1>2, <1>3 DEF Messages, TypesInv
<1>6. TellsTruth(m)
  BY <1>2 DEF TellsTruth, Removes, TellsThere, TellsBlock, TellsVersion, Adds, IsAnswer,
              DataIn, VersionIn, EdgesIn
<1>7. TellsChange(m)
  BY <1>2 DEF TellsChange, ForGraph, TypesInv
<1>8. ~IsAnswer(m)
  BY DEF IsAnswer
<1> HIDE DEF m
<1> QED BY <1>2, <1>4, <1>5, <1>6, <1>7, <1>8 DEF Notified

\* an edge is removed, which is not said,
LEMMA EdgeRemovedIsNotified ==
  ASSUME TypesInv, NEW e, EdgeRemoved(e)
  PROVE  \E m : Notified(m) /\ ~IsAnswer(m)
<1> DEFINE m == [kind |-> "edgeRemoved", graph |-> graph]
<1>1. /\ toUi' = Append(toUi, m) /\ graph' = graph /\ edges' = edges \ {e}
      /\ used' = used /\ successors' = successors /\ blocks' = blocks
  BY DEF EdgeRemoved, Edit
<1>2. StaysGraph
  BY <1>1 DEF StaysGraph, TypesInv
<1>3. m \in Messages'
  BY <1>1 DEF Messages, TypesInv
<1>4. TellsTruth(m)
  BY <1>1 DEF TellsTruth, Removes, TellsThere, TellsBlock, TellsVersion, Adds, IsAnswer,
              DataIn, VersionIn, EdgesIn
<1>5. TellsChange(m)
  BY <1>1 DEF TellsChange, ForGraph, TypesInv
<1>6. ~IsAnswer(m)
  BY DEF IsAnswer
<1> HIDE DEF m
<1> QED BY <1>1, <1>2, <1>3, <1>4, <1>5, <1>6 DEF Notified

\* a subgraph exports a port, whose number is not said,
LEMMA ExportIsNotified ==
  ASSUME TypesInv, NEW b \in Blocks, PortExported(b)
  PROVE  \E m : Notified(m) /\ ~IsAnswer(m)
<1> DEFINE m == [kind |-> "exported", block |-> b]
<1>1. /\ toUi' = Append(toUi, m) /\ graph' = graph /\ edges' = edges
      /\ used' = used /\ successors' = successors /\ b \in DOMAIN blocks
      /\ blocks' = [blocks EXCEPT ![b].ports = @ + 1]
  BY DEF PortExported, Edit
<1>2. /\ DOMAIN blocks' = DOMAIN blocks /\ blocks' \in [DOMAIN blocks' -> Datum]
      /\ \A x \in DOMAIN blocks : x # b => blocks'[x] = blocks[x]
      /\ blocks'[b].version = blocks[b].version
  BY <1>1 DEF TypesInv, Datum
<1>3. StaysGraph
  BY <1>1, <1>2 DEF StaysGraph, TypesInv
<1>4. m \in Messages'
  BY <1>1 DEF Messages, TypesInv
<1>5. TellsTruth(m)
  BY <1>1 DEF TellsTruth, Removes, TellsThere, TellsBlock, TellsVersion, Adds, IsAnswer,
              DataIn, VersionIn, EdgesIn
<1>6. TellsChange(m)
  BY <1>1, <1>2 DEF TellsChange, ForGraph, TypesInv, Exports
<1>7. ~IsAnswer(m)
  BY DEF IsAnswer
<1> HIDE DEF m
<1> QED BY <1>1, <1>3, <1>4, <1>5, <1>6, <1>7 DEF Notified

\* a setting changes,
LEMMA SettingIsNotified ==
  ASSUME TypesInv, NEW b \in Blocks, SettingChanged(b)
  PROVE  \E m : Notified(m) /\ ~IsAnswer(m)
<1> DEFINE v == blocks[b].version + 1
           m == [kind |-> "setting", block |-> b, version |-> v]
<1>1. /\ toUi' = Append(toUi, m) /\ graph' = graph /\ edges' = edges
      /\ used' = used /\ successors' = successors /\ b \in DOMAIN blocks
      /\ blocks' = [blocks EXCEPT ![b].version = @ + 1]
  BY DEF SettingChanged, Edit
<1>2. /\ DOMAIN blocks' = DOMAIN blocks /\ blocks' \in [DOMAIN blocks' -> Datum]
      /\ \A x \in DOMAIN blocks : x # b => blocks'[x] = blocks[x]
      /\ blocks'[b].ports = blocks[b].ports /\ blocks'[b].version = v /\ v \in Nat
  BY <1>1 DEF TypesInv, Datum
<1> HIDE DEF v
<1>3. StaysGraph
  BY <1>1, <1>2 DEF StaysGraph, TypesInv
<1>4. m \in Messages'
  BY <1>1, <1>2 DEF Messages, TypesInv
<1>5. TellsTruth(m)
  BY <1>1, <1>2 DEF TellsTruth, Removes, TellsThere, TellsBlock, TellsVersion, Adds, IsAnswer,
              DataIn, VersionIn, EdgesIn
<1>6. TellsChange(m)
  BY <1>1, <1>2 DEF TellsChange, ForGraph, TypesInv, TellsVersion
<1>7. ~IsAnswer(m)
  BY DEF IsAnswer
<1> HIDE DEF m
<1> QED BY <1>1, <1>3, <1>4, <1>5, <1>6, <1>7 DEF Notified

\* and the graph is replaced, so that everything has to be asked for.
LEMMA ReplacementIsNotified ==
  ASSUME TypesInv, NEW b \in Blocks, GraphReplaced(b)
  PROVE  \E m : Notified(m) /\ ~IsAnswer(m)
<1> DEFINE m == [kind |-> "running"]
<1>1. /\ toUi' = Append(toUi, m) /\ graph' = graph + 1 /\ edges' = {}
      /\ used' = used \cup {b} /\ b \notin used /\ successors' = successors
      /\ blocks' = With(NoBlocks, b, NewBlock)
  BY DEF GraphReplaced, Edit
<1>2. /\ DOMAIN blocks' = {b} /\ blocks' \in [DOMAIN blocks' -> Datum]
  BY <1>1 DEF With, NoBlocks, NewBlock, Datum
<1>3. StaysGraph
  BY <1>1, <1>2 DEF StaysGraph, TypesInv
<1>4. m \in Messages'
  BY DEF Messages
<1>5. TellsTruth(m)
  BY DEF TellsTruth, Removes, TellsThere, TellsBlock, TellsVersion, Adds, IsAnswer,
         DataIn, VersionIn, EdgesIn
<1>6. TellsChange(m)
  BY <1>1, <1>2 DEF TellsChange, ForGraph, TypesInv
<1>7. ~IsAnswer(m)
  BY DEF IsAnswer
<1> HIDE DEF m
<1> QED BY <1>1, <1>3, <1>4, <1>5, <1>6, <1>7 DEF Notified

\* An answer tells of the graph, too, and the request is no longer asked.
LEMMA AnswerIsNotified ==
  ASSUME TypesInv, Answer
  PROVE  /\ inspections # <<>> /\ inspections' = Tail(inspections)
         /\ \E m : /\ Notified(m) /\ UNCHANGED graphVars
                   /\ IsAnswer(m) <=> Head(inspections) = FullUpdate
                   /\ \A b \in DOMAIN blocks :
                        Head(inspections) = InspectBlock(b) => TellsBlock(m, b)
<1> DEFINE r == Head(inspections)
           m1 == [kind |-> "schedulerInspected", graph |-> graph, blocks |-> blocks,
                  edges |-> edges]
           m2 == [kind |-> "blockInspected", block |-> r.block, data |-> blocks[r.block]]
           m3 == [kind |-> "error"]
<1>1. /\ inspections # <<>> /\ inspections' = Tail(inspections) /\ UNCHANGED graphVars
      /\ toUi' = Append(toUi, IF r.kind = "inspectScheduler" THEN m1
                              ELSE IF r.block \in DOMAIN blocks THEN m2 ELSE m3)
  BY DEF Answer
<1>2. /\ graph' = graph /\ blocks' = blocks /\ edges' = edges /\ used' = used
      /\ successors' = successors
  BY <1>1 DEF graphVars
<1>3. StaysGraph
  BY <1>2 DEF StaysGraph, TypesInv
<1>4. r \in Requests
  BY <1>1 DEF TypesInv
<1>5. ASSUME NEW m, m \in Messages', toUi' = Append(toUi, m), TellsTruth(m),
             m.kind \in ForGraph => m.graph = graph
      PROVE  Notified(m)
  BY <1>2, <1>3, <1>5 DEF Notified, TellsChange
<1>6. CASE r = FullUpdate
  <2>1. toUi' = Append(toUi, m1)
    BY <1>1, <1>6 DEF FullUpdate
  <2>2. m1 \in Messages'
    <3>1. edges \subseteq EdgeOf(Blocks)
      BY DEF TypesInv, EdgeOf
    <3>2. blocks \in UNION {[B -> Datum] : B \in SUBSET used}
      BY DEF TypesInv
    <3> QED BY <1>2, <3>1, <3>2 DEF Messages, TypesInv
  <2>3. TellsTruth(m1)
    BY <1>2 DEF TellsTruth, Removes, TellsThere, TellsBlock, TellsVersion, Adds, IsAnswer,
                DataIn, VersionIn, EdgesIn
  <2>4. IsAnswer(m1) /\ (m1.kind \in ForGraph => m1.graph = graph)
    BY DEF IsAnswer
  <2>5. \A b \in DOMAIN blocks : r # InspectBlock(b)
    BY <1>6 DEF FullUpdate, InspectBlock
  <2> HIDE DEF m1, r
  <2> QED BY <1>1, <1>5, <1>6, <2>1, <2>2, <2>3, <2>4, <2>5 DEF r
<1>7. CASE \E b \in Blocks : r = InspectBlock(b)
  <2>1. PICK c \in Blocks : r = InspectBlock(c)
    BY <1>7
  <2>2. /\ r # FullUpdate /\ r.kind # "inspectScheduler" /\ r.block = c
        /\ \A b : r = InspectBlock(b) => b = c
    <3>1. \A b : InspectBlock(b).block = b
      BY DEF InspectBlock
    <3>2. r.kind = "inspectBlock" /\ FullUpdate.kind = "inspectScheduler"
      BY <2>1 DEF InspectBlock, FullUpdate
    <3> QED BY <2>1, <3>1, <3>2
  <2>3. CASE c \in DOMAIN blocks
    <3>1. toUi' = Append(toUi, m2)
      BY <1>1, <2>2, <2>3
    <3>2. m2 \in Messages'
      BY <1>2, <2>2, <2>3 DEF Messages, TypesInv
    <3>3. TellsTruth(m2)
      BY <1>2, <2>2 DEF TellsTruth, Removes, TellsThere, TellsBlock, TellsVersion, Adds, IsAnswer,
                  DataIn, VersionIn, EdgesIn
    <3>4. ~IsAnswer(m2) /\ (m2.kind \in ForGraph => m2.graph = graph)
      BY DEF IsAnswer, ForGraph
    <3>5. TellsBlock(m2, c)
      BY <2>2 DEF TellsBlock
    <3> HIDE DEF m2, r
    <3> QED BY <1>1, <1>5, <2>2, <3>1, <3>2, <3>3, <3>4, <3>5 DEF r
  <2>4. CASE c \notin DOMAIN blocks
    <3>1. toUi' = Append(toUi, m3)
      BY <1>1, <2>2, <2>4
    <3>2. m3 \in Messages'
      BY DEF Messages
    <3>3. TellsTruth(m3)
      BY DEF TellsTruth, Removes, TellsThere, TellsBlock, TellsVersion, Adds, IsAnswer,
             DataIn, VersionIn, EdgesIn
    <3>4. ~IsAnswer(m3) /\ (m3.kind \in ForGraph => m3.graph = graph)
      BY DEF IsAnswer, ForGraph
    <3> HIDE DEF m3, r
    <3> QED BY <1>1, <1>5, <2>2, <2>4, <3>1, <3>2, <3>3, <3>4 DEF r
  <2> QED BY <2>3, <2>4
<1> QED BY <1>4, <1>6, <1>7 DEF Requests

-----------------------------------------------------------------------------
(* A notification or an answer keeps the invariant.                        *)

\* The queue after the message.
LEMMA NotifiedQueue ==
  ASSUME TypesInv, NEW m, Notified(m)
  PROVE  /\ toUi' \in Seq(Messages') /\ Len(toUi) \in Nat /\ Len(toUi') = Len(toUi) + 1
         /\ \A j \in 1..Len(toUi) : toUi'[j] = toUi[j] /\ toUi[j] \in Messages
         /\ toUi'[Len(toUi) + 1] = m
         /\ \A j \in Nat, k \in 1..(Len(toUi) + 1) : Between(toUi', j, k) = Between(toUi, j, k)
         /\ \A j \in 0..Len(toUi) : Later(toUi', j) = Later(toUi, j) \cup {m}
         /\ MembersOf(toUi') = MembersOf(toUi) \cup {m}
         /\ \A j \in Nat : Later(toUi, j) \subseteq Messages
         /\ MembersOf(toUi) \subseteq Messages
         /\ MembersOf(toUi) = {toUi[j] : j \in 1..Len(toUi)}
<1>1. toUi \in Seq(Messages) /\ toUi' = Append(toUi, m) /\ m \in Messages'
  BY DEF TypesInv, Notified
<1>2. Messages \subseteq Messages'
  BY MessagesGrow DEF TypesInv, Notified, StaysGraph
<1>3. toUi' \in Seq(Messages')
  BY <1>1, <1>2
<1>4. /\ \A j \in Nat : Later(toUi, j) \subseteq Messages
      /\ MembersOf(toUi) = {toUi[j] : j \in 1..Len(toUi)}
  BY <1>1, MembersAre
<1>5. MembersOf(toUi) \subseteq Messages
  BY <1>4 DEF MembersOf
<1>6. Len(toUi) \in Nat /\ \A j \in 1..Len(toUi) : toUi[j] \in Messages
  BY <1>1
<1>7. /\ Len(toUi') = Len(toUi) + 1
      /\ \A j \in 1..Len(toUi) : toUi'[j] = toUi[j]
      /\ toUi'[Len(toUi) + 1] = m
      /\ \A j \in Nat, k \in 1..(Len(toUi) + 1) : Between(toUi', j, k) = Between(toUi, j, k)
      /\ \A j \in 0..Len(toUi) : Later(toUi', j) = Later(toUi, j) \cup {m}
      /\ MembersOf(toUi') = MembersOf(toUi) \cup {m}
  BY <1>1, BetweenAppend
<1> QED BY <1>3, <1>4, <1>5, <1>6, <1>7

\* Messages are of blocks and graphs that were there.
LEMMA NotifiedTypes ==
  ASSUME TypesInv, NEW m, Notified(m), UNCHANGED modelVars, inspections' \in Seq(Requests)
  PROVE  TypesInv'
<1>1. toUi' \in Seq(Messages')
  BY NotifiedQueue
<1>2. StaysGraph
  BY DEF Notified
<1>3. /\ modelGraph' = modelGraph /\ childBlocks' = childBlocks /\ childEdges' = childEdges
      /\ requestedFullUpdate' = requestedFullUpdate /\ selectedBlock' = selectedBlock
      /\ exchanged' = exchanged
  BY DEF modelVars
<1>4. Requests' = Requests
  BY DEF Requests
<1>5. modelGraph' \in 0..graph' \cup {None}
  BY <1>2, <1>3 DEF StaysGraph, TypesInv
<1> QED BY <1>1, <1>2, <1>3, <1>4, <1>5 DEF TypesInv, StaysGraph

\* A new block has a new name, and none that a message removes.
LEMMA NotifiedGone ==
  ASSUME TypesInv, GoneInv, NEW m, Notified(m)
  PROVE  GoneInv'
<1> SUFFICES ASSUME NEW x \in MembersOf(toUi)', NEW b \in used', Removes(x, b)
             PROVE  b \notin DOMAIN blocks'
  BY DEF GoneInv, Removes
<1>1. CASE x = m
  BY <1>1 DEF Notified, TellsTruth
<1>2. CASE x \in MembersOf(toUi)
  <2>1. x \in Messages
    BY <1>2, NotifiedQueue
  <2>2. b \in used
    BY <2>1, KindsOfMessages DEF Removes
  <2> QED BY <1>2, <2>2 DEF GoneInv, Notified, TellsChange
<1> QED BY <1>1, <1>2, NotifiedQueue

\* Blocks that go are said to be removed; those of an older graph are not asked for.
LEMMA NotifiedCleared ==
  ASSUME TypesInv, ClearedInv, NEW m, Notified(m), UNCHANGED modelVars
  PROVE  ClearedInv'
<1> DEFINE n == Len(toUi)
<1>0. /\ n \in Nat /\ Len(toUi') = n + 1
      /\ \A j \in 1..n : toUi'[j] = toUi[j] /\ toUi[j] \in Messages
      /\ toUi'[n + 1] = m
      /\ \A j \in Nat, k \in 1..(n + 1) : Between(toUi', j, k) = Between(toUi, j, k)
      /\ \A j \in 0..n : Later(toUi', j) = Later(toUi, j) \cup {m}
      /\ Later(toUi, 0) = Between(toUi, 0, n + 1)
      /\ Later(toUi', 0) = Between(toUi', 0, Len(toUi') + 1)
  BY NotifiedQueue DEF Later
<1>1. modelGraph' = modelGraph /\ childBlocks' = childBlocks
  BY DEF modelVars
<1>2. StaysGraph /\ TellsTruth(m) /\ TellsChange(m)
  BY DEF Notified
\* What was cleared up to a message that was there is so still.
<1>3. ASSUME NEW k \in 1..(n + 1), NEW g, NEW B, Cleared(k, g, B), g <= graph, g \in Nat
      PROVE  /\ modelGraph' = g => \A b \in DOMAIN childBlocks' \ B : Goes(Between(toUi', 0, k), b, g)
             /\ \A j \in 1..(k - 1) : \A b \in used' \ B :
                  TellsThere(toUi'[j], b) /\ toUi'[j].graph = g => Goes(Between(toUi', j, k), b, g)
  <2>1. \A j \in 1..(k - 1) : j \in 1..n /\ j \in Nat
    BY <1>0
  <2>2. ASSUME NEW j \in 1..(k - 1), NEW b, TellsThere(toUi'[j], b)
        PROVE  TellsThere(toUi[j], b) /\ b \in used
    <3>1. toUi'[j] = toUi[j] /\ toUi[j] \in Messages
      BY <1>0, <2>1
    <3> QED BY <2>2, <3>1, KindsOfMessages DEF TellsThere, Adds, IsAnswer
  <2> HIDE DEF n
  <2> QED BY <1>0, <1>1, <1>3, <2>1, <2>2 DEF Cleared
<1>4. ASSUME NEW k \in 1..Len(toUi'), IsAnswer(toUi'[k])
      PROVE  Cleared(k, toUi[k].graph, DOMAIN toUi[k].blocks)'
  <2>1. CASE k \in 1..n
    <3>1. toUi'[k] = toUi[k] /\ IsAnswer(toUi[k]) /\ toUi[k] \in Messages
      BY <1>0, <1>4, <2>1
    <3>2. Cleared(k, toUi[k].graph, DOMAIN toUi[k].blocks)
      BY <2>1, <3>1 DEF ClearedInv
    <3>3. toUi[k].graph \in Nat /\ toUi[k].graph <= graph
      BY <3>1, KindsOfMessages DEF IsAnswer, TypesInv, ForGraph
    <3>4. k \in 1..(n + 1)
      BY <1>0, <2>1
    <3> DEFINE g == toUi[k].graph
               B == DOMAIN toUi[k].blocks
    <3>5. /\ modelGraph' = g =>
               \A b \in DOMAIN childBlocks' \ B : Goes(Between(toUi', 0, k), b, g)
          /\ \A j \in 1..(k - 1) : \A b \in used' \ B :
               TellsThere(toUi'[j], b) /\ toUi'[j].graph = g => Goes(Between(toUi', j, k), b, g)
      <4> HIDE DEF g, B
      <4>1. Cleared(k, g, B) /\ g \in Nat /\ g <= graph
        BY <3>2, <3>3 DEF g, B
      <4> QED BY <1>3, <3>4, <4>1
    <3> QED BY <3>1, <3>5 DEF Cleared
  <2>2. CASE k = n + 1
    <3>1. toUi'[k] = m /\ IsAnswer(m)
      BY <1>0, <1>4, <2>2
    <3>2. m.graph = graph' /\ DOMAIN m.blocks = DOMAIN blocks'
      BY <1>2, <3>1 DEF TellsTruth
    <3>3. graph' = graph /\ m.graph = graph
      BY <1>2, <3>1, <3>2 DEF TellsChange, IsAnswer
    <3>4. Cleared(n + 1, graph, DOMAIN blocks)
      BY DEF ClearedInv
    <3>5. n + 1 \in 1..(n + 1) /\ graph \in Nat /\ graph <= graph
      BY <1>0 DEF TypesInv
    <3>6. DOMAIN blocks \subseteq DOMAIN blocks'
      BY <1>2, <3>1, <3>3 DEF TellsChange, IsAnswer, Removes
    <3>7. /\ modelGraph' = graph =>
               \A b \in DOMAIN childBlocks' \ DOMAIN blocks :
                 Goes(Between(toUi', 0, n + 1), b, graph)
          /\ \A j \in 1..(n + 1 - 1) : \A b \in used' \ DOMAIN blocks :
               TellsThere(toUi'[j], b) /\ toUi'[j].graph = graph =>
                 Goes(Between(toUi', j, n + 1), b, graph)
      BY <1>3, <3>4, <3>5
    <3> HIDE DEF n
    <3>8. toUi'[k] = m /\ toUi'[k].graph = graph /\ DOMAIN toUi'[k].blocks = DOMAIN blocks'
      BY <3>1, <3>2, <3>3
    <3>9. modelGraph' = toUi'[k].graph =>
            \A b \in DOMAIN childBlocks' \ DOMAIN toUi'[k].blocks :
              Goes(Between(toUi', 0, k), b, toUi'[k].graph)
      BY <2>2, <3>6, <3>7, <3>8
    <3>10. \A j \in 1..(k - 1) : \A b \in used' \ DOMAIN toUi'[k].blocks :
             TellsThere(toUi'[j], b) /\ toUi'[j].graph = toUi'[k].graph =>
               Goes(Between(toUi', j, k), b, toUi'[k].graph)
      <4>1. k - 1 = n + 1 - 1
        BY <1>0, <2>2
      <4> SUFFICES ASSUME NEW j \in 1..(n + 1 - 1), NEW b \in used', b \notin DOMAIN blocks',
                          TellsThere(toUi'[j], b), toUi'[j].graph = graph
                   PROVE  Goes(Between(toUi', j, k), b, graph)
        BY <3>8, <4>1
      <4>2. b \in used' \ DOMAIN blocks
        BY <3>6
      <4> QED BY <2>2, <3>7, <4>2
    <3> QED BY <3>9, <3>10 DEF Cleared
  <2> QED BY <1>0, <2>1, <2>2
<1>5. Cleared(Len(toUi) + 1, graph, DOMAIN blocks)'
  <2>1. CASE graph' # graph
    <3>1. graph' > graph
      BY <1>2, <2>1 DEF StaysGraph, TypesInv
    <3>2. modelGraph' # graph'
      BY <1>1, <3>1, GraphModelAssumption, <1>2 DEF TypesInv, StaysGraph
    <3>3. m.kind = "running"
      BY <1>2, <2>1 DEF TellsChange
    <3>4. ASSUME NEW j \in 1..(n + 1), NEW b, TellsThere(toUi'[j], b)
          PROVE  toUi'[j].graph # graph'
      <4>1. j # n + 1
        BY <1>0, <3>3, <3>4 DEF TellsThere, Adds, IsAnswer
      <4>2. toUi'[j] \in Messages
        BY <1>0, <4>1
      <4> QED BY <3>1, <3>4, <4>2, KindsOfMessages DEF TellsThere, Adds, IsAnswer, TypesInv, ForGraph
    <3> QED BY <1>0, <3>2, <3>4 DEF Cleared
  <2>2. CASE graph' = graph
    <3>1. Cleared(n + 1, graph, DOMAIN blocks)
      BY DEF ClearedInv
    <3>2. \A b \in DOMAIN blocks \ DOMAIN blocks' : Removes(m, b) /\ m.graph = graph
      BY <1>2, <2>2 DEF TellsChange
    <3>3. ASSUME NEW j \in 0..n, NEW b, b \notin DOMAIN blocks',
                 b \notin DOMAIN blocks => Goes(Between(toUi, j, n + 1), b, graph)
          PROVE  Goes(Between(toUi', j, Len(toUi') + 1), b, graph)
      <4>1. Between(toUi', j, Len(toUi') + 1) = Between(toUi, j, n + 1) \cup {m}
        BY <1>0 DEF Later
      <4> QED BY <3>2, <3>3, <4>1 DEF Goes
    <3>4. ASSUME modelGraph' = graph', NEW b \in DOMAIN childBlocks', b \notin DOMAIN blocks'
          PROVE  Goes(Between(toUi', 0, Len(toUi') + 1), b, graph')
      <4>1. 0 \in 0..n
        BY <1>0
      <4>2. b \notin DOMAIN blocks => Goes(Between(toUi, 0, n + 1), b, graph)
        BY <1>1, <2>2, <3>1, <3>4 DEF Cleared
      <4> QED BY <2>2, <3>3, <3>4, <4>1, <4>2
    <3>5. ASSUME NEW j \in 1..(Len(toUi') + 1 - 1), NEW b \in used', b \notin DOMAIN blocks',
                 TellsThere(toUi'[j], b), toUi'[j].graph = graph'
          PROVE  Goes(Between(toUi', j, Len(toUi') + 1), b, graph')
      <4>1. j \in 1..n
        BY <1>0, <1>2, <3>5 DEF TellsTruth
      <4>2. toUi'[j] = toUi[j] /\ toUi[j] \in Messages
        BY <1>0, <4>1
      <4>3. b \in used
        BY <3>5, <4>2, KindsOfMessages DEF TellsThere, Adds, IsAnswer
      <4>4. j \in 1..(n + 1 - 1) /\ j \in 0..n
        BY <1>0, <4>1
      <4>5. b \notin DOMAIN blocks => Goes(Between(toUi, j, n + 1), b, graph)
        BY <2>2, <3>1, <3>5, <4>2, <4>3, <4>4 DEF Cleared
      <4> QED BY <2>2, <3>3, <3>5, <4>4, <4>5
    <3> QED BY <3>4, <3>5 DEF Cleared
  <2> QED BY <2>1, <2>2
<1>6. ASSUME NEW k \in (1..Len(toUi))', IsAnswer(toUi[k])'
      PROVE  Cleared(k, toUi[k].graph, DOMAIN toUi[k].blocks)'
  BY <1>4, <1>6 DEF IsAnswer
<1> QED BY <1>5, <1>6 DEF ClearedInv

\* A request for a block is kept or answered.
RequestsKept(m) ==
  \A b \in DOMAIN blocks : InspectBlock(b) \in MembersOf(inspections) =>
    InspectBlock(b) \in MembersOf(inspections') \/ TellsBlock(m, b)

\* What was true or corrected by messages L is so with one message more.
LEMMA NotifiedCorrects ==
  ASSUME TypesInv, NEW m, Notified(m), RequestsKept(m), NEW L, NEW b \in DOMAIN blocks'
  PROVE  /\ b \in used => b \in DOMAIN blocks
         /\ b \in DOMAIN blocks =>
              /\ \A p : p = blocks[b].ports \/ PortsFollow(L, MembersOf(inspections), b) =>
                   \/ p = blocks'[b].ports
                   \/ PortsFollow(L \cup {m}, MembersOf(inspections'), b)
              /\ \A v : v = blocks[b].version \/ VersionFollows(L, b) =>
                   v = blocks'[b].version \/ VersionFollows(L \cup {m}, b)
<1>1. TellsChange(m)
  BY DEF Notified
<1>2. b \in used => b \in DOMAIN blocks
  BY <1>1 DEF TellsChange
<1>3. ASSUME b \in DOMAIN blocks, NEW p,
             p = blocks[b].ports \/ PortsFollow(L, MembersOf(inspections), b)
      PROVE  p = blocks'[b].ports \/ PortsFollow(L \cup {m}, MembersOf(inspections'), b)
  <2>1. blocks'[b].ports = blocks[b].ports \/ Exports(m, b)
    BY <1>1, <1>3 DEF TellsChange
  <2> QED BY <1>3, <2>1 DEF PortsFollow, RequestsKept
<1>4. ASSUME b \in DOMAIN blocks, NEW v, v = blocks[b].version \/ VersionFollows(L, b)
      PROVE  v = blocks'[b].version \/ VersionFollows(L \cup {m}, b)
  <2>1. blocks'[b].version = blocks[b].version \/ TellsVersion(m, b)
    BY <1>1, <1>4 DEF TellsChange
  <2> QED BY <1>4, <2>1 DEF VersionFollows
<1> QED BY <1>2, <1>3, <1>4

\* An edge that is gone is said to be.
LEMMA NotifiedEdges ==
  ASSUME NEW m, Notified(m), NEW L, NEW e, e \notin edges', e \notin edges => EdgeGoes(L, e)
  PROVE  EdgeGoes(L \cup {m}, e)
<1>1. CASE e \in edges
  BY <1>1 DEF Notified, TellsChange, EdgeGoes
<1>2. CASE e \notin edges
  BY <1>2 DEF EdgeGoes
<1> QED BY <1>1, <1>2

\* What is told and is no longer true is corrected by the new message.
LEMMA NotifiedTold ==
  ASSUME TypesInv, ToldInv, NEW m, Notified(m), RequestsKept(m)
  PROVE  ToldInv'
<1> DEFINE n == Len(toUi)
           I == MembersOf(inspections)
<1>0. /\ n \in Nat /\ Len(toUi') = n + 1 /\ toUi'[n + 1] = m
      /\ \A j \in 1..n : toUi'[j] = toUi[j] /\ toUi[j] \in Messages
      /\ \A j \in 0..n : Later(toUi', j) = Later(toUi, j) \cup {m}
  BY NotifiedQueue
<1>1. StaysGraph /\ TellsTruth(m) /\ TellsChange(m)
  BY DEF Notified
<1>2. ASSUME NEW j \in 1..n
      PROVE  /\ \A b \in DOMAIN blocks' :
                  /\ TellsBlock(toUi[j], b) =>
                       \/ DataIn(toUi[j], b).ports = blocks'[b].ports
                       \/ PortsFollow(Later(toUi, j) \cup {m}, MembersOf(inspections'), b)
                  /\ TellsVersion(toUi[j], b) =>
                       \/ VersionIn(toUi[j], b) = blocks'[b].version
                       \/ VersionFollows(Later(toUi, j) \cup {m}, b)
             /\ \A e \in EdgesIn(toUi[j]) \ edges' : EdgeGoes(Later(toUi, j) \cup {m}, e)
  <2> DEFINE x == toUi[j]
             L == Later(toUi, j)
  <2>1. x \in Messages
    BY <1>0
  <2>2. /\ \A b \in DOMAIN blocks :
             /\ TellsBlock(x, b) => DataIn(x, b).ports = blocks[b].ports \/ PortsFollow(L, I, b)
             /\ TellsVersion(x, b) => VersionIn(x, b) = blocks[b].version \/ VersionFollows(L, b)
        /\ \A e \in EdgesIn(x) \ edges : EdgeGoes(L, e)
    BY DEF ToldInv
  <2> HIDE DEF x, L, n
  <2>3. \A b : TellsVersion(x, b) => b \in used
    BY <2>1, KindsOfMessages DEF TellsVersion, TellsBlock, TellsThere, Adds, IsAnswer
  <2>4. \A b : TellsBlock(x, b) => TellsVersion(x, b)
    BY DEF TellsVersion
  <2>5. ASSUME NEW b \in DOMAIN blocks', TellsVersion(x, b)
        PROVE  /\ TellsBlock(x, b) =>
                    \/ DataIn(x, b).ports = blocks'[b].ports
                    \/ PortsFollow(L \cup {m}, MembersOf(inspections'), b)
               /\ VersionIn(x, b) = blocks'[b].version \/ VersionFollows(L \cup {m}, b)
    <3>1. b \in DOMAIN blocks
      BY <2>3, <2>5, NotifiedCorrects
    <3>2. /\ \A p : p = blocks[b].ports \/ PortsFollow(L, I, b) =>
               \/ p = blocks'[b].ports
               \/ PortsFollow(L \cup {m}, MembersOf(inspections'), b)
          /\ \A v : v = blocks[b].version \/ VersionFollows(L, b) =>
               v = blocks'[b].version \/ VersionFollows(L \cup {m}, b)
      BY <3>1, NotifiedCorrects
    <3> QED BY <2>2, <2>5, <3>1, <3>2
  <2>6. \A e \in EdgesIn(x) \ edges' : EdgeGoes(L \cup {m}, e)
    BY <2>2, NotifiedEdges
  <2> QED BY <2>4, <2>5, <2>6 DEF x, L
<1>3. /\ \A b \in DOMAIN blocks' :
           /\ TellsBlock(m, b) => DataIn(m, b).ports = blocks'[b].ports
           /\ TellsVersion(m, b) => VersionIn(m, b) = blocks'[b].version
      /\ EdgesIn(m) \subseteq edges'
  BY <1>1 DEF TellsTruth
<1>4. ASSUME NEW j \in 1..Len(toUi')
      PROVE  /\ \A b \in DOMAIN blocks' :
                  /\ TellsBlock(toUi'[j], b) =>
                       \/ DataIn(toUi'[j], b).ports = blocks'[b].ports
                       \/ PortsFollow(Later(toUi', j), MembersOf(inspections'), b)
                  /\ TellsVersion(toUi'[j], b) =>
                       \/ VersionIn(toUi'[j], b) = blocks'[b].version
                       \/ VersionFollows(Later(toUi', j), b)
             /\ \A e \in EdgesIn(toUi'[j]) \ edges' : EdgeGoes(Later(toUi', j), e)
  <2>1. CASE j \in 1..n
    <3>1. toUi'[j] = toUi[j] /\ Later(toUi', j) = Later(toUi, j) \cup {m}
      BY <1>0, <2>1
    <3> QED BY <1>2, <2>1, <3>1
  <2>2. CASE j = n + 1
    <3>1. toUi'[j] = m
      BY <1>0, <2>2
    <3> QED BY <1>3, <3>1
  <2> QED BY <1>0, <2>1, <2>2
<1> HIDE DEF n
<1> QED BY <1>4 DEF ToldInv

\* What is new is told, or the graph is.
LEMMA NotifiedComplete ==
  ASSUME NEW m, Notified(m), NEW g, NEW B, NEW E, NEW L, Complete(g, B, E, L)
  PROVE  \/ \E x \in L \cup {m} : x.kind = "running"
         \/ /\ g = graph'
            /\ \A b \in DOMAIN blocks' \ B : \E x \in L \cup {m} : Adds(x, b) /\ x.graph = graph'
            /\ \A e \in edges' \ E : \/ {e[1], e[3]} \cap successors' # {}
                                     \/ \E x \in L \cup {m} : x.kind = "edgeEmplaced" /\ x.edge = e
<1>1. StaysGraph /\ TellsChange(m)
  BY DEF Notified
<1>2. CASE \E x \in L \cup {m} : x.kind = "running"
  BY <1>2
<1>3. CASE ~ \E x \in L \cup {m} : x.kind = "running"
  <2>1. /\ g = graph
        /\ \A b \in DOMAIN blocks \ B : \E x \in L : Adds(x, b) /\ x.graph = graph
        /\ \A e \in edges \ E : \/ {e[1], e[3]} \cap successors # {}
                                \/ \E x \in L : x.kind = "edgeEmplaced" /\ x.edge = e
    BY <1>3 DEF Complete
  <2>2. m.kind # "running" /\ graph' = graph
    BY <1>1, <1>3 DEF TellsChange
  <2>3. ASSUME NEW b \in DOMAIN blocks', b \notin B
        PROVE  \E x \in L \cup {m} : Adds(x, b) /\ x.graph = graph'
    <3>1. CASE b \in DOMAIN blocks
      BY <2>1, <2>2, <2>3, <3>1
    <3>2. CASE b \notin DOMAIN blocks
      <4>1. Adds(m, b)
        BY <1>1, <2>2, <2>3, <3>2 DEF TellsChange
      <4>2. m.graph = graph'
        BY <1>1, <4>1 DEF TellsChange, Adds, ForGraph
      <4> QED BY <4>1, <4>2
    <3> QED BY <3>1, <3>2
  <2>4. ASSUME NEW e \in edges', e \notin E
        PROVE  \/ {e[1], e[3]} \cap successors' # {}
               \/ \E x \in L \cup {m} : x.kind = "edgeEmplaced" /\ x.edge = e
    <3>1. CASE e \in edges
      <4>1. {e[1], e[3]} \cap successors # {} => {e[1], e[3]} \cap successors' # {}
        BY <1>1 DEF StaysGraph
      <4> QED BY <2>1, <2>4, <3>1, <4>1
    <3>2. CASE e \notin edges
      BY <1>1, <2>4, <3>2 DEF TellsChange
    <3> QED BY <3>1, <3>2
  <2> QED BY <2>1, <2>2, <2>3, <2>4
<1> QED BY <1>2, <1>3

\* Answers lack only what is told after them.
LEMMA NotifiedAnswers ==
  ASSUME TypesInv, AnswerInv, NEW m, Notified(m)
  PROVE  AnswerInv'
<1> DEFINE n == Len(toUi)
<1>0. /\ n \in Nat /\ Len(toUi') = n + 1 /\ toUi'[n + 1] = m
      /\ \A j \in 1..n : toUi'[j] = toUi[j]
      /\ \A j \in 0..n : Later(toUi', j) = Later(toUi, j) \cup {m}
  BY NotifiedQueue
<1>1. ASSUME NEW k \in 1..Len(toUi'), IsAnswer(toUi'[k])
      PROVE  /\ toUi'[k].edges \subseteq EdgeOf(DOMAIN toUi'[k].blocks)
             /\ Complete(toUi[k].graph, DOMAIN toUi[k].blocks, toUi[k].edges, Later(toUi, k))'
  <2>1. CASE k \in 1..n
    <3> DEFINE x == toUi[k]
               L == Later(toUi, k)
    <3>1. toUi'[k] = x /\ Later(toUi', k) = L \cup {m}
      BY <1>0, <2>1
    <3>2. x.edges \subseteq EdgeOf(DOMAIN x.blocks) /\ Complete(x.graph, DOMAIN x.blocks, x.edges, L)
      BY <1>1, <2>1, <3>1 DEF AnswerInv
    <3> HIDE DEF x, L
    <3>3. \/ \E y \in L \cup {m} : y.kind = "running"
          \/ /\ x.graph = graph'
             /\ \A b \in DOMAIN blocks' \ DOMAIN x.blocks :
                  \E y \in L \cup {m} : Adds(y, b) /\ y.graph = graph'
             /\ \A e \in edges' \ x.edges :
                  \/ {e[1], e[3]} \cap successors' # {}
                  \/ \E y \in L \cup {m} : y.kind = "edgeEmplaced" /\ y.edge = e
      BY <3>2, NotifiedComplete
    <3> QED BY <3>1, <3>2, <3>3 DEF Complete, Adds
  <2>2. CASE k = n + 1
    <3>1. toUi'[k] = m /\ IsAnswer(m)
      BY <1>0, <1>1, <2>2
    <3>2. m.graph = graph' /\ DOMAIN m.blocks = DOMAIN blocks' /\ m.edges = edges'
      BY <3>1 DEF Notified, TellsTruth
    <3>3. edges' \subseteq EdgeOf(DOMAIN blocks')
      BY DEF Notified, StaysGraph
    <3> QED BY <3>1, <3>2, <3>3 DEF Complete
  <2> QED BY <1>0, <2>1, <2>2
<1> QED BY <1>1 DEF AnswerInv, IsAnswer

\* The model lacks only what the messages tell.
LEMMA NotifiedModel ==
  ASSUME TypesInv, ModelInv, NEW m, Notified(m), RequestsKept(m), UNCHANGED modelVars
  PROVE  ModelInv'
<1> DEFINE L == MembersOf(toUi)
           B == DOMAIN childBlocks
           I == MembersOf(inspections)
<1>1. /\ MembersOf(toUi)' = L \cup {m} /\ DOMAIN childBlocks' = B /\ SeenEdges' = SeenEdges
      /\ modelGraph' = modelGraph /\ childBlocks' = childBlocks
      /\ requestedFullUpdate' = requestedFullUpdate
  BY NotifiedQueue DEF modelVars, SeenEdges
<1> SUFFICES ASSUME ~requestedFullUpdate
             PROVE  /\ Complete(modelGraph, DOMAIN childBlocks, SeenEdges, MembersOf(toUi))'
                    /\ \A b \in DOMAIN childBlocks' \cap DOMAIN blocks' :
                         /\ \/ childBlocks'[b].ports = blocks'[b].ports
                            \/ PortsFollow(MembersOf(toUi)', MembersOf(inspections)', b)
                         /\ \/ childBlocks'[b].version = blocks'[b].version
                            \/ VersionFollows(MembersOf(toUi)', b)
                    /\ \A e \in SeenEdges' \ edges' : EdgeGoes(MembersOf(toUi)', e)
  BY <1>1 DEF ModelInv
<1>2. Complete(modelGraph, B, SeenEdges, L)
  BY DEF ModelInv
<1>3. Complete(modelGraph, DOMAIN childBlocks, SeenEdges, MembersOf(toUi))'
  <2> DEFINE S == SeenEdges
  <2>1. SeenEdges' = S
    BY <1>1
  <2> HIDE DEF L, B, S
  <2>2. Complete(modelGraph, B, S, L)
    BY <1>2 DEF S
  <2>3. \/ \E y \in L \cup {m} : y.kind = "running"
        \/ /\ modelGraph = graph'
           /\ \A b \in DOMAIN blocks' \ B : \E y \in L \cup {m} : Adds(y, b) /\ y.graph = graph'
           /\ \A e \in edges' \ S : \/ {e[1], e[3]} \cap successors' # {}
                                    \/ \E y \in L \cup {m} : y.kind = "edgeEmplaced" /\ y.edge = e
    BY <2>2, NotifiedComplete
  <2> QED BY <1>1, <2>1, <2>3 DEF Complete, Adds
<1>4. ASSUME NEW b \in B \cap DOMAIN blocks'
      PROVE  /\ \/ childBlocks[b].ports = blocks'[b].ports
                \/ PortsFollow(L \cup {m}, MembersOf(inspections'), b)
             /\ \/ childBlocks[b].version = blocks'[b].version
                \/ VersionFollows(L \cup {m}, b)
  <2>1. b \in used
    BY DEF TypesInv
  <2>2. b \in DOMAIN blocks
    BY <2>1, NotifiedCorrects
  <2>3. /\ childBlocks[b].ports = blocks[b].ports \/ PortsFollow(L, I, b)
        /\ childBlocks[b].version = blocks[b].version \/ VersionFollows(L, b)
    BY <2>2 DEF ModelInv
  <2> HIDE DEF L
  <2> QED BY <2>2, <2>3, NotifiedCorrects
<1>5. ASSUME NEW e \in SeenEdges, e \notin edges'
      PROVE  EdgeGoes(L \cup {m}, e)
  <2>1. e \notin edges => EdgeGoes(L, e)
    BY DEF ModelInv
  <2> HIDE DEF L
  <2> QED BY <1>5, <2>1, NotifiedEdges
<1> HIDE DEF L, B
<1> QED BY <1>1, <1>3, <1>4, <1>5

\* A notification, which is not an answer.
LEMMA NotifiedInv ==
  ASSUME ReplicaInv, NEW m, Notified(m), ~IsAnswer(m), UNCHANGED <<inspections, modelVars>>
  PROVE  ReplicaInv'
<1> USE DEF ReplicaInv
<1>1. RequestsKept(m) /\ inspections' \in Seq(Requests)
  BY DEF RequestsKept, TypesInv
<1>2. TypesInv' /\ GoneInv' /\ ClearedInv' /\ ToldInv' /\ AnswerInv' /\ ModelInv'
  BY <1>1, NotifiedTypes, NotifiedGone, NotifiedCleared, NotifiedTold, NotifiedAnswers, NotifiedModel
<1>3. RequestInv'
  <2> DEFINE n == Len(toUi)
  <2>1. /\ n \in Nat /\ Len(toUi') = n + 1 /\ toUi'[n + 1] = m
        /\ \A j \in 1..n : toUi'[j] = toUi[j]
        /\ MembersOf(toUi') = MembersOf(toUi) \cup {m}
    BY NotifiedQueue
  <2>2. inspections' = inspections /\ requestedFullUpdate' = requestedFullUpdate
    BY DEF modelVars
  <2>3. ASSUME NEW i \in 1..Len(toUi'), IsAnswer(toUi'[i])
        PROVE  i \in 1..n /\ IsAnswer(toUi[i])
    <3>1. i # n + 1
      BY <2>1, <2>3
    <3> QED BY <2>1, <2>3, <3>1
  <2>4. \A i, k \in 1..Len(toUi') : IsAnswer(toUi'[i]) /\ IsAnswer(toUi'[k]) => i = k
    BY <2>3 DEF RequestInv
  <2>5. (\E x \in MembersOf(toUi') : IsAnswer(x)) <=> \E x \in MembersOf(toUi) : IsAnswer(x)
    BY <2>1
  <2> QED BY <2>2, <2>4, <2>5 DEF RequestInv, IsAnswer
<1>4. SelectionInv'
  BY DEF SelectionInv, modelVars
<1> QED BY <1>2, <1>3, <1>4

\* An answer, which takes the place of its request.
LEMMA AnswerInvariant ==
  ASSUME ReplicaInv, Answer
  PROVE  ReplicaInv'
<1> USE DEF ReplicaInv
<1>1. inspections # <<>> /\ inspections' = Tail(inspections) /\ UNCHANGED modelVars
  BY DEF Answer
<1>2. PICK m : /\ Notified(m) /\ UNCHANGED graphVars
               /\ IsAnswer(m) <=> Head(inspections) = FullUpdate
               /\ \A b \in DOMAIN blocks : Head(inspections) = InspectBlock(b) => TellsBlock(m, b)
  BY AnswerIsNotified
<1> DEFINE r == Head(inspections)
<1>3. /\ r = inspections[1] /\ inspections' \in Seq(Requests)
      /\ Len(inspections) \in Nat \ {0} /\ Len(inspections') = Len(inspections) - 1
      /\ \A j \in 1..Len(inspections') :
           inspections'[j] = inspections[j + 1] /\ j + 1 \in 1..Len(inspections)
      /\ MembersOf(inspections) = {r} \cup MembersOf(inspections')
      /\ MembersOf(inspections') = {inspections'[j] : j \in 1..Len(inspections')}
  <2>1. inspections \in Seq(Requests)
    BY DEF TypesInv
  <2>2. /\ r = inspections[1] /\ Tail(inspections) \in Seq(Requests)
        /\ Len(inspections) \in Nat \ {0} /\ Len(Tail(inspections)) = Len(inspections) - 1
        /\ \A j \in 1..Len(Tail(inspections)) :
             Tail(inspections)[j] = inspections[j + 1] /\ j + 1 \in 1..Len(inspections)
        /\ MembersOf(inspections) = {r} \cup MembersOf(Tail(inspections))
    <3>1. IsTail(inspections, Tail(inspections), Requests)
      BY <1>1, <2>1, BetweenTail
    <3> QED BY <3>1 DEF IsTail
  <2>3. MembersOf(Tail(inspections)) = {Tail(inspections)[j] : j \in 1..Len(Tail(inspections))}
    BY <2>2, MembersAre
  <2> QED BY <1>1, <2>2, <2>3
<1>4. RequestsKept(m)
  BY <1>2, <1>3 DEF RequestsKept
<1>5. TypesInv' /\ GoneInv' /\ ClearedInv' /\ ToldInv' /\ AnswerInv' /\ ModelInv'
  BY <1>1, <1>2, <1>3, <1>4, NotifiedTypes, NotifiedGone, NotifiedCleared, NotifiedTold,
     NotifiedAnswers, NotifiedModel
<1>6. SelectionInv'
  BY <1>1 DEF SelectionInv, modelVars
<1>7. RequestInv'
  <2> DEFINE n == Len(toUi)
  <2>1. /\ n \in Nat /\ Len(toUi') = n + 1 /\ toUi'[n + 1] = m
        /\ \A j \in 1..n : toUi'[j] = toUi[j]
        /\ MembersOf(toUi') = MembersOf(toUi) \cup {m}
        /\ MembersOf(toUi) = {toUi[j] : j \in 1..n}
    BY <1>2, NotifiedQueue
  <2>2. requestedFullUpdate' = requestedFullUpdate
    BY <1>1 DEF modelVars
  <2>3. \A i, k \in 1..Len(inspections') :
          inspections'[i] = FullUpdate /\ inspections'[k] = FullUpdate => i = k
    <3> SUFFICES ASSUME NEW i \in 1..Len(inspections'), NEW k \in 1..Len(inspections'),
                        inspections'[i] = FullUpdate, inspections'[k] = FullUpdate
                 PROVE  i = k
      OBVIOUS
    <3>1. /\ i + 1 \in 1..Len(inspections) /\ inspections[i + 1] = FullUpdate
          /\ k + 1 \in 1..Len(inspections) /\ inspections[k + 1] = FullUpdate
      BY <1>3
    <3>2. i + 1 = k + 1
      BY <3>1 DEF RequestInv
    <3> QED BY <3>2, <1>3
  <2>4. CASE r = FullUpdate
    <3>1. IsAnswer(m)
      BY <1>2, <2>4
    <3>2. requestedFullUpdate /\ ~ \E x \in MembersOf(toUi) : IsAnswer(x)
      BY <1>3, <2>4 DEF RequestInv
    <3>3. ~ \E x \in MembersOf(inspections') : x = FullUpdate
      <4> SUFFICES ASSUME NEW j \in 1..Len(inspections'), inspections'[j] = FullUpdate
                   PROVE  FALSE
        BY <1>3
      <4>1. j + 1 = 1
        <5>1. 1 \in 1..Len(inspections) /\ inspections[1] = FullUpdate
          BY <1>3, <2>4
        <5>2. j + 1 \in 1..Len(inspections) /\ inspections[j + 1] = FullUpdate
          BY <1>3
        <5> QED BY <5>1, <5>2 DEF RequestInv
      <4> QED BY <4>1
    <3>4. \A i \in 1..Len(toUi') : IsAnswer(toUi'[i]) => i = n + 1
      <4> SUFFICES ASSUME NEW i \in 1..Len(toUi'), IsAnswer(toUi'[i]), i # n + 1
                   PROVE  FALSE
        OBVIOUS
      <4>1. i \in 1..n /\ toUi'[i] = toUi[i]
        BY <2>1
      <4> QED BY <2>1, <3>2, <4>1
    <3>5. \A i, k \in 1..Len(toUi') : IsAnswer(toUi'[i]) /\ IsAnswer(toUi'[k]) => i = k
      BY <3>4
    <3>6. \E x \in MembersOf(toUi') : IsAnswer(x)
      BY <2>1, <3>1
    <3> QED BY <2>2, <2>3, <3>2, <3>3, <3>5, <3>6 DEF RequestInv, IsAnswer
  <2>5. CASE r # FullUpdate
    <3>1. ~IsAnswer(m)
      BY <1>2, <2>5
    <3>2. (\E x \in MembersOf(inspections') : x = FullUpdate) <=>
            \E x \in MembersOf(inspections) : x = FullUpdate
      BY <1>3, <2>5
    <3>3. (\E x \in MembersOf(toUi') : IsAnswer(x)) <=> \E x \in MembersOf(toUi) : IsAnswer(x)
      BY <2>1, <3>1
    <3>4. ASSUME NEW i \in 1..Len(toUi'), IsAnswer(toUi'[i])
          PROVE  i \in 1..n /\ IsAnswer(toUi[i])
      <4>1. i # n + 1
        BY <2>1, <3>1, <3>4
      <4> QED BY <2>1, <3>4, <4>1
    <3>5. \A i, k \in 1..Len(toUi') : IsAnswer(toUi'[i]) /\ IsAnswer(toUi'[k]) => i = k
      BY <3>4 DEF RequestInv
    <3> QED BY <2>2, <2>3, <3>2, <3>3, <3>5 DEF RequestInv, IsAnswer
  <2> QED BY <2>4, <2>5
<1> QED BY <1>5, <1>6, <1>7

-----------------------------------------------------------------------------
(* What handling a message does to the model.                              *)

\* The model's part of the types.
ModelTypes ==
  /\ modelGraph \in 0..graph \cup {None}
  /\ DOMAIN childBlocks \subseteq used
  /\ childBlocks \in [DOMAIN childBlocks -> ChildData]
  /\ childEdges \subseteq (DOMAIN childBlocks) \X Nat \X Nat \X (DOMAIN childBlocks)
  /\ requestedFullUpdate \in BOOLEAN /\ exchanged \in BOOLEAN
  /\ selectedBlock \in Blocks \cup {None}

\* Blocks of the model were there, and are not removed from its graph, or are told of.
BlocksFollow(m) ==
  \A b \in DOMAIN childBlocks' :
    \/ /\ b \in DOMAIN childBlocks /\ modelGraph' = modelGraph
       /\ ~(Removes(m, b) /\ m.graph = modelGraph)
    \/ TellsThere(m, b) /\ m.graph = modelGraph'

\* The model is what it was, but for what the message tells.
FollowsMessage(m) ==
  /\ modelGraph' = modelGraph /\ ~requestedFullUpdate
  /\ m.kind \notin {"running", "edgeRemoved"}
  /\ \A b \in DOMAIN childBlocks : Removes(m, b) \/ b \in DOMAIN childBlocks'
  /\ \A b \in used : Adds(m, b) => b \in DOMAIN childBlocks'
  /\ \A b \in DOMAIN childBlocks' :
       /\ \/ TellsBlock(m, b) /\ childBlocks'[b].ports = DataIn(m, b).ports
          \/ /\ b \in DOMAIN childBlocks /\ childBlocks'[b].ports = childBlocks[b].ports
             /\ ~TellsBlock(m, b)
             /\ Exports(m, b) => InspectBlock(b) \in MembersOf(inspections')
       /\ \/ TellsVersion(m, b) /\ childBlocks'[b].version = VersionIn(m, b)
          \/ /\ b \in DOMAIN childBlocks /\ childBlocks'[b].version = childBlocks[b].version
             /\ ~TellsVersion(m, b)
  /\ \A e \in SeenEdges' : \/ e \in EdgesIn(m)
                           \/ e \in SeenEdges /\ ~Removes(m, e[1]) /\ ~Removes(m, e[3])
  /\ \A e \in SeenEdges : Removes(m, e[1]) \/ Removes(m, e[3]) \/ e \in SeenEdges'
  /\ EdgesIn(m) \subseteq SeenEdges'

\* The model is what the answer tells.
FollowsAnswer(m) ==
  /\ modelGraph' = m.graph /\ DOMAIN childBlocks' = DOMAIN m.blocks /\ SeenEdges' = m.edges
  /\ \A b \in DOMAIN childBlocks' : /\ childBlocks'[b].ports = m.blocks[b].ports
                                    /\ childBlocks'[b].version = m.blocks[b].version

\* A full update is asked for, a block is, or nothing.
AsksAtMost ==
  \/ inspections' = Append(inspections, FullUpdate) /\ ~requestedFullUpdate /\ requestedFullUpdate'
  \/ /\ requestedFullUpdate' = requestedFullUpdate
     /\ \E b \in Blocks : inspections' = Append(inspections, InspectBlock(b))
  \/ inspections' = inspections /\ requestedFullUpdate' = requestedFullUpdate

Processed(m) ==
  /\ ModelTypes' /\ BlocksFollow(m)
  /\ SelectionInv => SelectionInv'
  /\ ~IsAnswer(m) /\ AsksAtMost /\ (~requestedFullUpdate' => FollowsMessage(m))

\* The edges of the model that do not touch a block, as they are seen.
LEMMA UntouchedEdges ==
  ASSUME TypesInv, NEW b
  PROVE  /\ Untouched(childEdges, b) \subseteq
              (DOMAIN childBlocks \ {b}) \X Nat \X Nat \X (DOMAIN childBlocks \ {b})
         /\ {<<e[1], e[2], e[4]>> : e \in Untouched(childEdges, b)} =
              {s \in SeenEdges : s[1] # b /\ s[3] # b}
<1> DEFINE B == DOMAIN childBlocks
<1>1. childEdges \subseteq B \X Nat \X Nat \X B
  BY DEF TypesInv
<1> HIDE DEF B
<1>2. \A e \in childEdges : Len(e) = 4
  BY <1>1
<1>3. Untouched(childEdges, b) = {e \in childEdges : e[1] # b /\ e[4] # b}
  BY <1>2 DEF Untouched
<1>4. Untouched(childEdges, b) \subseteq (B \ {b}) \X Nat \X Nat \X (B \ {b})
  BY <1>1, <1>3
<1>5. {<<e[1], e[2], e[4]>> : e \in Untouched(childEdges, b)} =
        {s \in SeenEdges : s[1] # b /\ s[3] # b}
  BY <1>3 DEF SeenEdges
<1> QED BY <1>4, <1>5 DEF B

\* A message that is not understood, or an error, changes nothing but the requests.
LEMMA NotUnderstood ==
  ASSUME TypesInv, NEW m \in Messages, ~IsAnswer(m),
         UNCHANGED <<modelGraph, childBlocks, childEdges, selectedBlock, exchanged, graph, used>>,
         \/ RequestFullUpdate
         \/ m.kind = "error" /\ UNCHANGED <<inspections, requestedFullUpdate>>,
         \/ modelGraph = None \/ m.kind \notin {"removed", "replaced"} \/ m.graph # modelGraph
         \/ m.kind = "removed" /\ m.block \notin DOMAIN childBlocks
  PROVE  Processed(m)
<1>1. ModelTypes'
  BY DEF TypesInv, ModelTypes, RequestFullUpdate
<1>2. BlocksFollow(m)
  <2>1. m.kind \in {"removed", "replaced"} => m.graph \in Nat
    BY KindsOfMessages DEF ForGraph, TypesInv
  <2>2. \A b \in DOMAIN childBlocks : ~(Removes(m, b) /\ m.graph = modelGraph)
    BY <2>1, GraphModelAssumption DEF Removes
  <2> QED BY <2>2 DEF BlocksFollow
<1>3. SelectionInv => SelectionInv'
  BY DEF SelectionInv
<1>4. AsksAtMost
  <2>1. inspections \o <<FullUpdate>> = Append(inspections, FullUpdate)
    BY DEF TypesInv
  <2> QED BY <2>1 DEF AsksAtMost, RequestFullUpdate, Send, TypesInv
<1>5. ASSUME ~requestedFullUpdate' PROVE FollowsMessage(m)
  <2>1. m.kind = "error" /\ ~requestedFullUpdate
    BY <1>5 DEF RequestFullUpdate
  <2> QED BY <2>1 DEF FollowsMessage, Removes, Adds, TellsBlock, TellsVersion, TellsThere,
                      IsAnswer, Exports, EdgesIn, SeenEdges
<1> QED BY <1>1, <1>2, <1>3, <1>4, <1>5 DEF Processed

\* What setBlockData stores of a block.
LEMMA StoredData ==
  ASSUME TypesInv, NEW b, NEW data \in Datum
  PROVE  /\ BlockData(b, data) \in ChildData
         /\ BlockData(b, data).ports = data.ports /\ BlockData(b, data).version = data.version
<1>1. Vector(b) \in Nat
  BY DEF Vector, TypesInv, ChildData
<1> QED BY <1>1 DEF BlockData, Datum, ChildData

\* The requests of a full update, and of none.
LEMMA Asking ==
  ASSUME TypesInv
  PROVE  /\ RequestFullUpdate => AsksAtMost /\ requestedFullUpdate'
         /\ NoRequest => AsksAtMost /\ requestedFullUpdate' = requestedFullUpdate
                         /\ inspections' = inspections
         /\ requestedFullUpdate' = requestedFullUpdate => requestedFullUpdate' \in BOOLEAN
         /\ requestedFullUpdate' => requestedFullUpdate' \in BOOLEAN
<1>1. inspections \o <<FullUpdate>> = Append(inspections, FullUpdate)
  BY DEF TypesInv
<1>2. requestedFullUpdate \in BOOLEAN
  BY DEF TypesInv
<1>3. RequestFullUpdate => AsksAtMost /\ requestedFullUpdate'
  BY <1>1 DEF RequestFullUpdate, AsksAtMost, Send
<1>4. NoRequest => AsksAtMost /\ requestedFullUpdate' = requestedFullUpdate
                   /\ inspections' = inspections
  BY DEF NoRequest, AsksAtMost
<1> QED BY <1>2, <1>3, <1>4

\* A message for the graph of the model.
ForModel(m) == modelGraph # None /\ m.graph = modelGraph

\* A block that is not known, or known, is stored.
LEMMA HandlesEmplaced ==
  ASSUME TypesInv, NEW m \in Messages, m.kind = "emplaced", ForModel(m), HandleEmplaced(m),
         UNCHANGED <<modelGraph, exchanged, graph, used>>
  PROVE  Processed(m)
<1> DEFINE b == m.block
           B == DOMAIN childBlocks
<1>1. b \in used /\ m.data \in Datum
  BY KindsOfMessages
<1>2. /\ childBlocks' = Emplace(childBlocks, b, m.data) /\ childEdges' = childEdges
      /\ selectedBlock' = selectedBlock /\ NoRequest
  BY DEF HandleEmplaced
<1>3. /\ BlockData(b, m.data).ports = m.data.ports /\ BlockData(b, m.data).version = m.data.version
      /\ DOMAIN childBlocks' = B \cup {b}
      /\ childBlocks' \in [B \cup {b} -> ChildData]
      /\ childBlocks'[b] = BlockData(b, m.data)
      /\ \A x \in B \ {b} : childBlocks'[x] = childBlocks[x]
  <2>1. childBlocks \in [B -> ChildData]
    BY DEF TypesInv
  <2>2. childBlocks' = [x \in B \cup {b} |-> IF x = b THEN BlockData(b, m.data) ELSE childBlocks[x]]
    BY <1>2 DEF Emplace, With
  <2>3. /\ BlockData(b, m.data) \in ChildData
        /\ BlockData(b, m.data).ports = m.data.ports /\ BlockData(b, m.data).version = m.data.version
    BY <1>1, StoredData
  <2> QED BY <2>1, <2>2, <2>3
<1>4. SeenEdges' = SeenEdges
  BY <1>2 DEF SeenEdges
<1>5. /\ \A x : ~Removes(m, x) /\ ~Exports(m, x)
      /\ \A x : TellsBlock(m, x) <=> x = b
      /\ \A x : TellsVersion(m, x) <=> x = b
      /\ \A x : TellsThere(m, x) <=> x = b
      /\ \A x : Adds(m, x) <=> x = b
      /\ ~IsAnswer(m) /\ EdgesIn(m) = {}
      /\ DataIn(m, b) = m.data /\ VersionIn(m, b) = m.data.version
  BY DEF Removes, Exports, TellsBlock, TellsVersion, TellsThere, Adds, IsAnswer, EdgesIn, DataIn, VersionIn
<1>6. ModelTypes'
  <2>1. childEdges' \subseteq (B \cup {b}) \X Nat \X Nat \X (B \cup {b})
    BY <1>2 DEF TypesInv
  <2>2. requestedFullUpdate' \in BOOLEAN
    BY <1>2 DEF NoRequest, TypesInv
  <2> QED BY <1>1, <1>2, <1>3, <2>1, <2>2 DEF ModelTypes, TypesInv
<1>7. BlocksFollow(m)
  BY <1>3, <1>5 DEF BlocksFollow, ForModel
<1>8. SelectionInv => SelectionInv'
  BY <1>2, <1>3 DEF SelectionInv
<1>9. AsksAtMost /\ requestedFullUpdate' = requestedFullUpdate
  BY <1>2, Asking
<1>10. ASSUME ~requestedFullUpdate' PROVE FollowsMessage(m)
  BY <1>1, <1>3, <1>4, <1>5, <1>9, <1>10 DEF FollowsMessage
<1> QED BY <1>5, <1>6, <1>7, <1>8, <1>9, <1>10 DEF Processed

\* A known block goes with its edges and its selection.
LEMMA HandlesRemoved ==
  ASSUME TypesInv, NEW m \in Messages, m.kind = "removed", ForModel(m), HandleRemoved(m),
         UNCHANGED <<modelGraph, exchanged, graph, used>>
  PROVE  Processed(m)
<1> DEFINE b == m.block
           B == DOMAIN childBlocks
<1>1. CASE b \notin B
  BY <1>1, NotUnderstood DEF HandleRemoved, IsAnswer
<1>2. CASE b \in B
  <2>1. /\ childBlocks' = Without(childBlocks, b) /\ childEdges' = Untouched(childEdges, b)
        /\ Deselect(b) /\ NoRequest
    BY <1>2 DEF HandleRemoved
  <2>2. /\ DOMAIN childBlocks' = B \ {b}
        /\ childBlocks' \in [B \ {b} -> ChildData]
        /\ \A x \in B \ {b} : childBlocks'[x] = childBlocks[x]
    BY <2>1 DEF TypesInv, Without
  <2>3. /\ childEdges' \subseteq (B \ {b}) \X Nat \X Nat \X (B \ {b})
        /\ SeenEdges' = {s \in SeenEdges : s[1] # b /\ s[3] # b}
    BY <2>1, UntouchedEdges DEF SeenEdges
  <2>4. /\ \A x : Removes(m, x) <=> x = b
        /\ \A x : ~TellsVersion(m, x) /\ ~TellsBlock(m, x) /\ ~TellsThere(m, x)
        /\ \A x : ~Adds(m, x) /\ ~Exports(m, x)
        /\ ~IsAnswer(m) /\ EdgesIn(m) = {}
    BY DEF Removes, Exports, TellsBlock, TellsVersion, TellsThere, Adds, IsAnswer, EdgesIn
  <2>5. selectedBlock' \in Blocks \cup {None} /\ (SelectionInv => SelectionInv')
    BY <2>1, <2>2 DEF Deselect, SelectionInv, TypesInv
  <2>6. ModelTypes'
    <3>1. requestedFullUpdate' \in BOOLEAN
      BY <2>1 DEF NoRequest, TypesInv
    <3> QED BY <2>2, <2>3, <2>5, <3>1 DEF ModelTypes, TypesInv
  <2>7. BlocksFollow(m)
    BY <2>2, <2>4 DEF BlocksFollow
  <2>8. AsksAtMost /\ requestedFullUpdate' = requestedFullUpdate
    BY <2>1, Asking
  <2>9. ASSUME ~requestedFullUpdate' PROVE FollowsMessage(m)
    BY <2>2, <2>3, <2>4, <2>8, <2>9 DEF FollowsMessage
  <2> QED BY <2>4, <2>5, <2>6, <2>7, <2>8, <2>9 DEF Processed
<1> QED BY <1>1, <1>2

\* The old block goes, if it is known, and the new one is stored in any case.
LEMMA HandlesReplaced ==
  ASSUME TypesInv, NEW m \in Messages, m.kind = "replaced", ForModel(m), HandleReplaced(m),
         UNCHANGED <<modelGraph, exchanged, graph, used>>
  PROVE  Processed(m)
<1> DEFINE a == m.old
           b == m.block
           B == DOMAIN childBlocks
           W == Without(childBlocks, a)
<1>1. b \in used /\ m.data \in Datum
  BY KindsOfMessages
<1>2. /\ childBlocks' = Emplace(W, b, m.data) /\ childEdges' = Untouched(childEdges, a)
      /\ Deselect(a) /\ (IF a \in B THEN NoRequest ELSE RequestFullUpdate)
  BY DEF HandleReplaced
<1>3. /\ W \in [B \ {a} -> ChildData]
      /\ \A x \in B \ {a} : W[x] = childBlocks[x]
  BY DEF TypesInv, Without
<1>4. /\ BlockData(b, m.data).ports = m.data.ports /\ BlockData(b, m.data).version = m.data.version
      /\ DOMAIN childBlocks' = (B \ {a}) \cup {b}
      /\ childBlocks' \in [(B \ {a}) \cup {b} -> ChildData]
      /\ childBlocks'[b] = BlockData(b, m.data)
      /\ \A x \in (B \ {a}) \ {b} : childBlocks'[x] = childBlocks[x]
  <2>1. childBlocks' =
          [x \in (B \ {a}) \cup {b} |-> IF x = b THEN BlockData(b, m.data) ELSE childBlocks[x]]
    BY <1>2 DEF Emplace, With, Without
  <2>2. /\ BlockData(b, m.data) \in ChildData
        /\ BlockData(b, m.data).ports = m.data.ports /\ BlockData(b, m.data).version = m.data.version
    BY <1>1, StoredData
  <2> QED BY <1>3, <2>1, <2>2
<1>5. /\ childEdges' \subseteq (B \ {a}) \X Nat \X Nat \X (B \ {a})
      /\ SeenEdges' = {s \in SeenEdges : s[1] # a /\ s[3] # a}
  BY <1>2, UntouchedEdges DEF SeenEdges
<1>6. /\ \A x : Removes(m, x) <=> x = a
      /\ \A x : ~Exports(m, x)
      /\ \A x : TellsBlock(m, x) <=> x = b
      /\ \A x : TellsVersion(m, x) <=> x = b
      /\ \A x : TellsThere(m, x) <=> x = b
      /\ \A x : Adds(m, x) <=> x = b
      /\ ~IsAnswer(m) /\ EdgesIn(m) = {}
      /\ DataIn(m, b) = m.data /\ VersionIn(m, b) = m.data.version
  BY DEF Removes, Exports, TellsBlock, TellsVersion, TellsThere, Adds, IsAnswer, EdgesIn, DataIn, VersionIn
<1>7. selectedBlock' \in Blocks \cup {None} /\ (SelectionInv => SelectionInv')
  BY <1>2, <1>4 DEF Deselect, SelectionInv, TypesInv
<1>8. AsksAtMost /\ requestedFullUpdate' \in BOOLEAN /\ (~requestedFullUpdate' => ~requestedFullUpdate)
  BY <1>2, Asking DEF TypesInv
<1>9. ModelTypes'
  <2>1. childEdges' \subseteq ((B \ {a}) \cup {b}) \X Nat \X Nat \X ((B \ {a}) \cup {b})
    BY <1>5
  <2> QED BY <1>1, <1>4, <1>7, <1>8, <2>1 DEF ModelTypes, TypesInv
<1>10. BlocksFollow(m)
  BY <1>4, <1>6 DEF BlocksFollow, ForModel
<1>11. ASSUME ~requestedFullUpdate' PROVE FollowsMessage(m)
  BY <1>1, <1>4, <1>5, <1>6, <1>8, <1>11 DEF FollowsMessage
<1> QED BY <1>6, <1>7, <1>8, <1>9, <1>10, <1>11 DEF Processed

\* An edge is stored if its ports are known.
LEMMA HandlesEdgeEmplaced ==
  ASSUME TypesInv, NEW m \in Messages, m.kind = "edgeEmplaced", ForModel(m), HandleEdgeEmplaced(m),
         UNCHANGED <<modelGraph, exchanged, graph, used>>
  PROVE  Processed(m)
<1> DEFINE e == m.edge
           B == DOMAIN childBlocks
<1>1. CASE ~Parses(e, childBlocks)
  BY <1>1, NotUnderstood DEF HandleEdgeEmplaced, IsAnswer
<1>2. CASE Parses(e, childBlocks)
  <2>1. /\ childBlocks' = childBlocks /\ childEdges' = childEdges \cup {Parsed(e, childBlocks)}
        /\ selectedBlock' = selectedBlock /\ NoRequest
    BY <1>2 DEF HandleEdgeEmplaced
  <2>2. /\ e[1] \in B /\ e[3] \in B /\ e[2] \in Nat /\ e = <<e[1], e[2], e[3]>>
        /\ childBlocks[e[1]].vector \in Nat
    <3>1. e \in EdgeOf(Blocks)
      BY KindsOfMessages
    <3>2. e[1] \in B /\ e[3] \in B
      BY <1>2 DEF Parses
    <3>3. childBlocks[e[1]] \in ChildData
      BY <3>2 DEF TypesInv
    <3> QED BY <3>1, <3>2, <3>3 DEF EdgeOf, ChildData
  <2>3. /\ childEdges' \subseteq B \X Nat \X Nat \X B
        /\ SeenEdges' = SeenEdges \cup {e}
    <3> DEFINE p == Parsed(e, childBlocks)
    <3>1. /\ p \in B \X Nat \X Nat \X B
          /\ <<p[1], p[2], p[4]>> = e
      BY <2>2 DEF Parsed
    <3> HIDE DEF p
    <3>2. childEdges' = childEdges \cup {p}
      BY <2>1 DEF p
    <3> QED BY <3>1, <3>2 DEF SeenEdges, TypesInv
  <2>4. /\ \A x : ~Removes(m, x)
        /\ \A x : ~TellsVersion(m, x) /\ ~TellsBlock(m, x) /\ ~TellsThere(m, x)
        /\ \A x : ~Adds(m, x) /\ ~Exports(m, x)
        /\ ~IsAnswer(m) /\ EdgesIn(m) = {e}
    BY DEF Removes, Exports, TellsBlock, TellsVersion, TellsThere, Adds, IsAnswer, EdgesIn
  <2>5. ModelTypes'
    BY <2>1, <2>3 DEF ModelTypes, TypesInv, NoRequest
  <2>6. BlocksFollow(m) /\ (SelectionInv => SelectionInv')
    BY <2>1, <2>4 DEF BlocksFollow, SelectionInv
  <2>7. AsksAtMost /\ requestedFullUpdate' = requestedFullUpdate
    BY <2>1, Asking
  <2>8. ASSUME ~requestedFullUpdate' PROVE FollowsMessage(m)
    BY <2>1, <2>3, <2>4, <2>7, <2>8 DEF FollowsMessage
  <2> QED BY <2>4, <2>5, <2>6, <2>7, <2>8 DEF Processed
<1> QED BY <1>1, <1>2

\* A known block is inspected.
LEMMA HandlesExported ==
  ASSUME TypesInv, NEW m \in Messages, m.kind = "exported", HandleExported(m),
         UNCHANGED <<modelGraph, exchanged, graph, used>>
  PROVE  Processed(m)
<1> DEFINE b == m.block
           B == DOMAIN childBlocks
<1>1. CASE b \notin B
  BY <1>1, NotUnderstood DEF HandleExported, IsAnswer
<1>2. CASE b \in B
  <2>1. /\ childBlocks' = childBlocks /\ childEdges' = childEdges
        /\ selectedBlock' = selectedBlock /\ Send(<<InspectBlock(b)>>)
        /\ requestedFullUpdate' = requestedFullUpdate
    BY <1>2 DEF HandleExported
  <2>2. b \in Blocks
    BY <1>2 DEF TypesInv
  <2>3. inspections' = Append(inspections, InspectBlock(b))
    BY <2>1 DEF Send, TypesInv
  <2>4. InspectBlock(b) \in MembersOf(inspections')
    <3>1. inspections \in Seq(Requests)
      BY DEF TypesInv
    <3>2. MembersOf(Append(inspections, InspectBlock(b))) = MembersOf(inspections) \cup {InspectBlock(b)}
      BY <3>1, BetweenAppend
    <3> QED BY <2>3, <3>2
  <2>5. /\ \A x : ~Removes(m, x)
        /\ \A x : ~TellsVersion(m, x) /\ ~TellsBlock(m, x) /\ ~TellsThere(m, x)
        /\ \A x : ~Adds(m, x)
        /\ \A x : Exports(m, x) <=> x = b
        /\ ~IsAnswer(m) /\ EdgesIn(m) = {}
    BY DEF Removes, Exports, TellsBlock, TellsVersion, TellsThere, Adds, IsAnswer, EdgesIn
  <2>6. ModelTypes'
    BY <2>1 DEF ModelTypes, TypesInv
  <2>7. BlocksFollow(m) /\ (SelectionInv => SelectionInv')
    BY <2>1, <2>5 DEF BlocksFollow, SelectionInv
  <2>8. AsksAtMost
    BY <2>1, <2>2, <2>3 DEF AsksAtMost
  <2>9. ASSUME ~requestedFullUpdate' PROVE FollowsMessage(m)
    <3>1. SeenEdges' = SeenEdges
      BY <2>1 DEF SeenEdges
    <3> QED BY <2>1, <2>4, <2>5, <2>9, <3>1 DEF FollowsMessage
  <2> QED BY <2>5, <2>6, <2>7, <2>8, <2>9 DEF Processed
<1> QED BY <1>1, <1>2

\* What is known of a block is stored anew.
LEMMA HandlesInspected ==
  ASSUME TypesInv, NEW m \in Messages, m.kind = "blockInspected", HandleInspected(m),
         UNCHANGED <<modelGraph, exchanged, graph, used>>
  PROVE  Processed(m)
<1> DEFINE b == m.block
           B == DOMAIN childBlocks
<1>1. CASE b \notin B
  BY <1>1, NotUnderstood DEF HandleInspected, IsAnswer
<1>2. CASE b \in B
  <2>1. /\ childBlocks' = Emplace(childBlocks, b, m.data) /\ childEdges' = childEdges
        /\ selectedBlock' = selectedBlock /\ NoRequest
    BY <1>2 DEF HandleInspected
  <2>2. b \in used /\ m.data \in Datum
    BY KindsOfMessages
  <2>3. /\ BlockData(b, m.data).ports = m.data.ports /\ BlockData(b, m.data).version = m.data.version
        /\ childBlocks' \in [B -> ChildData]
        /\ DOMAIN childBlocks' = B
        /\ childBlocks'[b] = BlockData(b, m.data)
        /\ \A x \in B \ {b} : childBlocks'[x] = childBlocks[x]
    <3>1. childBlocks \in [B -> ChildData]
      BY DEF TypesInv
    <3>2. childBlocks' = [x \in B |-> IF x = b THEN BlockData(b, m.data) ELSE childBlocks[x]]
      <4>1. B \cup {b} = B
        BY <1>2
      <4> QED BY <2>1, <4>1 DEF Emplace, With
    <3>3. /\ BlockData(b, m.data) \in ChildData
          /\ BlockData(b, m.data).ports = m.data.ports /\ BlockData(b, m.data).version = m.data.version
      BY <2>2, StoredData
    <3> QED BY <1>2, <3>1, <3>2, <3>3
  <2>4. /\ \A x : ~Removes(m, x) /\ ~Exports(m, x) /\ ~TellsThere(m, x) /\ ~Adds(m, x)
        /\ \A x : TellsBlock(m, x) <=> x = b
        /\ \A x : TellsVersion(m, x) <=> x = b
        /\ ~IsAnswer(m) /\ EdgesIn(m) = {}
        /\ DataIn(m, b) = m.data /\ VersionIn(m, b) = m.data.version
    BY DEF Removes, Exports, TellsBlock, TellsVersion, TellsThere, Adds, IsAnswer, EdgesIn, DataIn, VersionIn
  <2>5. ModelTypes'
    <3>1. requestedFullUpdate' \in BOOLEAN
      BY <2>1 DEF NoRequest, TypesInv
    <3> QED BY <2>1, <2>3, <3>1 DEF ModelTypes, TypesInv
  <2>6. BlocksFollow(m) /\ (SelectionInv => SelectionInv')
    BY <2>1, <2>3, <2>4 DEF BlocksFollow, SelectionInv
  <2>7. AsksAtMost /\ requestedFullUpdate' = requestedFullUpdate
    BY <2>1, Asking
  <2>8. ASSUME ~requestedFullUpdate' PROVE FollowsMessage(m)
    <3>1. SeenEdges' = SeenEdges
      BY <2>1 DEF SeenEdges
    <3> QED BY <1>2, <2>3, <2>4, <2>7, <2>8, <3>1 DEF FollowsMessage
  <2> QED BY <2>4, <2>5, <2>6, <2>7, <2>8 DEF Processed
<1> QED BY <1>1, <1>2

\* The settings of a known block change.
LEMMA HandlesSetting ==
  ASSUME TypesInv, NEW m \in Messages, m.kind = "setting", HandleSetting(m),
         UNCHANGED <<modelGraph, exchanged, graph, used>>
  PROVE  Processed(m)
<1> DEFINE b == m.block
           B == DOMAIN childBlocks
<1>1. CASE b \notin B
  BY <1>1, NotUnderstood DEF HandleSetting, IsAnswer
<1>2. CASE b \in B
  <2>1. /\ childBlocks' = [childBlocks EXCEPT ![b].version = m.version] /\ childEdges' = childEdges
        /\ selectedBlock' = selectedBlock /\ NoRequest
    BY <1>2 DEF HandleSetting
  <2>2. m.version \in Nat
    BY KindsOfMessages
  <2>3. /\ childBlocks' \in [B -> ChildData] /\ DOMAIN childBlocks' = B
        /\ childBlocks'[b].version = m.version /\ childBlocks'[b].ports = childBlocks[b].ports
        /\ \A x \in B \ {b} : childBlocks'[x] = childBlocks[x]
    BY <1>2, <2>1, <2>2 DEF TypesInv, ChildData
  <2>4. /\ \A x : ~Removes(m, x) /\ ~Exports(m, x) /\ ~TellsThere(m, x) /\ ~Adds(m, x)
        /\ \A x : ~TellsBlock(m, x)
        /\ \A x : TellsVersion(m, x) <=> x = b
        /\ ~IsAnswer(m) /\ EdgesIn(m) = {}
        /\ VersionIn(m, b) = m.version
    BY DEF Removes, Exports, TellsBlock, TellsVersion, TellsThere, Adds, IsAnswer, EdgesIn, VersionIn
  <2>5. ModelTypes'
    <3>1. requestedFullUpdate' \in BOOLEAN
      BY <2>1 DEF NoRequest, TypesInv
    <3> QED BY <2>1, <2>3, <3>1 DEF ModelTypes, TypesInv
  <2>6. BlocksFollow(m) /\ (SelectionInv => SelectionInv')
    BY <2>1, <2>3, <2>4 DEF BlocksFollow, SelectionInv
  <2>7. AsksAtMost /\ requestedFullUpdate' = requestedFullUpdate
    BY <2>1, Asking
  <2>8. ASSUME ~requestedFullUpdate' PROVE FollowsMessage(m)
    <3>1. SeenEdges' = SeenEdges
      BY <2>1 DEF SeenEdges
    <3> QED BY <2>3, <2>4, <2>7, <2>8, <3>1 DEF FollowsMessage
  <2> QED BY <2>4, <2>5, <2>6, <2>7, <2>8 DEF Processed
<1> QED BY <1>1, <1>2

\* The answer to a full update.
LEMMA HandlesAnswer ==
  ASSUME TypesInv, NEW m \in Messages, IsAnswer(m), m.edges \subseteq EdgeOf(DOMAIN m.blocks),
         m.graph = modelGraph => DOMAIN childBlocks \subseteq DOMAIN m.blocks,
         HandleSchedulerInspected(m), UNCHANGED <<graph, used>>
  PROVE  /\ ModelTypes' /\ FollowsAnswer(m)
         /\ inspections' = inspections /\ ~requestedFullUpdate'
         /\ SelectionInv => SelectionInv'
<1> DEFINE B == DOMAIN m.blocks
<1>1. /\ modelGraph' = m.graph
      /\ childBlocks' = [b \in B |-> BlockData(b, m.blocks[b])]
      /\ childEdges' = {Parsed(e, childBlocks') : e \in m.edges}
      /\ requestedFullUpdate' = FALSE
      /\ exchanged' = (exchanged \/ (modelGraph # m.graph /\ selectedBlock # None))
      /\ inspections' = inspections /\ selectedBlock' = selectedBlock
  BY DEF HandleSchedulerInspected
<1>2. m.graph \in 0..graph /\ B \subseteq used /\ m.blocks \in [B -> Datum]
  BY KindsOfMessages DEF IsAnswer, ForGraph
<1>3. \A b \in B : /\ BlockData(b, m.blocks[b]) \in ChildData
                   /\ BlockData(b, m.blocks[b]).ports = m.blocks[b].ports
                   /\ BlockData(b, m.blocks[b]).version = m.blocks[b].version
  BY <1>2, StoredData
<1> HIDE DEF B
<1>4. /\ DOMAIN childBlocks' = B /\ childBlocks' \in [B -> ChildData]
      /\ \A b \in B : /\ childBlocks'[b].ports = m.blocks[b].ports
                      /\ childBlocks'[b].version = m.blocks[b].version
  BY <1>1, <1>3
<1>5. childEdges' \subseteq B \X Nat \X Nat \X B /\ SeenEdges' = m.edges
  <2>1. \A e \in m.edges : /\ e[1] \in B /\ e[2] \in Nat /\ e[3] \in B /\ e = <<e[1], e[2], e[3]>>
    BY DEF EdgeOf, B
  <2>2. \A e \in m.edges : childBlocks'[e[1]].vector \in Nat
    BY <1>4, <2>1 DEF ChildData
  <2>3. \A e \in m.edges :
          /\ Parsed(e, childBlocks') \in B \X Nat \X Nat \X B
          /\ <<Parsed(e, childBlocks')[1], Parsed(e, childBlocks')[2], Parsed(e, childBlocks')[4]>> = e
    BY <2>1, <2>2 DEF Parsed
  <2>4. childEdges' \subseteq B \X Nat \X Nat \X B
    BY <1>1, <2>3
  <2>5. SeenEdges' = {<<p[1], p[2], p[4]>> : p \in {Parsed(e, childBlocks') : e \in m.edges}}
    BY <1>1 DEF SeenEdges
  <2>6. \A s \in SeenEdges' : s \in m.edges
    <3> TAKE s \in SeenEdges'
    <3>1. PICK e \in m.edges :
            s = <<Parsed(e, childBlocks')[1], Parsed(e, childBlocks')[2], Parsed(e, childBlocks')[4]>>
      BY <2>5
    <3> QED BY <2>3, <3>1
  <2>7. \A s \in m.edges : s \in SeenEdges'
    BY <2>3, <2>5
  <2> QED BY <2>4, <2>6, <2>7
<1>6. exchanged \in BOOLEAN /\ exchanged' \in BOOLEAN
  BY <1>1 DEF TypesInv
<1>7. ModelTypes'
  BY <1>1, <1>2, <1>4, <1>5, <1>6 DEF ModelTypes, TypesInv
<1>8. FollowsAnswer(m)
  BY <1>1, <1>4, <1>5 DEF FollowsAnswer, B
<1>9. ASSUME SelectionInv PROVE SelectionInv'
  <2>1. CASE modelGraph = m.graph
    BY <1>1, <1>4, <1>6, <1>9, <2>1 DEF SelectionInv, B
  <2>2. CASE modelGraph # m.graph
    BY <1>1, <1>6, <2>2 DEF SelectionInv
  <2> QED BY <2>1, <2>2
<1> QED BY <1>1, <1>7, <1>8, <1>9

-----------------------------------------------------------------------------
(* Handling a message keeps the invariant.                                 *)

\* The queue without its first message.
LEMMA TakenQueue ==
  ASSUME TypesInv, toUi # <<>>, toUi' = Tail(toUi)
  PROVE  /\ Head(toUi) = toUi[1] /\ Head(toUi) \in Messages /\ toUi' \in Seq(Messages)
         /\ Len(toUi) \in Nat \ {0} /\ Len(toUi') = Len(toUi) - 1
         /\ \A j \in 1..Len(toUi') : /\ toUi'[j] = toUi[j + 1] /\ j + 1 \in 1..Len(toUi)
                                     /\ toUi'[j] \in Messages
         /\ \A j, k \in Nat : k <= Len(toUi) => Between(toUi', j, k) = Between(toUi, j + 1, k + 1)
         /\ \A j \in Nat : Later(toUi', j) = Later(toUi, j + 1)
         /\ \A k \in 2..(Len(toUi) + 1) :
              Between(toUi, 0, k) = {Head(toUi)} \cup Between(toUi, 1, k)
         /\ Between(toUi, 0, 1) = {}
         /\ MembersOf(toUi) = {Head(toUi)} \cup MembersOf(toUi')
         /\ MembersOf(toUi') = Later(toUi, 1)
         /\ MembersOf(toUi) = {toUi[j] : j \in 1..Len(toUi)}
         /\ MembersOf(toUi') = {toUi'[j] : j \in 1..Len(toUi')}
<1> DEFINE q == toUi
           t == toUi'
<1>1. q \in Seq(Messages)
  BY DEF TypesInv
<1>2. IsTail(q, t, Messages)
  <2>1. IsTail(q, Tail(q), Messages)
    BY <1>1, BetweenTail
  <2> QED BY <2>1
<1> HIDE DEF q, t
<1>3. /\ Head(q) = q[1] /\ Head(q) \in Messages /\ t \in Seq(Messages)
      /\ Len(q) \in Nat \ {0} /\ Len(t) = Len(q) - 1
      /\ \A j \in 1..Len(t) : t[j] = q[j + 1] /\ j + 1 \in 1..Len(q)
  BY <1>2 DEF IsTail
<1>4. /\ \A j, k \in Nat : k <= Len(q) => Between(t, j, k) = Between(q, j + 1, k + 1)
      /\ \A j \in Nat : Later(t, j) = Later(q, j + 1)
      /\ \A k \in 2..(Len(q) + 1) : Between(q, 0, k) = {Head(q)} \cup Between(q, 1, k)
      /\ Between(q, 0, 1) = {}
      /\ MembersOf(q) = {Head(q)} \cup MembersOf(t)
  BY <1>2 DEF IsTail
<1>5. MembersOf(q) = {q[j] : j \in 1..Len(q)} /\ MembersOf(t) = {t[j] : j \in 1..Len(t)}
  <2>1. q \in Seq(Messages) /\ t \in Seq(Messages)
    BY <1>1, <1>3
  <2>2. ASSUME NEW r \in Seq(Messages) PROVE MembersOf(r) = {r[j] : j \in 1..Len(r)}
    BY MembersAre
  <2> QED BY <2>1, <2>2
<1>6. MembersOf(t) = Later(q, 1)
  <2>1. Later(t, 0) = Later(q, 0 + 1)
    BY <1>4
  <2> QED BY <2>1 DEF MembersOf
<1>7. \A j \in 1..Len(t) : t[j] = q[j + 1] /\ j + 1 \in 1..Len(q) /\ t[j] \in Messages
  BY <1>3, ElementOfSeq
<1> QED BY <1>3, <1>4, <1>5, <1>6, <1>7 DEF q, t

\* The first message is handled.
Answered(m) ==
  /\ IsAnswer(m) /\ ModelTypes' /\ FollowsAnswer(m)
  /\ inspections' = inspections /\ ~requestedFullUpdate' /\ SelectionInv'
Handled ==
  /\ toUi # <<>> /\ toUi' = Tail(toUi) /\ UNCHANGED graphVars
  /\ Answered(Head(toUi)) \/ Processed(Head(toUi))

\* A step of the model handles a message.
LEMMA ProcessMessageHandles ==
  ASSUME ReplicaInv, ProcessMessage
  PROVE  Handled
<1> USE DEF ReplicaInv, Handled, Answered
<1> DEFINE m == Head(toUi)
<1>1. toUi # <<>> /\ toUi' = Tail(toUi) /\ UNCHANGED graphVars
  BY DEF ProcessMessage
<1>2. graph' = graph /\ used' = used
  BY <1>1 DEF graphVars
<1>3. m = toUi[1] /\ m \in Messages /\ 1 \in 1..Len(toUi) /\ Between(toUi, 0, 1) = {}
  BY <1>1, TakenQueue
<1>4. m.kind \in Kinds /\ ("graph" \in DOMAIN m <=> m.kind \in ForGraph)
  BY <1>3, KindsOfMessages
<1> HIDE DEF m
<1>5. CASE IsAnswer(m)
  <2>1. HandleSchedulerInspected(m)
    BY <1>5 DEF ProcessMessage, IsAnswer, m
  <2>2. m.edges \subseteq EdgeOf(DOMAIN m.blocks)
    BY <1>3, <1>5 DEF AnswerInv
  <2>3. m.graph = modelGraph => DOMAIN childBlocks \subseteq DOMAIN m.blocks
    <3>1. Cleared(1, m.graph, DOMAIN m.blocks)
      BY <1>3, <1>5 DEF ClearedInv
    <3> QED BY <1>3, <3>1 DEF Cleared, Goes
  <2>4. /\ ModelTypes' /\ FollowsAnswer(m)
        /\ inspections' = inspections /\ ~requestedFullUpdate' /\ SelectionInv'
    BY <1>2, <1>3, <1>5, <2>1, <2>2, <2>3, HandlesAnswer
  <2> QED BY <1>1, <1>5, <2>4 DEF m
<1>6. CASE ~IsAnswer(m)
  <2>1. m.kind # "schedulerInspected"
    BY <1>6 DEF IsAnswer
  <2>2. CASE m.kind = "error"
    <3>1. UNCHANGED <<modelVars, inspections>>
      BY <2>2 DEF ProcessMessage, m
    <3> QED BY <1>1, <1>2, <1>3, <1>6, <2>2, <3>1, NotUnderstood DEF m, modelVars
  <2>3. CASE /\ m.kind # "error"
             /\ modelGraph = None \/ ForUnknown(m) \/ m.kind = "running"
    <3>1. RequestFullUpdate
          /\ UNCHANGED <<modelGraph, childBlocks, childEdges, selectedBlock, exchanged>>
      BY <2>1, <2>3 DEF ProcessMessage, m
    <3>2. \/ modelGraph = None \/ m.kind \notin {"removed", "replaced"} \/ m.graph # modelGraph
      BY <1>4, <2>3 DEF ForUnknown, ForGraph
    <3>3. Processed(m)
      BY <1>2, <1>3, <1>6, <3>1, <3>2, NotUnderstood
    <3> QED BY <1>1, <3>3 DEF m
  <2>4. CASE /\ m.kind # "error" /\ m.kind # "running"
             /\ modelGraph # None /\ ~ForUnknown(m)
    <3>1. Handle(m) /\ UNCHANGED <<modelGraph, exchanged>>
      BY <2>1, <2>4 DEF ProcessMessage, m
    <3>2. m.kind \in ForGraph => ForModel(m)
      BY <1>4, <2>4 DEF ForModel, ForUnknown
    <3>3. CASE m.kind = "emplaced"
      BY <1>1, <1>2, <1>3, <3>1, <3>2, <3>3, HandlesEmplaced DEF Handle, ForGraph, m
    <3>4. CASE m.kind = "removed"
      BY <1>1, <1>2, <1>3, <3>1, <3>2, <3>4, HandlesRemoved DEF Handle, ForGraph, m
    <3>5. CASE m.kind = "replaced"
      BY <1>1, <1>2, <1>3, <3>1, <3>2, <3>5, HandlesReplaced DEF Handle, ForGraph, m
    <3>6. CASE m.kind = "edgeEmplaced"
      BY <1>1, <1>2, <1>3, <3>1, <3>2, <3>6, HandlesEdgeEmplaced DEF Handle, ForGraph, m
    <3>7. CASE m.kind = "edgeRemoved"
      <4>1. HandleEdgeRemoved
        BY <3>1, <3>7 DEF Handle
      <4> QED BY <1>1, <1>2, <1>3, <1>6, <3>1, <3>7, <4>1, NotUnderstood DEF HandleEdgeRemoved, m
    <3>8. CASE m.kind = "exported"
      BY <1>1, <1>2, <1>3, <3>1, <3>8, HandlesExported DEF Handle, m
    <3>9. CASE m.kind = "blockInspected"
      BY <1>1, <1>2, <1>3, <3>1, <3>9, HandlesInspected DEF Handle, m
    <3>10. CASE m.kind = "setting"
      BY <1>1, <1>2, <1>3, <3>1, <3>10, HandlesSetting DEF Handle, m
    <3> QED BY <1>4, <2>1, <2>4, <3>3, <3>4, <3>5, <3>6, <3>7, <3>8, <3>9, <3>10 DEF Kinds
  <2> QED BY <2>2, <2>3, <2>4
<1> QED BY <1>5, <1>6

\* What was asked for is asked for still.
LEMMA HandledRequests ==
  ASSUME TypesInv, Handled
  PROVE  /\ inspections' \in Seq(Requests)
         /\ MembersOf(inspections) \subseteq MembersOf(inspections')
<1>1. inspections \in Seq(Requests)
  BY DEF TypesInv
<1>2. \/ inspections' = inspections
      \/ \E r \in Requests : inspections' = Append(inspections, r)
  BY DEF Handled, Answered, Processed, AsksAtMost, Requests
<1>3. \A r \in Requests :
        /\ Append(inspections, r) \in Seq(Requests)
        /\ MembersOf(Append(inspections, r)) = MembersOf(inspections) \cup {r}
  <2> TAKE r \in Requests
  <2>1. Append(inspections, r) \in Seq(Requests)
    BY <1>1
  <2>2. MembersOf(Append(inspections, r)) = MembersOf(inspections) \cup {r}
    BY <1>1, BetweenAppend
  <2> QED BY <2>1, <2>2
<1> QED BY <1>1, <1>2, <1>3

\* The model stores what messages carry.
LEMMA HandledTypes ==
  ASSUME TypesInv, Handled
  PROVE  TypesInv'
<1>1. /\ graph' = graph /\ blocks' = blocks /\ edges' = edges /\ used' = used
      /\ toUi # <<>> /\ toUi' = Tail(toUi)
  BY DEF Handled, graphVars
<1>2. toUi' \in Seq(Messages)
  BY <1>1, TakenQueue
<1>3. Messages' = Messages /\ Requests' = Requests
  BY <1>1 DEF Messages, Requests
<1>4. inspections' \in Seq(Requests)
  BY HandledRequests
<1>5. ModelTypes'
  BY DEF Handled, Answered, Processed
<1> QED BY <1>1, <1>2, <1>3, <1>4, <1>5 DEF TypesInv, ModelTypes

\* Fewer messages remove fewer blocks.
LEMMA HandledGone ==
  ASSUME TypesInv, GoneInv, Handled
  PROVE  GoneInv'
<1>1. blocks' = blocks /\ used' = used /\ toUi # <<>> /\ toUi' = Tail(toUi)
  BY DEF Handled, graphVars
<1>2. MembersOf(toUi') \subseteq MembersOf(toUi)
  BY <1>1, TakenQueue
<1> QED BY <1>1, <1>2 DEF GoneInv, Removes

\* What the model has of another graph, or of this one, is as cleared as it was.
LEMMA HandledCleared ==
  ASSUME TypesInv, ClearedInv, Handled
  PROVE  ClearedInv'
<1> DEFINE n == Len(toUi')
           m == Head(toUi)
<1>1. graph' = graph /\ blocks' = blocks /\ used' = used /\ toUi # <<>> /\ toUi' = Tail(toUi)
  BY DEF Handled, graphVars
<1>2. /\ m = toUi[1] /\ m \in Messages
      /\ Len(toUi) \in Nat \ {0} /\ n = Len(toUi) - 1
      /\ \A j \in 1..n : toUi'[j] = toUi[j + 1] /\ j + 1 \in 1..Len(toUi) /\ toUi'[j] \in Messages
  BY <1>1, TakenQueue
<1>0. /\ \A j, k \in Nat : k <= Len(toUi) => Between(toUi', j, k) = Between(toUi, j + 1, k + 1)
      /\ \A k \in 2..(Len(toUi) + 1) : Between(toUi, 0, k) = {m} \cup Between(toUi, 1, k)
  BY <1>1, TakenQueue
<1>3. \A b \in DOMAIN childBlocks' :
        \/ /\ b \in DOMAIN childBlocks /\ modelGraph' = modelGraph
           /\ ~(Removes(m, b) /\ m.graph = modelGraph)
        \/ TellsThere(m, b) /\ m.graph = modelGraph'
  BY DEF Handled, Answered, Processed, BlocksFollow, FollowsAnswer, TellsThere
<1>4. DOMAIN childBlocks' \subseteq used
  BY <1>1 DEF Handled, Answered, Processed, ModelTypes
<1> HIDE DEF m
\* Positions move down by one.
<1>5. ASSUME NEW k \in 1..(n + 1), NEW g, NEW B, Cleared(k + 1, g, B)
      PROVE  /\ modelGraph' = g =>
                  \A b \in DOMAIN childBlocks' \ B : Goes(Between(toUi', 0, k), b, g)
             /\ \A j \in 1..(k - 1) : \A b \in used' \ B :
                  TellsThere(toUi'[j], b) /\ toUi'[j].graph = g => Goes(Between(toUi', j, k), b, g)
  <2>1. /\ k \in Nat /\ k <= Len(toUi) /\ k + 1 \in 2..(Len(toUi) + 1)
        /\ 1 \in 1..(k + 1 - 1)
    BY <1>2
  <2>2. Between(toUi', 0, k) = Between(toUi, 1, k + 1)
    <3>1. Between(toUi', 0, k) = Between(toUi, 0 + 1, k + 1)
      BY <1>0, <2>1
    <3> QED BY <3>1
  <2>3. ASSUME NEW b \in DOMAIN childBlocks', b \notin B, modelGraph' = g
        PROVE  Goes(Between(toUi', 0, k), b, g)
    <3>1. CASE TellsThere(m, b) /\ m.graph = g
      <4>1. b \in used \ B
        BY <1>4, <2>3
      <4>2. TellsThere(toUi[1], b) /\ toUi[1].graph = g
        BY <1>2, <3>1
      <4>3. Goes(Between(toUi, 1, k + 1), b, g)
        BY <1>5, <2>1, <4>1, <4>2 DEF Cleared
      <4> QED BY <2>2, <4>3
    <3>2. CASE /\ b \in DOMAIN childBlocks /\ modelGraph = g
               /\ ~(Removes(m, b) /\ m.graph = g)
      <4>1. Goes(Between(toUi, 0, k + 1), b, g)
        BY <1>5, <2>3, <3>2 DEF Cleared
      <4>2. Between(toUi, 0, k + 1) = {m} \cup Between(toUi, 1, k + 1)
        BY <1>0, <2>1
      <4> QED BY <2>2, <3>2, <4>1, <4>2 DEF Goes
    <3> QED BY <1>3, <2>3, <3>1, <3>2
  <2>4. ASSUME NEW j \in 1..(k - 1), NEW b \in used', b \notin B,
               TellsThere(toUi'[j], b), toUi'[j].graph = g
        PROVE  Goes(Between(toUi', j, k), b, g)
    <3>1. j \in Nat /\ j \in 1..n /\ j + 1 \in 1..(k + 1 - 1)
      BY <1>2, <2>1
    <3>2. toUi'[j] = toUi[j + 1]
      BY <1>2, <3>1
    <3>3. Between(toUi', j, k) = Between(toUi, j + 1, k + 1)
      BY <1>0, <2>1, <3>1
    <3> QED BY <1>1, <1>5, <2>4, <3>1, <3>2, <3>3 DEF Cleared
  <2> QED BY <2>3, <2>4
<1> HIDE DEF n
<1>6. Cleared(Len(toUi) + 1, graph, DOMAIN blocks)'
  <2>1. n \in Nat /\ n + 1 \in 1..(n + 1) /\ n + 1 + 1 = Len(toUi) + 1
    BY <1>2
  <2>2. Cleared(n + 1 + 1, graph, DOMAIN blocks)
    BY <2>1 DEF ClearedInv
  <2>3. /\ modelGraph' = graph =>
             \A b \in DOMAIN childBlocks' \ DOMAIN blocks : Goes(Between(toUi', 0, n + 1), b, graph)
        /\ \A j \in 1..(n + 1 - 1) : \A b \in used' \ DOMAIN blocks :
             TellsThere(toUi'[j], b) /\ toUi'[j].graph = graph =>
               Goes(Between(toUi', j, n + 1), b, graph)
    BY <1>5, <2>1, <2>2
  <2> QED BY <1>1, <2>3 DEF Cleared, n
<1>7. ASSUME NEW k \in 1..n, IsAnswer(toUi'[k])
      PROVE  Cleared(k, toUi[k].graph, DOMAIN toUi[k].blocks)'
  <2> DEFINE g == toUi[k + 1].graph
             B == DOMAIN toUi[k + 1].blocks
  <2>1. n \in Nat
    BY <1>2
  <2>4. toUi'[k] = toUi[k + 1] /\ k + 1 \in 1..Len(toUi) /\ k \in 1..(n + 1)
    BY <1>2, <2>1
  <2>2. Cleared(k + 1, g, B)
    BY <1>7, <2>4 DEF ClearedInv
  <2>3. /\ modelGraph' = g =>
             \A b \in DOMAIN childBlocks' \ B : Goes(Between(toUi', 0, k), b, g)
        /\ \A j \in 1..(k - 1) : \A b \in used' \ B :
             TellsThere(toUi'[j], b) /\ toUi'[j].graph = g => Goes(Between(toUi', j, k), b, g)
    <3> HIDE DEF g, B
    <3> QED BY <1>5, <2>4, <2>2
  <2> QED BY <2>4, <2>3 DEF Cleared
<1> QED BY <1>6, <1>7 DEF ClearedInv, IsAnswer, n

\* What was corrected by a later message is so still, the later ones being the same.
LEMMA HandledTold ==
  ASSUME TypesInv, ToldInv, Handled
  PROVE  ToldInv'
<1>1. blocks' = blocks /\ edges' = edges /\ toUi # <<>> /\ toUi' = Tail(toUi)
  BY DEF Handled, graphVars
<1>2. \A j \in 1..Len(toUi') : toUi'[j] = toUi[j + 1] /\ j + 1 \in 1..Len(toUi) /\ j \in Nat
  BY <1>1, TakenQueue
<1>3. \A j \in Nat : Later(toUi', j) = Later(toUi, j + 1)
  BY <1>1, TakenQueue
<1>4. \A L, b : PortsFollow(L, MembersOf(inspections), b) => PortsFollow(L, MembersOf(inspections'), b)
  BY HandledRequests DEF PortsFollow
<1>5. ASSUME NEW j \in 1..Len(toUi')
      PROVE  /\ \A b \in DOMAIN blocks' :
                  /\ TellsBlock(toUi'[j], b) =>
                       \/ DataIn(toUi'[j], b).ports = blocks'[b].ports
                       \/ PortsFollow(Later(toUi', j), MembersOf(inspections'), b)
                  /\ TellsVersion(toUi'[j], b) =>
                       \/ VersionIn(toUi'[j], b) = blocks'[b].version
                       \/ VersionFollows(Later(toUi', j), b)
             /\ \A e \in EdgesIn(toUi'[j]) \ edges' : EdgeGoes(Later(toUi', j), e)
  <2> DEFINE x == toUi[j + 1]
             L == Later(toUi, j + 1)
  <2>1. toUi'[j] = x /\ Later(toUi', j) = L
    BY <1>2, <1>3
  <2>2. /\ \A b \in DOMAIN blocks :
             /\ TellsBlock(x, b) => \/ DataIn(x, b).ports = blocks[b].ports
                                    \/ PortsFollow(L, MembersOf(inspections), b)
             /\ TellsVersion(x, b) => VersionIn(x, b) = blocks[b].version \/ VersionFollows(L, b)
        /\ \A e \in EdgesIn(x) \ edges : EdgeGoes(L, e)
    BY <1>2 DEF ToldInv
  <2> HIDE DEF x, L
  <2> QED BY <1>1, <1>4, <2>1, <2>2
<1> QED BY <1>5 DEF ToldInv

\* The answers lack what they lacked.
LEMMA HandledAnswers ==
  ASSUME TypesInv, AnswerInv, Handled
  PROVE  AnswerInv'
<1>1. /\ graph' = graph /\ blocks' = blocks /\ edges' = edges /\ successors' = successors
      /\ toUi # <<>> /\ toUi' = Tail(toUi)
  BY DEF Handled, graphVars
<1>2. \A j \in 1..Len(toUi') : toUi'[j] = toUi[j + 1] /\ j + 1 \in 1..Len(toUi) /\ j \in Nat
  BY <1>1, TakenQueue
<1>3. \A j \in Nat : Later(toUi', j) = Later(toUi, j + 1)
  BY <1>1, TakenQueue
<1>4. ASSUME NEW k \in 1..Len(toUi'), IsAnswer(toUi'[k])
      PROVE  /\ toUi'[k].edges \subseteq EdgeOf(DOMAIN toUi'[k].blocks)
             /\ Complete(toUi[k].graph, DOMAIN toUi[k].blocks, toUi[k].edges, Later(toUi, k))'
  <2> DEFINE x == toUi[k + 1]
             L == Later(toUi, k + 1)
  <2>1. toUi'[k] = x /\ Later(toUi', k) = L
    BY <1>2, <1>3
  <2>2. x.edges \subseteq EdgeOf(DOMAIN x.blocks) /\ Complete(x.graph, DOMAIN x.blocks, x.edges, L)
    BY <1>2, <1>4, <2>1 DEF AnswerInv
  <2> HIDE DEF x, L
  <2> QED BY <1>1, <2>1, <2>2 DEF Complete, Adds
<1> QED BY <1>4 DEF AnswerInv, IsAnswer

\* The model is what the message told, or what it was.
LEMMA HandledModel ==
  ASSUME ReplicaInv, Handled
  PROVE  ModelInv'
<1> USE DEF ReplicaInv
<1> DEFINE m == Head(toUi)
           L == Later(toUi, 1)
           I == MembersOf(inspections')
<1>1. /\ graph' = graph /\ blocks' = blocks /\ edges' = edges /\ used' = used
      /\ successors' = successors /\ toUi # <<>> /\ toUi' = Tail(toUi)
  BY DEF Handled, graphVars
<1>2. /\ m = toUi[1] /\ 1 \in 1..Len(toUi)
      /\ MembersOf(toUi) = {m} \cup L /\ MembersOf(toUi') = L
  BY <1>1, TakenQueue
<1>3. \A K, b : PortsFollow(K, MembersOf(inspections), b) => PortsFollow(K, I, b)
  BY HandledRequests DEF PortsFollow
<1>4. /\ \A b \in DOMAIN blocks :
           /\ TellsBlock(m, b) => DataIn(m, b).ports = blocks[b].ports \/ PortsFollow(L, I, b)
           /\ TellsVersion(m, b) => VersionIn(m, b) = blocks[b].version \/ VersionFollows(L, b)
      /\ \A e \in EdgesIn(m) \ edges : EdgeGoes(L, e)
  BY <1>2, <1>3 DEF ToldInv
<1>5. Answered(m) \/ Processed(m)
  BY DEF Handled
<1> SUFFICES ASSUME ~requestedFullUpdate'
             PROVE  /\ Complete(modelGraph, DOMAIN childBlocks, SeenEdges, MembersOf(toUi))'
                    /\ \A b \in DOMAIN childBlocks' \cap DOMAIN blocks :
                         /\ \/ childBlocks'[b].ports = blocks[b].ports
                            \/ PortsFollow(L, I, b)
                         /\ \/ childBlocks'[b].version = blocks[b].version
                            \/ VersionFollows(L, b)
                    /\ \A e \in SeenEdges' \ edges : EdgeGoes(L, e)
  BY <1>1, <1>2 DEF ModelInv
<1> HIDE DEF m, L, I
<1>6. CASE Answered(m)
  <2>1. /\ IsAnswer(m) /\ modelGraph' = m.graph /\ DOMAIN childBlocks' = DOMAIN m.blocks
        /\ SeenEdges' = m.edges
        /\ \A b \in DOMAIN childBlocks' : /\ childBlocks'[b].ports = m.blocks[b].ports
                                          /\ childBlocks'[b].version = m.blocks[b].version
    BY <1>6 DEF Answered, FollowsAnswer
  <2>2. Complete(m.graph, DOMAIN m.blocks, m.edges, L)
    BY <1>2, <2>1 DEF AnswerInv, L
  <2>3. Complete(modelGraph, DOMAIN childBlocks, SeenEdges, MembersOf(toUi))'
    BY <1>1, <1>2, <2>1, <2>2 DEF Complete, Adds
  <2>4. /\ \A b \in DOMAIN m.blocks : /\ TellsBlock(m, b) /\ TellsVersion(m, b)
                                      /\ DataIn(m, b) = m.blocks[b]
                                      /\ VersionIn(m, b) = m.blocks[b].version
        /\ EdgesIn(m) = m.edges
    BY <2>1 DEF TellsBlock, TellsVersion, TellsThere, DataIn, VersionIn, EdgesIn, IsAnswer
  <2> QED BY <1>4, <2>1, <2>3, <2>4
<1>7. CASE Processed(m)
  <2>1. FollowsMessage(m)
    BY <1>7 DEF Processed
  <2>2. /\ Complete(modelGraph, DOMAIN childBlocks, SeenEdges, {m} \cup L)
        /\ \A b \in DOMAIN childBlocks \cap DOMAIN blocks :
             /\ childBlocks[b].ports = blocks[b].ports \/ PortsFollow({m} \cup L, I, b)
             /\ childBlocks[b].version = blocks[b].version \/ VersionFollows({m} \cup L, b)
        /\ \A e \in SeenEdges \ edges : EdgeGoes({m} \cup L, e)
    BY <1>2, <1>3, <2>1 DEF ModelInv, FollowsMessage
  <2>3. \A b \in DOMAIN blocks : b \in used /\ ~Removes(m, b)
    BY <1>2 DEF GoneInv, TypesInv
  <2>4. Complete(modelGraph, DOMAIN childBlocks, SeenEdges, MembersOf(toUi))'
    <3>1. modelGraph' = modelGraph /\ m.kind # "running"
      BY <2>1 DEF FollowsMessage
    <3>2. CASE \E x \in {m} \cup L : x.kind = "running"
      BY <1>2, <3>1, <3>2 DEF Complete
    <3>3. CASE ~ \E x \in {m} \cup L : x.kind = "running"
      <4>1. /\ modelGraph = graph
            /\ \A b \in DOMAIN blocks \ DOMAIN childBlocks :
                 \E x \in {m} \cup L : Adds(x, b) /\ x.graph = graph
            /\ \A e \in edges \ SeenEdges :
                 \/ {e[1], e[3]} \cap successors # {}
                 \/ \E x \in {m} \cup L : x.kind = "edgeEmplaced" /\ x.edge = e
        BY <2>2, <3>3 DEF Complete
      <4>2. ASSUME NEW b \in DOMAIN blocks, b \notin DOMAIN childBlocks'
            PROVE  \E x \in L : Adds(x, b) /\ x.graph = graph
        <5>1. b \notin DOMAIN childBlocks /\ ~Adds(m, b)
          BY <2>1, <2>3, <4>2 DEF FollowsMessage
        <5> QED BY <4>1, <5>1
      <4>3. ASSUME NEW e \in edges, e \notin SeenEdges'
            PROVE  \/ {e[1], e[3]} \cap successors # {}
                   \/ \E x \in L : x.kind = "edgeEmplaced" /\ x.edge = e
        <5>1. e[1] \in DOMAIN blocks /\ e[3] \in DOMAIN blocks
          BY DEF TypesInv, EdgeOf
        <5>2. e \notin SeenEdges /\ e \notin EdgesIn(m)
          BY <2>1, <2>3, <4>3, <5>1 DEF FollowsMessage
        <5>3. ~(m.kind = "edgeEmplaced" /\ m.edge = e)
          BY <5>2 DEF EdgesIn, IsAnswer
        <5> QED BY <4>1, <5>2, <5>3
      <4> QED BY <1>1, <1>2, <3>1, <4>1, <4>2, <4>3 DEF Complete, Adds
    <3> QED BY <3>2, <3>3
  <2>5. ASSUME NEW b \in DOMAIN childBlocks', b \in DOMAIN blocks
        PROVE  childBlocks'[b].ports = blocks[b].ports \/ PortsFollow(L, I, b)
    <3>1. CASE TellsBlock(m, b) /\ childBlocks'[b].ports = DataIn(m, b).ports
      BY <1>4, <2>5, <3>1
    <3>2. CASE /\ b \in DOMAIN childBlocks /\ childBlocks'[b].ports = childBlocks[b].ports
               /\ ~TellsBlock(m, b) /\ (Exports(m, b) => InspectBlock(b) \in I)
      <4>1. childBlocks[b].ports = blocks[b].ports \/ PortsFollow({m} \cup L, I, b)
        BY <2>2, <2>5, <3>2
      <4>2. PortsFollow({m} \cup L, I, b) => PortsFollow(L, I, b)
        BY <3>2 DEF PortsFollow
      <4> QED BY <3>2, <4>1, <4>2
    <3> QED BY <2>1, <3>1, <3>2 DEF FollowsMessage, I
  <2>6. ASSUME NEW b \in DOMAIN childBlocks', b \in DOMAIN blocks
        PROVE  childBlocks'[b].version = blocks[b].version \/ VersionFollows(L, b)
    <3>1. CASE TellsVersion(m, b) /\ childBlocks'[b].version = VersionIn(m, b)
      BY <1>4, <2>6, <3>1
    <3>2. CASE /\ b \in DOMAIN childBlocks /\ childBlocks'[b].version = childBlocks[b].version
               /\ ~TellsVersion(m, b)
      <4>1. childBlocks[b].version = blocks[b].version \/ VersionFollows({m} \cup L, b)
        BY <2>2, <2>6, <3>2
      <4>2. VersionFollows({m} \cup L, b) => VersionFollows(L, b)
        BY <3>2 DEF VersionFollows
      <4> QED BY <3>2, <4>1, <4>2
    <3> QED BY <2>1, <3>1, <3>2 DEF FollowsMessage
  <2>7. ASSUME NEW e \in SeenEdges', e \notin edges
        PROVE  EdgeGoes(L, e)
    <3>1. CASE e \in EdgesIn(m)
      BY <1>4, <2>7, <3>1
    <3>2. CASE e \in SeenEdges /\ ~Removes(m, e[1]) /\ ~Removes(m, e[3])
      <4>1. EdgeGoes({m} \cup L, e)
        BY <2>2, <2>7, <3>2
      <4>2. m.kind \notin {"running", "edgeRemoved"}
        BY <2>1 DEF FollowsMessage
      <4> QED BY <3>2, <4>1, <4>2 DEF EdgeGoes
    <3> QED BY <2>1, <3>1, <3>2 DEF FollowsMessage
  <2> QED BY <2>4, <2>5, <2>6, <2>7
<1> QED BY <1>5, <1>6, <1>7

\* A full update is asked for only when none is under way.
LEMMA HandledOneUpdate ==
  ASSUME TypesInv, RequestInv, Handled
  PROVE  RequestInv'
<1> DEFINE m == Head(toUi)
           n == Len(inspections)
<1>1. toUi # <<>> /\ toUi' = Tail(toUi) /\ (Answered(m) \/ Processed(m))
  BY DEF Handled
<1>2. /\ m = toUi[1] /\ 1 \in 1..Len(toUi) /\ Len(toUi') \in Nat
      /\ MembersOf(toUi) = {m} \cup MembersOf(toUi')
      /\ MembersOf(toUi') = {toUi'[j] : j \in 1..Len(toUi')}
  BY <1>1, TakenQueue
<1>3. \A j \in 1..Len(toUi') : toUi'[j] = toUi[j + 1] /\ j + 1 \in 1..Len(toUi)
  BY <1>1, TakenQueue
<1>4. n \in Nat /\ MembersOf(inspections) = {inspections[j] : j \in 1..n}
  <2>1. inspections \in Seq(Requests)
    BY DEF TypesInv
  <2> QED BY <2>1, MembersAre
<1> HIDE DEF m, n
<1>5. \A i, k \in 1..Len(toUi') : IsAnswer(toUi'[i]) /\ IsAnswer(toUi'[k]) => i = k
  <2> SUFFICES ASSUME NEW i \in 1..Len(toUi'), NEW k \in 1..Len(toUi'),
                      IsAnswer(toUi'[i]), IsAnswer(toUi'[k])
               PROVE  i = k
    OBVIOUS
  <2>1. /\ i + 1 \in 1..Len(toUi) /\ k + 1 \in 1..Len(toUi)
        /\ IsAnswer(toUi[i + 1]) /\ IsAnswer(toUi[k + 1])
    BY <1>3
  <2>2. i + 1 = k + 1
    BY <2>1 DEF RequestInv
  <2> QED BY <1>2, <2>2
<1>6. CASE Answered(m)
  <2>1. IsAnswer(m) /\ inspections' = inspections /\ ~requestedFullUpdate'
    BY <1>6 DEF Answered
  <2>2. ~ \E x \in MembersOf(toUi') : IsAnswer(x)
    <3> SUFFICES ASSUME NEW j \in 1..Len(toUi'), IsAnswer(toUi'[j])
                 PROVE  FALSE
      BY <1>2
    <3>1. j + 1 \in 1..Len(toUi) /\ IsAnswer(toUi[j + 1]) /\ IsAnswer(toUi[1])
      BY <1>2, <1>3, <2>1
    <3>2. j + 1 = 1
      BY <1>2, <3>1 DEF RequestInv
    <3> QED BY <1>2, <3>2
  <2>3. ~ \E r \in MembersOf(inspections) : r = FullUpdate
    BY <1>2, <2>1 DEF RequestInv
  <2> QED BY <1>5, <2>1, <2>2, <2>3 DEF RequestInv, IsAnswer
<1>7. CASE Processed(m)
  <2>1. ~IsAnswer(m) /\ AsksAtMost
    BY <1>7 DEF Processed
  <2>2. (\E x \in MembersOf(toUi') : IsAnswer(x)) <=> \E x \in MembersOf(toUi) : IsAnswer(x)
    BY <1>2, <2>1
  <2>3. CASE inspections' = inspections /\ requestedFullUpdate' = requestedFullUpdate
    BY <1>5, <2>2, <2>3 DEF RequestInv, IsAnswer
  <2>4. ASSUME NEW r \in Requests, inspections' = Append(inspections, r)
        PROVE  /\ Len(inspections') = n + 1 /\ inspections'[n + 1] = r
               /\ \A j \in 1..n : inspections'[j] = inspections[j]
               /\ MembersOf(inspections') = MembersOf(inspections) \cup {r}
    <3>1. inspections \in Seq(Requests)
      BY DEF TypesInv
    <3>2. /\ Len(Append(inspections, r)) = n + 1 /\ Append(inspections, r)[n + 1] = r
          /\ \A j \in 1..n : Append(inspections, r)[j] = inspections[j]
          /\ MembersOf(Append(inspections, r)) = MembersOf(inspections) \cup {r}
      BY <3>1, BetweenAppend DEF n
    <3> QED BY <2>4, <3>2
  <2>5. CASE /\ inspections' = Append(inspections, FullUpdate)
             /\ ~requestedFullUpdate /\ requestedFullUpdate'
    <3>1. /\ Len(inspections') = n + 1 /\ inspections'[n + 1] = FullUpdate
          /\ \A j \in 1..n : inspections'[j] = inspections[j]
          /\ MembersOf(inspections') = MembersOf(inspections) \cup {FullUpdate}
      BY <2>4, <2>5 DEF Requests
    <3>2. /\ ~ \E r \in MembersOf(inspections) : r = FullUpdate
          /\ ~ \E x \in MembersOf(toUi) : IsAnswer(x)
      BY <2>5 DEF RequestInv
    <3>3. \A i \in 1..(n + 1) : inspections'[i] = FullUpdate => i = n + 1
      <4> SUFFICES ASSUME NEW i \in 1..(n + 1), inspections'[i] = FullUpdate, i # n + 1
                   PROVE  FALSE
        OBVIOUS
      <4>1. i \in 1..n
        BY <1>4
      <4> QED BY <1>4, <3>1, <3>2, <4>1
    <3>4. \A i, k \in 1..Len(inspections') :
            inspections'[i] = FullUpdate /\ inspections'[k] = FullUpdate => i = k
      BY <3>1, <3>3
    <3>5. (\E r \in MembersOf(inspections') : r = FullUpdate)
          /\ ~ \E x \in MembersOf(toUi') : IsAnswer(x)
      BY <2>2, <3>1, <3>2
    <3> QED BY <1>5, <2>5, <3>4, <3>5 DEF RequestInv, IsAnswer
  <2>6. ASSUME NEW b \in Blocks, inspections' = Append(inspections, InspectBlock(b)),
               requestedFullUpdate' = requestedFullUpdate
        PROVE  RequestInv'
    <3>1. InspectBlock(b) \in Requests /\ InspectBlock(b) # FullUpdate
      BY DEF Requests, InspectBlock, FullUpdate
    <3>2. /\ Len(inspections') = n + 1 /\ inspections'[n + 1] # FullUpdate
          /\ \A j \in 1..n : inspections'[j] = inspections[j]
          /\ MembersOf(inspections') = MembersOf(inspections) \cup {InspectBlock(b)}
      BY <2>4, <2>6, <3>1
    <3>3. ASSUME NEW i \in 1..Len(inspections'), inspections'[i] = FullUpdate
          PROVE  i \in 1..n /\ inspections[i] = FullUpdate
      <4>1. i # n + 1
        BY <3>2, <3>3
      <4>2. i \in 1..n
        BY <1>4, <3>2, <4>1
      <4> QED BY <3>2, <3>3, <4>2
    <3>4. \A i, k \in 1..Len(inspections') :
            inspections'[i] = FullUpdate /\ inspections'[k] = FullUpdate => i = k
      BY <3>3 DEF RequestInv, n
    <3>5. (\E r \in MembersOf(inspections') : r = FullUpdate) <=>
            \E r \in MembersOf(inspections) : r = FullUpdate
      BY <3>1, <3>2
    <3> QED BY <1>5, <2>2, <2>6, <3>4, <3>5 DEF RequestInv, IsAnswer
  <2> QED BY <2>1, <2>3, <2>5, <2>6 DEF AsksAtMost
<1> QED BY <1>1, <1>6, <1>7

\* Handling a message keeps all of the invariant.
LEMMA HandledInv ==
  ASSUME ReplicaInv, Handled
  PROVE  ReplicaInv'
<1>1. SelectionInv'
  BY DEF ReplicaInv, Handled, Answered, Processed
<1> QED BY <1>1, HandledTypes, HandledOneUpdate, HandledGone, HandledCleared, HandledTold,
           HandledAnswers, HandledModel DEF ReplicaInv

-----------------------------------------------------------------------------
(* The invariant.                                                          *)

\* Nothing has been said of the graph when the first message is sent.
LEMMA ReplicaInit ==
  ASSUME GraphModelInit
  PROVE  ReplicaInv
<1> USE DEF GraphModelInit
<1> DEFINE m == [kind |-> "running"]
<1>1. toUi = <<m>> /\ Len(toUi) = 1 /\ toUi[1] = m /\ inspections = <<>> /\ Len(inspections) = 0
  OBVIOUS
<1>2. m \in Messages /\ toUi \in Seq(Messages) /\ inspections \in Seq(Requests)
  <2>1. m \in Messages
    BY DEF Messages
  <2> QED BY <1>1, <2>1
<1>3. MembersOf(toUi) = {m} /\ MembersOf(inspections) = {}
  <2>1. MembersOf(toUi) = {toUi[j] : j \in 1..1}
    BY <1>1 DEF MembersOf, Later, Between
  <2>2. MembersOf(inspections) = {inspections[j] : j \in 1..0}
    BY <1>1 DEF MembersOf, Later, Between
  <2> QED BY <1>1, <2>1, <2>2
<1>4. /\ ~IsAnswer(m) /\ EdgesIn(m) = {}
      /\ \A b : ~Removes(m, b) /\ ~TellsThere(m, b) /\ ~TellsBlock(m, b) /\ ~TellsVersion(m, b)
  BY DEF IsAnswer, Removes, TellsThere, TellsBlock, TellsVersion, Adds, EdgesIn
<1>5. m.kind = "running"
  OBVIOUS
<1> HIDE DEF m
<1>6. TypesInv
  <2>1. DOMAIN NoBlocks = {}
    BY DEF NoBlocks
  <2>2. NoBlocks \in [{} -> Datum] /\ NoBlocks \in [{} -> ChildData]
    BY DEF NoBlocks
  <2> QED BY <1>2, <2>1, <2>2 DEF TypesInv
<1>7. \A j \in 1..Len(toUi) : toUi[j] = m
  BY <1>1
<1>8. RequestInv
  BY <1>1, <1>3, <1>4, <1>7 DEF RequestInv
<1>9. GoneInv
  BY <1>3, <1>4 DEF GoneInv
<1>10. ClearedInv
  <2>1. DOMAIN childBlocks = {}
    BY DEF NoBlocks
  <2>2. Cleared(Len(toUi) + 1, graph, DOMAIN blocks)
    BY <1>1, <1>4, <1>7, <2>1 DEF Cleared
  <2> QED BY <1>4, <1>7, <2>2 DEF ClearedInv
<1>11. ToldInv
  BY <1>4, <1>7 DEF ToldInv
<1>12. AnswerInv
  BY <1>4, <1>7 DEF AnswerInv
<1>13. ModelInv
  <2>1. DOMAIN childBlocks = {} /\ SeenEdges = {}
    BY DEF NoBlocks, SeenEdges
  <2>2. Complete(modelGraph, DOMAIN childBlocks, SeenEdges, MembersOf(toUi))
    BY <1>3, <1>5 DEF Complete
  <2> QED BY <2>1, <2>2 DEF ModelInv
<1>14. SelectionInv
  BY DEF SelectionInv
<1> QED BY <1>6, <1>8, <1>9, <1>10, <1>11, <1>12, <1>13, <1>14 DEF ReplicaInv

\* Every step keeps it.
LEMMA ReplicaStep ==
  ASSUME ReplicaInv, [GraphModelNext]_graphModelVars
  PROVE  ReplicaInv'
<1> SUFFICES ASSUME GraphModelNext \/ UNCHANGED graphModelVars
             PROVE  ReplicaInv'
  OBVIOUS
<1>0. TypesInv
  BY DEF ReplicaInv
<1>1. ASSUME NEW b \in Blocks,
             \/ BlockEmplaced(b) \/ BlockRemoved(b) \/ PortExported(b)
             \/ SettingChanged(b) \/ GraphReplaced(b)
      PROVE  ReplicaInv'
  <2>1. \E m : Notified(m) /\ ~IsAnswer(m)
    BY <1>0, <1>1, EmplacedIsNotified, RemovedIsNotified, ExportIsNotified, SettingIsNotified,
       ReplacementIsNotified
  <2>2. UNCHANGED <<inspections, modelVars>>
    BY <1>1 DEF BlockEmplaced, BlockRemoved, PortExported, SettingChanged, GraphReplaced, Edit
  <2> QED BY <2>1, <2>2, NotifiedInv
<1>2. ASSUME NEW b \in Blocks, NEW c \in Blocks, BlockReplaced(b, c) \/ EdgeEmplaced(b, c)
      PROVE  ReplicaInv'
  <2>1. \E m : Notified(m) /\ ~IsAnswer(m)
    BY <1>0, <1>2, ReplacedIsNotified, EdgeEmplacedIsNotified
  <2>2. UNCHANGED <<inspections, modelVars>>
    BY <1>2 DEF BlockReplaced, EdgeEmplaced, Edit
  <2> QED BY <2>1, <2>2, NotifiedInv
<1>3. ASSUME NEW e \in edges, EdgeRemoved(e)
      PROVE  ReplicaInv'
  <2>1. \E m : Notified(m) /\ ~IsAnswer(m)
    BY <1>0, <1>3, EdgeRemovedIsNotified
  <2>2. UNCHANGED <<inspections, modelVars>>
    BY <1>3 DEF EdgeRemoved, Edit
  <2> QED BY <2>1, <2>2, NotifiedInv
<1>4. CASE Answer
  BY <1>4, AnswerInvariant
<1>5. CASE ProcessMessage
  BY <1>5, ProcessMessageHandles, HandledInv
<1>6. CASE SelectBlock
  <2>1. /\ UNCHANGED <<graph, blocks, edges, used, successors, toUi, inspections, modelGraph,
                       childBlocks, childEdges, requestedFullUpdate, exchanged>>
        /\ selectedBlock' \in DOMAIN childBlocks \cup {None}
    BY <1>6 DEF SelectBlock, graphVars
  <2>2. TypesInv' /\ SelectionInv'
    BY <1>0, <2>1 DEF TypesInv, SelectionInv, Messages, Requests
  <2>3. RequestInv' /\ GoneInv' /\ ClearedInv' /\ ToldInv' /\ AnswerInv' /\ ModelInv'
    BY <2>1 DEF ReplicaInv, RequestInv, GoneInv, ClearedInv, Cleared, ToldInv, AnswerInv, Complete,
                ModelInv, SeenEdges
  <2> QED BY <2>2, <2>3 DEF ReplicaInv
<1>7. CASE UNCHANGED graphModelVars
  <2>1. UNCHANGED <<graph, blocks, edges, used, successors, toUi, inspections, modelGraph,
                    childBlocks, childEdges, requestedFullUpdate, exchanged, selectedBlock>>
    BY <1>7 DEF graphModelVars, graphVars, modelVars
  <2>2. TypesInv' /\ SelectionInv'
    BY <1>0, <2>1 DEF ReplicaInv, TypesInv, SelectionInv, Messages, Requests
  <2>3. RequestInv' /\ GoneInv' /\ ClearedInv' /\ ToldInv' /\ AnswerInv' /\ ModelInv'
    BY <2>1 DEF ReplicaInv, RequestInv, GoneInv, ClearedInv, Cleared, ToldInv, AnswerInv, Complete,
                ModelInv, SeenEdges
  <2> QED BY <2>2, <2>3 DEF ReplicaInv
<1> QED BY <1>1, <1>2, <1>3, <1>4, <1>5, <1>6, <1>7 DEF GraphModelNext

\* All that is told in a reachable state is true or corrected, one full update is under
\* way at most, and names of blocks are not used again.
THEOREM WhatIsToldIsCorrected == GraphModelSpec => []ReplicaInv
<1>1. GraphModelInit => ReplicaInv
  BY ReplicaInit
<1>2. ReplicaInv /\ [GraphModelNext]_graphModelVars => ReplicaInv'
  BY ReplicaStep
<1> QED BY <1>1, <1>2, PTL DEF GraphModelSpec

-----------------------------------------------------------------------------
(* What follows from it.                                                   *)

\* With no message and no request left nothing can be corrected any more.
LEMMA SettledIsTold ==
  ASSUME ReplicaInv
  PROVE  SettledModelIsGraph
<1> USE DEF ReplicaInv
<1> SUFFICES ASSUME toUi = <<>>, inspections = <<>>
             PROVE  /\ modelGraph = graph
                    /\ DOMAIN childBlocks = DOMAIN blocks
                    /\ \A b \in DOMAIN blocks : Seen(b) = blocks[b]
                    /\ SeenEdges \subseteq edges
                    /\ \A e \in edges \ SeenEdges : {e[1], e[3]} \cap successors # {}
                    /\ ~requestedFullUpdate
  BY DEF SettledModelIsGraph, Settled
<1>1. MembersOf(toUi) = {} /\ MembersOf(inspections) = {} /\ Len(toUi) = 0 /\ Between(toUi, 0, 1) = {}
  BY DEF MembersOf, Later, Between
<1>2. ~requestedFullUpdate
  BY <1>1 DEF RequestInv
<1>3. /\ Complete(modelGraph, DOMAIN childBlocks, SeenEdges, {})
      /\ \A b \in DOMAIN childBlocks \cap DOMAIN blocks :
           /\ childBlocks[b].ports = blocks[b].ports \/ PortsFollow({}, {}, b)
           /\ childBlocks[b].version = blocks[b].version \/ VersionFollows({}, b)
      /\ \A e \in SeenEdges \ edges : EdgeGoes({}, e)
  BY <1>1, <1>2 DEF ModelInv
<1>4. /\ modelGraph = graph /\ DOMAIN blocks \subseteq DOMAIN childBlocks
      /\ \A e \in edges \ SeenEdges : {e[1], e[3]} \cap successors # {}
  BY <1>3 DEF Complete
<1>5. DOMAIN childBlocks \subseteq DOMAIN blocks
  <2>1. Cleared(1, graph, DOMAIN blocks)
    BY <1>1 DEF ClearedInv
  <2> QED BY <1>1, <1>4, <2>1 DEF Cleared, Goes
<1>6. ASSUME NEW b \in DOMAIN blocks PROVE Seen(b) = blocks[b]
  <2>1. /\ childBlocks[b].ports = blocks[b].ports /\ childBlocks[b].version = blocks[b].version
    BY <1>3, <1>4 DEF PortsFollow, VersionFollows
  <2>2. blocks[b] \in Datum
    BY DEF TypesInv
  <2> QED BY <2>1, <2>2 DEF Seen, Datum
<1>7. SeenEdges \subseteq edges
  BY <1>3 DEF EdgeGoes
<1> QED BY <1>2, <1>4, <1>5, <1>6, <1>7

LEMMA PointersAreTold ==
  ASSUME ReplicaInv
  PROVE  UiPointersAreAlive
BY DEF ReplicaInv, TypesInv, SelectionInv, UiPointersAreAlive

\* When all messages are handled the model shows the graph of the scheduler, and the
\* edges and the selection of the UI point to blocks it has, whatever the graph is and
\* however its changes, requests and answers cross.
THEOREM ReplicaFollowsGraph == GraphModelSpec => []GraphIsFollowed
<1>1. ReplicaInv => GraphIsFollowed
  BY SettledIsTold, PointersAreTold DEF GraphIsFollowed
<1> QED BY <1>1, WhatIsToldIsCorrected, PTL


-----------------------------------------------------------------------------
(***************************************************************************)
(* FlowgraphEditors.                                                       *)
(***************************************************************************)

\* Groups have graphs of their own, and none has the root's.
LEMMA GraphsDiffer ==
  ASSUME scheduled \subseteq Groups
  PROVE  /\ \A g, h \in Groups : GraphOf(g) = GraphOf(h) => g = h
         /\ \A g \in Groups : GraphOf(g) # RootGraph
         /\ \A g \in Groups : (CHOOSE h \in Groups : GraphOf(h) = GraphOf(g)) = g
<1>1. \A g, h \in Groups : GraphOf(g) = GraphOf(h) => g = h
  <2> SUFFICES ASSUME NEW g \in Groups, NEW h \in Groups, GraphOf(g) = GraphOf(h)
               PROVE  g = h
    OBVIOUS
  <2>1. CASE g \in scheduled /\ h \in scheduled
    BY <2>1 DEF GraphOf
  <2>2. CASE ~(g \in scheduled /\ h \in scheduled)
    BY <2>2, FlowgraphEditorsAssumption DEF GraphOf
  <2> QED BY <2>1, <2>2
<1>2. \A g \in Groups : GraphOf(g) # RootGraph
  BY FlowgraphEditorsAssumption DEF GraphOf
<1>3. ASSUME NEW g \in Groups
      PROVE  (CHOOSE h \in Groups : GraphOf(h) = GraphOf(g)) = g
  BY <1>1
<1> QED BY <1>1, <1>2, <1>3

\* The tree of the blocks: every block is in the root's graph or in that of a present
\* group, no group is inside itself, and each graph was told of its scheduler.
TreeInv ==
  /\ scheduled \subseteq Groups
  /\ DOMAIN inGraph \subseteq AllBlocks
  /\ inGraph = [b \in DOMAIN inGraph |-> inGraph[b]]
  /\ \A b \in DOMAIN inGraph : inGraph[b] \in {RootGraph} \cup GraphsOf(DOMAIN inGraph)
  /\ \A S \in SUBSET (DOMAIN inGraph) : S # {} => \E b \in S : inGraph[b] \notin GraphsOf(S)
  /\ \A g \in DOMAIN inGraph \cap (Groups \ scheduled) : makeGraphBlock(g)

\* A set of blocks with all that its groups contain.
Whole(S) == \A y \in DOMAIN inGraph : inGraph[y] \in GraphsOf(S) => y \in S

LEMMA InsideIs ==
  ASSUME NEW b
  PROVE  Inside(b) = {x \in DOMAIN inGraph : \A S \in SUBSET (DOMAIN inGraph) :
                        b \in S /\ Whole(S) => x \in S}
  BY DEF Inside, Whole

\* What is inside a block: itself, and besides what is in the graph of a group inside.
LEMMA InsideSteps ==
  ASSUME NEW b \in DOMAIN inGraph
  PROVE  /\ b \in Inside(b) /\ Inside(b) \subseteq DOMAIN inGraph
         /\ Whole(Inside(b))
         /\ \A x \in Inside(b) : x = b \/ inGraph[x] \in GraphsOf(Inside(b))
         /\ \A x \in Inside(b) : Inside(x) \subseteq Inside(b)
<1>1. b \in Inside(b) /\ Inside(b) \subseteq DOMAIN inGraph
  BY InsideIs
<1>2. Whole(Inside(b))
  <2> SUFFICES ASSUME NEW y \in DOMAIN inGraph, inGraph[y] \in GraphsOf(Inside(b)),
                      NEW S \in SUBSET (DOMAIN inGraph), b \in S, Whole(S)
               PROVE  y \in S
    BY InsideIs DEF Whole
  <2>1. Inside(b) \subseteq S
    BY InsideIs
  <2>2. inGraph[y] \in GraphsOf(S)
    BY <2>1 DEF GraphsOf
  <2> QED BY <2>2 DEF Whole
<1>3. ASSUME NEW x \in Inside(b), x # b, inGraph[x] \notin GraphsOf(Inside(b))
      PROVE  FALSE
  <2> DEFINE S == Inside(b) \ {x}
  <2>1. S \in SUBSET (DOMAIN inGraph) /\ b \in S
    BY <1>1, <1>3
  <2>2. ASSUME NEW y \in DOMAIN inGraph, inGraph[y] \in GraphsOf(S)
        PROVE  y \in S
    <3>1. inGraph[y] \in GraphsOf(Inside(b))
      BY <2>2 DEF GraphsOf
    <3> QED BY <3>1, <1>2, <1>3 DEF Whole
  <2>3. Whole(S)
    BY <2>2 DEF Whole
  <2>4. x \in S
    BY <2>1, <2>3, InsideIs
  <2> QED BY <2>4
<1>4. ASSUME NEW x \in Inside(b)
      PROVE  Inside(x) \subseteq Inside(b)
  BY <1>1, <1>2, InsideIs
<1> QED BY <1>1, <1>2, <1>3, <1>4

\* Of two different blocks, one at most is inside the other.
LEMMA InsideIsAnOrder ==
  ASSUME TreeInv, NEW b \in DOMAIN inGraph, NEW x \in Inside(b), b \in Inside(x)
  PROVE  x = b
<1> SUFFICES ASSUME x # b
             PROVE  FALSE
  OBVIOUS
<1> DEFINE S == {y \in Inside(b) : b \in Inside(y)}
<1>0. x \in DOMAIN inGraph /\ S \subseteq DOMAIN inGraph
  BY InsideSteps
<1>1. ASSUME NEW y \in S, NEW top \in Inside(b), inGraph[y] \in GraphsOf(Inside(top)),
             b \in Inside(y)
      PROVE  inGraph[y] \in GraphsOf(S)
  <2>1. PICK h \in Inside(top) \cap Groups : inGraph[y] = GraphOf(h)
    BY <1>1 DEF GraphsOf
  <2>2. h \in Inside(b)
    BY <2>1, InsideSteps
  <2>3. h \in DOMAIN inGraph /\ h \in Inside(h) /\ Whole(Inside(h)) /\ y \in DOMAIN inGraph
    BY <2>2, <1>0, InsideSteps
  <2>4. inGraph[y] \in GraphsOf(Inside(h))
    BY <2>1, <2>3 DEF GraphsOf
  <2>5. y \in Inside(h)
    BY <2>3, <2>4 DEF Whole
  <2>6. b \in Inside(h)
    BY <2>3, <2>5, <1>1, InsideSteps
  <2> QED BY <2>1, <2>2, <2>6 DEF GraphsOf
<1>2. ASSUME NEW y \in S
      PROVE  inGraph[y] \in GraphsOf(S)
  <2>1. CASE y = b
    <3>1. inGraph[b] \in GraphsOf(Inside(x))
      BY <1>0, InsideSteps
    <3> QED BY <2>1, <3>1, <1>1
  <2>2. CASE y # b
    <3>1. inGraph[y] \in GraphsOf(Inside(b)) /\ b \in Inside(b)
      BY <2>2, InsideSteps
    <3> QED BY <3>1, <1>1
  <2> QED BY <2>1, <2>2
<1>3. x \in S
  OBVIOUS
<1> QED BY <1>0, <1>2, <1>3 DEF TreeInv

\* A scheduler runs itself.
LEMMA RunsScheduler ==
  ASSUME TreeInv, NEW g \in DOMAIN inGraph, g \in scheduled
  PROVE  Runs(g) = g
<1>1. g \in SchedulersAround(g)
  BY InsideSteps DEF SchedulersAround
<1>2. \A t \in SchedulersAround(g) : g \in Inside(t)
  BY DEF SchedulersAround
<1>3. ASSUME NEW s \in SchedulersAround(g), \A t \in SchedulersAround(g) : s \in Inside(t)
      PROVE  s = g
  <2>1. s \in Inside(g) /\ g \in Inside(s)
    BY <1>1, <1>2, <1>3
  <2> QED BY <2>1, InsideIsAnOrder
<1> QED BY <1>1, <1>2, <1>3 DEF Runs

\* A graph is run by the root's scheduler, or by what runs the group around it.
LEMMA RunsAbove ==
  ASSUME TreeInv, NEW g \in DOMAIN inGraph, g \notin scheduled
  PROVE  /\ inGraph[g] = RootGraph => Runs(g) = RootScheduler
         /\ \A h \in DOMAIN inGraph \cap Groups : inGraph[g] = GraphOf(h) => Runs(g) = Runs(h)
<1>0. scheduled \subseteq Groups
  BY DEF TreeInv
<1>1. ASSUME NEW s \in scheduled \cap DOMAIN inGraph, g \in Inside(s)
      PROVE  inGraph[g] \in GraphsOf(Inside(s))
  BY <1>1, InsideSteps
<1>2. ASSUME inGraph[g] = RootGraph
      PROVE  Runs(g) = RootScheduler
  <2>1. SchedulersAround(g) = {}
    BY <1>0, <1>1, <1>2, GraphsDiffer DEF SchedulersAround, GraphsOf
  <2> QED BY <2>1 DEF Runs
<1>3. ASSUME NEW h \in DOMAIN inGraph \cap Groups, inGraph[g] = GraphOf(h)
      PROVE  Runs(g) = Runs(h)
  <2>1. ASSUME NEW s \in scheduled \cap DOMAIN inGraph
        PROVE  g \in Inside(s) <=> h \in Inside(s)
    <3>1. ASSUME g \in Inside(s)
          PROVE  h \in Inside(s)
      <4>1. PICK k \in Inside(s) \cap Groups : inGraph[g] = GraphOf(k)
        BY <1>1, <3>1 DEF GraphsOf
      <4> QED BY <1>0, <1>3, <4>1, GraphsDiffer
    <3>2. ASSUME h \in Inside(s)
          PROVE  g \in Inside(s)
      <4>1. inGraph[g] \in GraphsOf(Inside(s))
        BY <1>3, <3>2 DEF GraphsOf
      <4> QED BY <4>1, InsideSteps DEF Whole
    <3> QED BY <3>1, <3>2
  <2>2. SchedulersAround(g) = SchedulersAround(h)
    BY <2>1 DEF SchedulersAround
  <2> QED BY <2>2 DEF Runs
<1> QED BY <1>2, <1>3

\* What a group that is a graph was told is the scheduler that runs it.
LEMMA OwnerRuns ==
  ASSUME TreeInv, NEW g \in DOMAIN inGraph \cap Groups
  PROVE  Runs(g) = IF g \in scheduled THEN g ELSE ownerScheduler[g]
<1> DEFINE Told(b) == Runs(b) = IF b \in scheduled THEN b ELSE ownerScheduler[b]
           S == {b \in DOMAIN inGraph \cap Groups : ~Told(b)}
<1>1. ASSUME NEW b \in S, inGraph[b] \notin GraphsOf(S)
      PROVE  FALSE
  <2>1. b \notin scheduled
    BY RunsScheduler
  <2>2. makeGraphBlock(b) /\ scheduled \subseteq Groups
    BY <2>1 DEF TreeInv
  <2>3. CASE inGraph[b] = RootGraph
    <3>1. Runs(b) = RootScheduler
      BY <2>1, <2>3, RunsAbove
    <3>2. ownerScheduler[b] = RootScheduler
      BY <2>2, <2>3 DEF makeGraphBlock
    <3> QED BY <2>1, <3>1, <3>2
  <2>4. CASE inGraph[b] # RootGraph
    <3>1. inGraph[b] \in GraphsOf(DOMAIN inGraph)
      BY <2>4 DEF TreeInv
    <3>2. PICK h \in DOMAIN inGraph \cap Groups : inGraph[b] = GraphOf(h)
      BY <3>1 DEF GraphsOf
    <3>3. Runs(b) = Runs(h)
      BY <2>1, <3>2, RunsAbove
    <3>4. h \notin S
      BY <1>1, <3>2 DEF GraphsOf
    <3>5. (CHOOSE k \in Groups : GraphOf(k) = inGraph[b]) = h
      BY <2>2, <3>2, GraphsDiffer
    <3>6. ownerScheduler[b] = IF h \in scheduled THEN h ELSE ownerScheduler[h]
      BY <2>2, <2>4, <3>5 DEF makeGraphBlock
    <3> QED BY <2>1, <3>3, <3>4, <3>6
  <2> QED BY <2>3, <2>4
<1>2. S = {}
  BY <1>1 DEF TreeInv
<1> QED BY <1>2

AllGraphs == {RootGraph} \cup GraphsOf(Groups)

EditorTypes ==
  [block : Groups \cup {RootScheduler}, graph : AllGraphs,
   selectedBlock : AllBlocks \cup {Nil}, menu : BOOLEAN,
   exportPortRequest : AllBlocks \cup {Nil}, dragged : AllBlocks \cup {Nil}]

\* An editor shows the graph of its block; the blocks that its menu, its question and its
\* dragged pin are about are in that graph, as long as they are present.
Shows(e) ==
  /\ e.graph = IF e.block = RootScheduler THEN RootGraph ELSE GraphOf(e.block)
  /\ e.selectedBlock \in DOMAIN inGraph => inGraph[e.selectedBlock] = e.graph
  /\ e.exportPortRequest \in DOMAIN inGraph => inGraph[e.exportPortRequest] = e.graph
  /\ e.dragged \in DOMAIN inGraph => inGraph[e.dragged] = e.graph

EditorInv ==
  /\ TreeInv
  /\ editors \in Seq(EditorTypes) /\ Len(editors) > 0
  /\ \A i \in 1..Len(editors) : Shows(editors[i])
  /\ pinExported \subseteq DOMAIN inGraph /\ usedRemoved \in BOOLEAN

\* The edit of a step reaches the graph that its blocks are in.
Reaches ==
  request' # request =>
    \A b \in request'.blocks : IsPresent(b) =>
      IF request'.endpoint = "ExportPort"
      THEN request'.target = Container(b)
      ELSE request'.graph = inGraph[b] /\ request'.scheduler = Runs(Container(b))

LEMMA CurrentIs ==
  ASSUME EditorInv
  PROVE  Current \in EditorTypes /\ Shows(Current) /\ Len(editors) \in 1..Len(editors)
BY DEF EditorInv, Current

\* The editor on top names the group around the blocks of its graph, and the scheduler
\* that runs it.
LEMMA OwnersAreRight ==
  ASSUME EditorInv, NEW b \in DOMAIN inGraph, inGraph[b] = Current.graph
  PROVE  /\ Container(b) = Current.block
         /\ ownersForRoot.graph = inGraph[b]
         /\ ownersForRoot.scheduler = Runs(Container(b))
<1>1. TreeInv /\ scheduled \subseteq Groups /\ DOMAIN inGraph \subseteq AllBlocks
  BY DEF EditorInv, TreeInv
<1>2. Current.block \in Groups \cup {RootScheduler} /\ RootScheduler \notin AllBlocks
  BY CurrentIs, FlowgraphEditorsAssumption DEF EditorTypes, AllBlocks
<1>3. Current.graph = IF Current.block = RootScheduler THEN RootGraph ELSE GraphOf(Current.block)
  BY CurrentIs DEF Shows
<1>4. ownersForRoot.graph = inGraph[b]
  BY DEF ownersForRoot
<1>5. CASE Current.block = RootScheduler
  <2>1. Container(b) = RootScheduler
    BY <1>3, <1>5 DEF Container
  <2>2. ASSUME NEW s \in scheduled \cap DOMAIN inGraph
        PROVE  RootScheduler \notin Inside(s)
    BY <1>1, <1>2, InsideSteps
  <2>3. SchedulersAround(RootScheduler) = {}
    BY <2>2 DEF SchedulersAround
  <2>4. Runs(RootScheduler) = RootScheduler
    BY <2>3 DEF Runs
  <2>5. ownersForRoot.scheduler = RootScheduler
    BY <1>2, <1>5 DEF ownersForRoot, AllBlocks
  <2> QED BY <1>4, <1>5, <2>1, <2>4, <2>5
<1>6. CASE Current.block # RootScheduler
  <2>1. Current.block \in Groups /\ inGraph[b] = GraphOf(Current.block)
    BY <1>2, <1>3, <1>6
  <2>2. inGraph[b] # RootGraph
    BY <1>1, <2>1, GraphsDiffer
  <2>3. Container(b) = Current.block
    BY <1>1, <2>1, <2>2, GraphsDiffer DEF Container
  <2>4. Current.block \in DOMAIN inGraph
    <3>1. inGraph[b] \in GraphsOf(DOMAIN inGraph)
      BY <1>1, <2>2 DEF TreeInv
    <3>2. PICK h \in DOMAIN inGraph \cap Groups : inGraph[b] = GraphOf(h)
      BY <3>1 DEF GraphsOf
    <3> QED BY <1>1, <2>1, <3>2, GraphsDiffer
  <2>5. Runs(Current.block) =
          IF Current.block \in scheduled THEN Current.block ELSE ownerScheduler[Current.block]
    BY <1>1, <2>1, <2>4, OwnerRuns
  <2>6. ownersForRoot.scheduler = Runs(Current.block)
    BY <2>1, <2>5 DEF ownersForRoot
  <2> QED BY <1>4, <2>3, <2>6
<1> QED BY <1>5, <1>6

\* A message to the graph on top, of blocks in it.
LEMMA SentReaches ==
  ASSUME EditorInv, NEW B, NEW endpoint, endpoint # "ExportPort", SendToGraph(endpoint, B),
         \A b \in B : b \in DOMAIN inGraph => inGraph[b] = Current.graph
  PROVE  Reaches
<1> SUFFICES ASSUME NEW b \in B, b \in DOMAIN inGraph
             PROVE  request'.graph = inGraph[b] /\ request'.scheduler = Runs(Container(b))
  BY DEF Reaches, SendToGraph, IsPresent
<1>1. ownersForRoot.graph = inGraph[b] /\ ownersForRoot.scheduler = Runs(Container(b))
  BY OwnersAreRight
<1> QED BY <1>1 DEF SendToGraph

\* A port of a block in the graph on top is exported by the group around it.
LEMMA ExportReaches ==
  ASSUME EditorInv, NEW b, NEW flag \in BOOLEAN, requestExportPort(b, flag),
         b \in DOMAIN inGraph => inGraph[b] = Current.graph
  PROVE  Reaches /\ pinExported' \subseteq DOMAIN inGraph
<1>1. pinExported' \subseteq DOMAIN inGraph
  BY DEF requestExportPort, EditorInv
<1>2. b \in DOMAIN inGraph => Container(b) = Current.block
  BY OwnersAreRight
<1>3. request'.endpoint = "ExportPort" /\ request'.target = Current.block /\ request'.blocks = {b}
  BY DEF requestExportPort
<1> QED BY <1>1, <1>2, <1>3 DEF Reaches, IsPresent

TreeStays == UNCHANGED <<scheduled, inGraph, ownerScheduler>>

LEMMA TreeIsLeft ==
  ASSUME EditorInv, TreeStays
  PROVE  /\ TreeInv' /\ EditorTypes' = EditorTypes
         /\ \A e : Shows(e)' <=> Shows(e)
<1>0. TreeInv /\ scheduled' = scheduled /\ inGraph' = inGraph /\ ownerScheduler' = ownerScheduler
  BY DEF EditorInv, TreeStays
<1>a. ASSUME NEW B
      PROVE  GraphsOf(B)' = GraphsOf(B)
  BY <1>0 DEF GraphsOf, GraphOf
<1>b. ASSUME NEW g
      PROVE  makeGraphBlock(g)' <=> makeGraphBlock(g)
  BY <1>0 DEF makeGraphBlock, GraphOf
<1>1. TreeInv'
  BY <1>0, <1>a, <1>b DEF TreeInv
<1>2. EditorTypes' = EditorTypes
  BY DEF TreeStays, EditorTypes, AllGraphs, GraphsOf, GraphOf
<1>3. ASSUME NEW e
      PROVE  Shows(e)' <=> Shows(e)
  BY DEF TreeStays, Shows, GraphOf
<1> QED BY <1>1, <1>2, <1>3

LEMMA EditorsAreKept ==
  ASSUME EditorInv, TreeStays, editors' \in Seq(EditorTypes), Len(editors') > 0,
         \A i \in 1..Len(editors') : Shows(editors'[i]),
         pinExported' \subseteq DOMAIN inGraph, usedRemoved' \in BOOLEAN
  PROVE  EditorInv'
<1>1. TreeInv' /\ EditorTypes' = EditorTypes /\ DOMAIN inGraph' = DOMAIN inGraph
  BY TreeIsLeft DEF TreeStays
<1>2. \A i \in 1..Len(editors') : Shows(editors[i])'
  BY DEF Shows, TreeStays, GraphOf
<1> QED BY <1>1, <1>2 DEF EditorInv

LEMMA EditorsAreLeft ==
  ASSUME EditorInv, TreeStays, UNCHANGED editors,
         pinExported' \subseteq DOMAIN inGraph, usedRemoved' \in BOOLEAN
  PROVE  EditorInv'
BY EditorsAreKept DEF EditorInv

LEMMA CurrentIsSet ==
  ASSUME EditorInv, NEW e \in EditorTypes, Shows(e), SetCurrent(e), TreeStays,
         pinExported' \subseteq DOMAIN inGraph, usedRemoved' \in BOOLEAN
  PROVE  EditorInv'
<1>1. editors \in Seq(EditorTypes) /\ Len(editors) > 0
  BY DEF EditorInv
<1>2. editors' \in Seq(EditorTypes) /\ Len(editors') = Len(editors)
  BY <1>1 DEF SetCurrent
<1>3. \A i \in 1..Len(editors) : editors'[i] = editors[i] \/ editors'[i] = e
  BY <1>1 DEF SetCurrent
<1>4. \A i \in 1..Len(editors') : Shows(editors'[i])
  BY <1>2, <1>3 DEF EditorInv
<1> QED BY <1>1, <1>2, <1>4, EditorsAreKept

LEMMA PushKeeps ==
  ASSUME EditorInv, NEW b, pushEditor(b)
  PROVE  EditorInv' /\ Reaches
<1> DEFINE old == [editors EXCEPT ![Len(editors)].menu = FALSE]
           new == Editor(b, GraphOf(b))
<1>0. /\ editors \in Seq(EditorTypes) /\ Len(editors) \in 1..Len(editors)
      /\ editors' = Append(old, new) /\ b \in Groups
      /\ TreeStays /\ pinExported' = pinExported /\ request' = request /\ usedRemoved' = usedRemoved
  BY DEF EditorInv, pushEditor, TreeStays
<1>1. new \in EditorTypes
  BY <1>0 DEF Editor, EditorTypes, AllGraphs, GraphsOf
<1>2. Shows(new)
  <2>1. Nil \notin DOMAIN inGraph /\ b # RootScheduler
    BY <1>0, FlowgraphEditorsAssumption DEF EditorInv, TreeInv, AllBlocks
  <2> QED BY <2>1 DEF Shows, Editor
<1>3. [Current EXCEPT !.menu = FALSE] \in EditorTypes /\ Shows([Current EXCEPT !.menu = FALSE])
  BY CurrentIs DEF EditorTypes, Shows
<1>4. /\ old \in Seq(EditorTypes) /\ Len(old) = Len(editors)
      /\ \A i \in 1..Len(editors) : Shows(old[i])
  <2>1. old = [editors EXCEPT ![Len(editors)] = [Current EXCEPT !.menu = FALSE]]
    BY <1>0 DEF Current
  <2> HIDE DEF old
  <2>2. old \in Seq(EditorTypes) /\ Len(old) = Len(editors)
    BY <1>0, <1>3, <2>1
  <2>3. \A i \in 1..Len(editors) : old[i] = editors[i] \/ old[i] = [Current EXCEPT !.menu = FALSE]
    BY <1>0, <2>1
  <2> QED BY <1>3, <2>2, <2>3 DEF EditorInv
<1> HIDE DEF old, new
<1>5. /\ editors' \in Seq(EditorTypes) /\ Len(editors') = Len(editors) + 1
      /\ \A i \in 1..Len(editors') : IF i <= Len(editors) THEN editors'[i] = old[i] ELSE editors'[i] = new
  BY <1>0, <1>1, <1>4
<1>6. \A i \in 1..Len(editors') : Shows(editors'[i])
  BY <1>0, <1>2, <1>4, <1>5
<1>7. EditorInv'
  BY <1>0, <1>5, <1>6, EditorsAreKept DEF EditorInv
<1> QED BY <1>0, <1>7 DEF Reaches

LEMMA PopKeeps ==
  ASSUME EditorInv, popEditor
  PROVE  EditorInv' /\ Reaches
<1>0. /\ editors \in Seq(EditorTypes) /\ Len(editors) > 1
      /\ editors' = SubSeq(editors, 1, Len(editors) - 1)
      /\ TreeStays /\ pinExported' = pinExported /\ request' = request /\ usedRemoved' = usedRemoved
  BY DEF EditorInv, popEditor, TreeStays
<1>1. /\ editors' \in Seq(EditorTypes) /\ Len(editors') = Len(editors) - 1
      /\ \A i \in 1..Len(editors') : editors'[i] = editors[i]
  BY <1>0, SubSeqProperties
<1>2. \A i \in 1..Len(editors') : Shows(editors'[i])
  BY <1>0, <1>1 DEF EditorInv
<1>3. EditorInv'
  BY <1>0, <1>1, <1>2, EditorsAreKept DEF EditorInv
<1> QED BY <1>0, <1>3 DEF Reaches

LEMMA OpenMenuKeeps ==
  ASSUME EditorInv, NEW b \in DOMAIN inGraph, OpenMenu(b)
  PROVE  EditorInv' /\ Reaches
<1> DEFINE e == [Current EXCEPT !.menu = TRUE, !.selectedBlock = b]
<1>1. b \in AllBlocks /\ inGraph[b] = Current.graph
  BY DEF OpenMenu, Members, EditorInv, TreeInv
<1>2. e \in EditorTypes /\ Shows(e)
  BY <1>1, CurrentIs DEF EditorTypes, Shows
<1>3. /\ SetCurrent(e) /\ TreeStays /\ request' = request
      /\ pinExported' \subseteq DOMAIN inGraph /\ usedRemoved' \in BOOLEAN
  BY DEF OpenMenu, TreeStays, EditorInv
<1> HIDE DEF e
<1>4. EditorInv'
  BY <1>2, <1>3, CurrentIsSet
<1> QED BY <1>3, <1>4 DEF Reaches

\* The block of the menu is in the graph on top, and the menu closes.
LEMMA ClosedMenu ==
  ASSUME EditorInv
  PROVE  /\ [Current EXCEPT !.menu = FALSE] \in EditorTypes
         /\ Shows([Current EXCEPT !.menu = FALSE])
         /\ Current.selectedBlock \in DOMAIN inGraph => inGraph[Current.selectedBlock] = Current.graph
         /\ Current.exportPortRequest \in DOMAIN inGraph =>
              inGraph[Current.exportPortRequest] = Current.graph
         /\ Current.dragged \in DOMAIN inGraph => inGraph[Current.dragged] = Current.graph
BY CurrentIs DEF EditorTypes, Shows

LEMMA MenuDeleteKeeps ==
  ASSUME EditorInv, MenuDelete
  PROVE  EditorInv' /\ Reaches
<1>1. /\ CloseMenu /\ SendToGraph("RemoveBlock", {Current.selectedBlock}) /\ TreeStays
      /\ pinExported' \subseteq DOMAIN inGraph /\ usedRemoved' \in BOOLEAN
  BY DEF MenuDelete, TreeStays, EditorInv
<1>2. EditorInv'
  BY <1>1, ClosedMenu, CurrentIsSet DEF CloseMenu
<1>3. Reaches
  BY <1>1, ClosedMenu, SentReaches
<1> QED BY <1>2, <1>3

LEMMA MenuChangeTypeKeeps ==
  ASSUME EditorInv, MenuChangeType
  PROVE  EditorInv' /\ Reaches
<1>1. /\ CloseMenu /\ SendToGraph("ReplaceBlock", {Current.selectedBlock}) /\ TreeStays
      /\ pinExported' \subseteq DOMAIN inGraph /\ usedRemoved' \in BOOLEAN
  BY DEF MenuChangeType, TreeStays, EditorInv
<1>2. EditorInv'
  BY <1>1, ClosedMenu, CurrentIsSet DEF CloseMenu
<1>3. Reaches
  BY <1>1, ClosedMenu, SentReaches
<1> QED BY <1>2, <1>3

LEMMA MenuExportKeeps ==
  ASSUME EditorInv, MenuExport
  PROVE  EditorInv' /\ Reaches
<1> DEFINE b == Current.selectedBlock
           e == [Current EXCEPT !.menu = FALSE, !.exportPortRequest = b]
<1>1. TreeStays /\ usedRemoved' \in BOOLEAN /\ b \in DOMAIN inGraph
  BY DEF MenuExport, TreeStays, EditorInv, InMenu, IsPresent
<1>2. CASE b \in pinExported
  <2>1. CloseMenu /\ requestExportPort(b, FALSE)
    BY <1>2 DEF MenuExport
  <2>2. Reaches /\ pinExported' \subseteq DOMAIN inGraph
    BY <2>1, ClosedMenu, ExportReaches
  <2>3. EditorInv'
    BY <1>1, <2>1, <2>2, ClosedMenu, CurrentIsSet DEF CloseMenu
  <2> QED BY <2>2, <2>3
<1>3. CASE b \notin pinExported
  <2>1. SetCurrent(e) /\ UNCHANGED <<pinExported, request>>
    BY <1>3 DEF MenuExport
  <2>2. e \in EditorTypes /\ Shows(e)
    BY CurrentIs DEF EditorTypes, Shows
  <2>3. EditorInv'
    BY <1>1, <2>1, <2>2, CurrentIsSet DEF EditorInv
  <2> QED BY <2>1, <2>3 DEF Reaches
<1> QED BY <1>2, <1>3

LEMMA AnswerExportKeeps ==
  ASSUME EditorInv, AnswerExport
  PROVE  EditorInv' /\ Reaches
<1> DEFINE e == [Current EXCEPT !.exportPortRequest = Nil]
<1>1. TreeStays /\ usedRemoved' \in BOOLEAN /\ SetCurrent(e)
  BY DEF AnswerExport, TreeStays, EditorInv
<1>2. Reaches /\ pinExported' \subseteq DOMAIN inGraph
  <2>1. CASE requestExportPort(Current.exportPortRequest, TRUE)
    BY <2>1, ClosedMenu, ExportReaches
  <2>2. CASE UNCHANGED <<pinExported, request>>
    BY <2>2 DEF Reaches, EditorInv
  <2> QED BY <2>1, <2>2 DEF AnswerExport
<1>3. e \in EditorTypes /\ Shows(e)
  BY CurrentIs, FlowgraphEditorsAssumption DEF EditorTypes, Shows, EditorInv, TreeInv, AllBlocks
<1> QED BY <1>1, <1>2, <1>3, CurrentIsSet

LEMMA DragPinKeeps ==
  ASSUME EditorInv, NEW b \in DOMAIN inGraph, DragPin(b)
  PROVE  EditorInv' /\ Reaches
<1> DEFINE e == [Current EXCEPT !.dragged = b]
<1>1. b \in AllBlocks /\ inGraph[b] = Current.graph
  BY DEF DragPin, Members, EditorInv, TreeInv
<1>2. e \in EditorTypes /\ Shows(e)
  BY <1>1, CurrentIs DEF EditorTypes, Shows
<1>3. /\ SetCurrent(e) /\ TreeStays /\ request' = request
      /\ pinExported' \subseteq DOMAIN inGraph /\ usedRemoved' \in BOOLEAN
  BY DEF DragPin, TreeStays, EditorInv
<1> HIDE DEF e
<1>4. EditorInv'
  BY <1>2, <1>3, CurrentIsSet
<1> QED BY <1>3, <1>4 DEF Reaches

LEMMA LinkPinsKeeps ==
  ASSUME EditorInv, NEW b \in DOMAIN inGraph, NEW c \in DOMAIN inGraph, LinkPins(b, c)
  PROVE  EditorInv' /\ Reaches
<1>1. /\ SendToGraph("EmplaceEdge", {b, c}) /\ TreeStays /\ UNCHANGED editors
      /\ pinExported' \subseteq DOMAIN inGraph /\ usedRemoved' \in BOOLEAN
      /\ \A x \in {b, c} : inGraph[x] = Current.graph
  BY DEF LinkPins, TreeStays, EditorInv, Members
<1>2. EditorInv'
  BY <1>1, EditorsAreLeft
<1>3. Reaches
  BY <1>1, SentReaches
<1> QED BY <1>2, <1>3

LEMMA ReleasePinKeeps ==
  ASSUME EditorInv, ReleasePin
  PROVE  EditorInv' /\ Reaches
<1> DEFINE e == [Current EXCEPT !.dragged = Nil]
<1>1. TreeStays /\ usedRemoved' \in BOOLEAN /\ SetCurrent(e)
  BY DEF ReleasePin, TreeStays, EditorInv
<1>2. Reaches /\ pinExported' \subseteq DOMAIN inGraph
  <2>1. CASE requestExportPort(Current.dragged, TRUE)
    BY <2>1, ClosedMenu, ExportReaches
  <2>2. CASE UNCHANGED <<pinExported, request>>
    BY <2>2 DEF Reaches, EditorInv
  <2> QED BY <2>1, <2>2 DEF ReleasePin
<1>3. e \in EditorTypes /\ Shows(e)
  BY CurrentIs, FlowgraphEditorsAssumption DEF EditorTypes, Shows, EditorInv, TreeInv, AllBlocks
<1> QED BY <1>1, <1>2, <1>3, CurrentIsSet

LEMMA AddBlockKeeps ==
  ASSUME EditorInv, AddBlock
  PROVE  EditorInv' /\ Reaches
<1>1. /\ SendToGraph("EmplaceBlock", {}) /\ TreeStays /\ UNCHANGED editors
      /\ pinExported' \subseteq DOMAIN inGraph /\ usedRemoved' \in BOOLEAN
  BY DEF AddBlock, TreeStays, EditorInv
<1>2. EditorInv'
  BY <1>1, EditorsAreLeft
<1>3. Reaches
  BY <1>1, SentReaches
<1> QED BY <1>2, <1>3

LEMMA UseRemovedKeeps ==
  ASSUME EditorInv, UseRemoved
  PROVE  EditorInv' /\ Reaches
<1>1. /\ TreeStays /\ UNCHANGED <<editors, request>>
      /\ pinExported' \subseteq DOMAIN inGraph /\ usedRemoved' \in BOOLEAN
  BY DEF UseRemoved, TreeStays, EditorInv
<1> QED BY <1>1, EditorsAreLeft DEF Reaches

\* A group is removed with all that is inside it, so that what remains is a tree.
LEMMA RemovalKeeps ==
  ASSUME EditorInv, NEW b \in DOMAIN inGraph, BlockIsRemoved(b)
  PROVE  EditorInv' /\ Reaches
<1> DEFINE Kept == DOMAIN inGraph \ Inside(b)
<1>0. /\ TreeInv /\ inGraph' = [x \in Kept |-> inGraph[x]]
      /\ pinExported' = pinExported \cap DOMAIN inGraph'
      /\ UNCHANGED <<scheduled, ownerScheduler, editors, request, usedRemoved>>
  BY DEF BlockIsRemoved, EditorInv
<1>1. DOMAIN inGraph' = Kept /\ \A x \in Kept : inGraph'[x] = inGraph[x]
  BY <1>0
<1>2. ASSUME NEW B
      PROVE  GraphsOf(B)' = GraphsOf(B)
  BY <1>0 DEF GraphsOf, GraphOf
<1>3. ASSUME NEW x \in Kept
      PROVE  inGraph[x] \in {RootGraph} \cup GraphsOf(Kept)
  <2>1. CASE inGraph[x] = RootGraph
    BY <2>1
  <2>2. CASE inGraph[x] # RootGraph
    <3>1. inGraph[x] \in GraphsOf(DOMAIN inGraph) /\ inGraph[x] \notin GraphsOf(Inside(b))
      BY <1>0, <2>2, InsideSteps DEF TreeInv, Whole
    <3> QED BY <3>1 DEF GraphsOf
  <2> QED BY <2>1, <2>2
<1>4. ASSUME NEW g \in Kept
      PROVE  makeGraphBlock(g)' <=> makeGraphBlock(g)
  BY <1>0, <1>1 DEF makeGraphBlock, GraphOf
<1>5. TreeInv'
  <2> HIDE DEF Kept
  <2>1. Kept \subseteq DOMAIN inGraph
    BY DEF Kept
  <2>2. \A x \in Kept : inGraph'[x] \in {RootGraph} \cup GraphsOf(Kept)
    BY <1>1, <1>3
  <2>3. \A S \in SUBSET Kept : S # {} => \E x \in S : inGraph'[x] \notin GraphsOf(S)'
    <3> SUFFICES ASSUME NEW S \in SUBSET Kept, S # {}
                 PROVE  \E x \in S : inGraph'[x] \notin GraphsOf(S)'
      OBVIOUS
    <3>1. PICK x \in S : inGraph[x] \notin GraphsOf(S)
      BY <1>0, <2>1 DEF TreeInv
    <3> QED BY <1>1, <1>2, <3>1
  <2>4. \A g \in Kept \cap (Groups \ scheduled) : makeGraphBlock(g)'
    BY <1>0, <1>4, <2>1 DEF TreeInv
  <2>5. inGraph' = [x \in DOMAIN inGraph' |-> inGraph'[x]]
    BY <1>0
  <2>6. GraphsOf(DOMAIN inGraph)' = GraphsOf(Kept)
    BY <1>0, <1>1 DEF GraphsOf, GraphOf
  <2> QED BY <1>0, <1>1, <2>1, <2>2, <2>3, <2>4, <2>5, <2>6 DEF TreeInv
<1>6. EditorTypes' = EditorTypes
  BY <1>0 DEF EditorTypes, AllGraphs, GraphsOf, GraphOf
<1>7. \A i \in 1..Len(editors) : Shows(editors[i])'
  BY <1>0, <1>1 DEF Shows, GraphOf, EditorInv
<1>8. EditorInv'
  BY <1>0, <1>1, <1>5, <1>6, <1>7 DEF EditorInv
<1> QED BY <1>0, <1>8 DEF Reaches

LEMMA InitIsATree ==
  ASSUME EditorsInit
  PROVE  EditorInv
<1> DEFINE first == Editor(RootScheduler, RootGraph)
<1>0. /\ scheduled \subseteq Groups /\ DOMAIN inGraph = AllBlocks
      /\ inGraph \in [AllBlocks -> {RootGraph} \cup GraphsOf(Groups)]
      /\ editors = <<first>> /\ pinExported = {} /\ usedRemoved = FALSE
  BY DEF EditorsInit
<1>1. TreeInv
  <2>1. GraphsOf(Groups) = GraphsOf(AllBlocks)
    BY DEF GraphsOf, AllBlocks
  <2>2. \A S \in SUBSET AllBlocks : S # {} => \E x \in S : inGraph[x] \notin GraphsOf(S)
    BY DEF EditorsInit
  <2>3. \A g \in Groups \ scheduled : makeGraphBlock(g)
    BY DEF EditorsInit
  <2> QED BY <1>0, <2>1, <2>2, <2>3 DEF TreeInv
<1>2. first \in EditorTypes
  BY DEF Editor, EditorTypes, AllGraphs
<1>3. Shows(first)
  BY <1>0, FlowgraphEditorsAssumption DEF Shows, Editor, AllBlocks
<1>4. editors \in Seq(EditorTypes) /\ Len(editors) = 1 /\ editors[1] = first
  BY <1>0, <1>2
<1>5. \A i \in 1..Len(editors) : Shows(editors[i])
  BY <1>3, <1>4
<1>6. editors \in Seq(EditorTypes) /\ Len(editors) > 0
  BY <1>4
<1>7. pinExported \subseteq DOMAIN inGraph /\ usedRemoved \in BOOLEAN
  BY <1>0
<1> QED BY <1>1, <1>5, <1>6, <1>7, Zenon DEF EditorInv

LEMMA EditorStepReaches ==
  ASSUME EditorInv, [EditorsNext]_editorVars
  PROVE  EditorInv' /\ Reaches
<1>1. ASSUME NEW b \in DOMAIN inGraph, DoubleClick(b)
      PROVE  EditorInv' /\ Reaches
  BY <1>1, PushKeeps DEF DoubleClick
<1>2. CASE MenuEditGraph
  BY <1>2, PushKeeps DEF MenuEditGraph
<1>3. CASE UNCHANGED editorVars
  <2>1. TreeStays /\ UNCHANGED <<editors, pinExported, request, usedRemoved>>
    BY <1>3 DEF editorVars, TreeStays
  <2> QED BY <2>1, EditorsAreLeft DEF Reaches, EditorInv
<1> QED BY <1>1, <1>2, <1>3, PopKeeps, OpenMenuKeeps, MenuDeleteKeeps, MenuChangeTypeKeeps,
           MenuExportKeeps, AnswerExportKeeps, DragPinKeeps, LinkPinsKeeps, ReleasePinKeeps,
           AddBlockKeeps, UseRemovedKeeps, RemovalKeeps DEF EditorsNext

LEMMA EditorsStayInv == EditorsSpec => []EditorInv
<1>1. EditorsInit => EditorInv
  BY InitIsATree
<1>2. EditorInv /\ [EditorsNext]_editorVars => EditorInv'
  BY EditorStepReaches
<1> QED BY <1>1, <1>2, PTL DEF EditorsSpec

\* The addresses that editors hold are of groups, or the root's, and no exported port is
\* of a block that is gone (FlowgraphPage.hpp:36-61).
THEOREM EditorTypeCorrect == EditorsSpec => []EditorsTypeOK
<1>1. EditorInv => EditorsTypeOK
  <2> SUFFICES ASSUME EditorInv
               PROVE  EditorsTypeOK
    OBVIOUS
  <2>1. ASSUME NEW i \in DOMAIN editors
        PROVE  editors[i].block \in Groups \cup {RootScheduler} /\ editors[i].menu \in BOOLEAN
    <3>1. editors[i] \in EditorTypes
      BY DEF EditorInv
    <3> QED BY <3>1 DEF EditorTypes
  <2> QED BY <2>1 DEF EditorInv, TreeInv, EditorsTypeOK
<1> QED BY <1>1, EditorsStayInv, PTL

\* Every edit goes to the graph its blocks are in, through the scheduler that runs it, and
\* an exported port is of a block of the group that exports it, however deep the groups
\* are nested and whatever was removed meanwhile (FlowgraphPage.cpp:483-975).
THEOREM EditsReach == EditorsSpec => EditsReachTheirGraph
<1>1. EditorInv /\ [EditorsNext]_editorVars => Reaches
  BY EditorStepReaches
<1>2. Reaches => [request' # request =>
       \A b \in request'.blocks : IsPresent(b) =>
         IF request'.endpoint = "ExportPort"
         THEN request'.target = Container(b)
         ELSE request'.graph = inGraph[b] /\ request'.scheduler = Runs(Container(b))]_editorVars
  BY DEF Reaches
<1> QED BY <1>1, <1>2, EditorsStayInv, PTL DEF EditorsSpec, EditsReachTheirGraph

-----------------------------------------------------------------------------
(***************************************************************************)
(* BlockPlacement: the levels of the arrangement.                          *)
(***************************************************************************)

\* Levels that the sort may have reached, or that it ends with.
Levelled(levels) ==
  \A i \in DOMAIN levels : levels[i] # {} /\ levels[i] = newLevel(left(levels, i))
Finished(levels) == Levelled(levels) /\ newLevel(Nodes \ Sorted(levels)) = {}
LevelsUpTo(k) == [1..k -> SUBSET Nodes]

LEMMA NodesAreFinite == IsFiniteSet(Nodes) /\ Cardinality(Nodes) \in Nat
BY BlockPlacementAssumption, FS_CardinalityType

\* The sort goes on to a further level unless it is finished.
LEMMA NextLevel ==
  ASSUME NEW k \in Nat, NEW levels \in LevelsUpTo(k), Levelled(levels),
         k <= Cardinality(Sorted(levels)), ~Finished(levels)
  PROVE  \E more \in LevelsUpTo(k + 1) : Levelled(more) /\ k + 1 <= Cardinality(Sorted(more))
<1> DEFINE rest == Nodes \ Sorted(levels)
           new == newLevel(rest)
           more == [i \in 1..k + 1 |-> IF i <= k THEN levels[i] ELSE new]
<1>1. DOMAIN levels = 1..k /\ DOMAIN more = 1..k + 1
  BY DEF LevelsUpTo
<1>2. new # {} /\ new \subseteq rest /\ new \subseteq Nodes
  BY DEF Finished, newLevel
<1>3. \A i \in 1..k : more[i] = levels[i]
  OBVIOUS
<1>4. more[k + 1] = new
  OBVIOUS
<1>5. more \in LevelsUpTo(k + 1)
  <2>1. \A i \in 1..k + 1 : i <= k => i \in 1..k
    OBVIOUS
  <2>2. \A i \in 1..k : levels[i] \in SUBSET Nodes
    BY DEF LevelsUpTo
  <2> HIDE DEF new
  <2>3. \A i \in 1..k + 1 : (IF i <= k THEN levels[i] ELSE new) \in SUBSET Nodes
    BY <1>2, <2>1, <2>2, Zenon
  <2> QED BY <2>3 DEF LevelsUpTo
<1> HIDE DEF more, new
<1>6. ASSUME NEW i \in 1..k + 1
      PROVE  left(more, i) = left(levels, i)
  <2>1. \A j \in 1..i - 1 : j \in 1..k
    OBVIOUS
  <2> QED BY <1>3, <2>1 DEF left
<1>7. left(levels, k + 1) = rest
  BY <1>1 DEF left, Sorted
<1>8. Levelled(more)
  <2> SUFFICES ASSUME NEW i \in 1..k + 1
               PROVE  more[i] # {} /\ more[i] = newLevel(left(more, i))
    BY <1>1 DEF Levelled
  <2>1. CASE i \in 1..k
    BY <1>1, <1>3, <1>6, <2>1 DEF Levelled
  <2>2. CASE i \notin 1..k
    <3>1. i = k + 1
      BY <2>2
    <3> QED BY <1>2, <1>4, <1>6, <1>7, <3>1 DEF new
  <2> QED BY <2>1, <2>2
<1>9. k + 1 <= Cardinality(Sorted(more))
  <2>1. Sorted(levels) \subseteq Nodes /\ Sorted(more) \subseteq Nodes
    BY <1>1, <1>5 DEF Sorted, LevelsUpTo
  <2>2. PICK x \in new : TRUE
    BY <1>2
  <2>3. Sorted(levels) \cup {x} \subseteq Sorted(more)
    BY <1>1, <1>3, <1>4 DEF Sorted
  <2>4. x \notin Sorted(levels)
    BY <1>2
  <2>5. /\ IsFiniteSet(Sorted(levels)) /\ IsFiniteSet(Sorted(more))
        /\ Cardinality(Sorted(levels)) \in Nat /\ Cardinality(Sorted(more)) \in Nat
    BY <2>1, NodesAreFinite, FS_Subset, FS_CardinalityType
  <2>6. Cardinality(Sorted(levels) \cup {x}) = Cardinality(Sorted(levels)) + 1
    BY <2>4, <2>5, FS_AddElement
  <2>7. Cardinality(Sorted(levels) \cup {x}) <= Cardinality(Sorted(more))
    BY <2>3, <2>5, FS_Subset
  <2> QED BY <2>5, <2>6, <2>7
<1> QED BY <1>5, <1>8, <1>9

\* The sort ends, with no more levels than blocks.
LEMMA SortEnds ==
  \E k \in 0..Cardinality(Nodes) : topologicalSort \in LevelsUpTo(k) /\ Finished(topologicalSort)
<1> DEFINE N == Cardinality(Nodes)
           Reached(k) == \E levels \in LevelsUpTo(k) :
                           Levelled(levels) /\ k <= Cardinality(Sorted(levels))
           K == {k \in 0..N : Reached(k)}
<1>1. N \in Nat
  BY NodesAreFinite
<1>2. 0 \in K
  <2> DEFINE none == [i \in 1..0 |-> {}]
  <2>1. none \in LevelsUpTo(0) /\ Levelled(none) /\ Sorted(none) = {}
    BY DEF LevelsUpTo, Levelled, Sorted
  <2> HIDE DEF none
  <2>2. 0 <= Cardinality(Sorted(none))
    BY <2>1, FS_EmptySet
  <2> QED BY <1>1, <2>1, <2>2
<1>3. \E k \in K : k + 1 \notin K
  <2> SUFFICES ASSUME \A k \in K : k + 1 \in K
               PROVE  FALSE
    OBVIOUS
  <2>0. K \in SUBSET Nat
    OBVIOUS
  <2> HIDE DEF K
  <2>1. K = Nat
    BY <1>2, <2>0, AllNumbers
  <2>2. N + 1 \in K
    BY <1>1, <2>1
  <2> QED BY <1>1, <2>2 DEF K
<1>4. PICK k \in K : k + 1 \notin K
  BY <1>3
<1>5. PICK levels \in LevelsUpTo(k) : Levelled(levels) /\ k <= Cardinality(Sorted(levels))
  OBVIOUS
<1>6. Finished(levels)
  <2> SUFFICES ASSUME ~Finished(levels)
               PROVE  FALSE
    OBVIOUS
  <2>1. PICK more \in LevelsUpTo(k + 1) : Levelled(more) /\ k + 1 <= Cardinality(Sorted(more))
    BY <1>5, NextLevel
  <2>2. Sorted(more) \subseteq Nodes
    BY DEF Sorted, LevelsUpTo
  <2>3. Cardinality(Sorted(more)) <= N /\ Cardinality(Sorted(more)) \in Nat
    BY <2>2, NodesAreFinite, FS_Subset, FS_CardinalityType
  <2>4. k + 1 \in 0..N
    BY <1>1, <2>1, <2>3
  <2> QED BY <1>4, <2>1, <2>4
<1>7. levels \in UNION {[1..j -> SUBSET Nodes] : j \in 0..N}
  BY <1>5 DEF LevelsUpTo
<1>8. /\ topologicalSort \in UNION {[1..j -> SUBSET Nodes] : j \in 0..N}
      /\ Finished(topologicalSort)
  BY <1>6, <1>7 DEF topologicalSort, Finished, Levelled
<1> QED BY <1>8 DEF LevelsUpTo

\* Every block has one level, after the levels of what leads to it.
LEMMA LevelsAscend ==
  ASSUME NEW k \in Nat, NEW levels \in LevelsUpTo(k), Levelled(levels)
  PROVE  /\ \A i, j \in 1..k : \A n \in levels[i] : n \in levels[j] => i = j
         /\ \A i \in 1..k : \A n \in levels[i], m \in Nodes :
              <<m, n>> \in links => \E j \in 1..i - 1 : m \in levels[j]
<1>1. DOMAIN levels = 1..k
  BY DEF LevelsUpTo
<1>2. ASSUME NEW i \in 1..k, NEW j \in 1..k, NEW n \in levels[i], n \in levels[j], i < j
      PROVE  FALSE
  <2>1. n \in left(levels, j)
    BY <1>1, <1>2 DEF Levelled, newLevel
  <2>2. i \in 1..j - 1
    BY <1>2
  <2> QED BY <2>1, <2>2 DEF left
<1>3. ASSUME NEW i \in 1..k, NEW n \in levels[i], NEW m \in Nodes, <<m, n>> \in links
      PROVE  \E j \in 1..i - 1 : m \in levels[j]
  <2>1. m \notin left(levels, i)
    BY <1>1, <1>3 DEF Levelled, newLevel
  <2> QED BY <2>1 DEF left
<1>4. \A i, j \in 1..k : i = j \/ i < j \/ j < i
  OBVIOUS
<1> QED BY <1>2, <1>3, <1>4

\* What leads to a block, leads to what that leads to; a link leads to its end.
LEMMA LeadsOn ==
  ASSUME NEW m \in Nodes
  PROVE  /\ \A n \in Nodes : <<m, n>> \in links => n \in LeadsTo(m)
         /\ \A n \in LeadsTo(m) : LeadsTo(n) \subseteq LeadsTo(m)
<1>1. \A n \in Nodes : <<m, n>> \in links => n \in LeadsTo(m)
  BY DEF LeadsTo
<1>2. ASSUME NEW n \in LeadsTo(m), NEW p \in LeadsTo(n)
      PROVE  p \in LeadsTo(m)
  <2> SUFFICES ASSUME NEW S \in SUBSET Nodes,
                      \A x \in S \cup {m}, y \in Nodes : <<x, y>> \in links => y \in S
               PROVE  p \in S
    BY <1>2 DEF LeadsTo
  <2>1. n \in S
    BY <1>2 DEF LeadsTo
  <2>2. \A x \in S \cup {n}, y \in Nodes : <<x, y>> \in links => y \in S
    BY <2>1
  <2> QED BY <1>2, <2>2 DEF LeadsTo
<1> QED BY <1>1, <1>2

\* All that leads to a sorted block has an earlier level.
LEMMA LeadsUp ==
  ASSUME NEW k \in Nat, NEW levels \in LevelsUpTo(k), Levelled(levels),
         NEW m \in Nodes, NEW i \in 1..k, NEW n \in levels[i], n \in LeadsTo(m)
  PROVE  \E j \in 1..i - 1 : m \in levels[j]
<1> DEFINE Follows(x) == \A h \in 1..k : x \in levels[h] => \E j \in 1..h - 1 : m \in levels[j]
           S == {x \in Nodes : Follows(x)}
<1>1. ASSUME NEW x \in S \cup {m}, NEW y \in Nodes, <<x, y>> \in links,
             NEW h \in 1..k, y \in levels[h]
      PROVE  \E j \in 1..h - 1 : m \in levels[j]
  <2>1. PICK g \in 1..h - 1 : x \in levels[g]
    BY <1>1, LevelsAscend
  <2>2. CASE x = m
    BY <2>1, <2>2
  <2>3. CASE x \in S
    <3>1. g \in 1..k
      OBVIOUS
    <3>2. PICK j \in 1..g - 1 : m \in levels[j]
      BY <2>1, <2>3, <3>1
    <3>3. j \in 1..h - 1
      OBVIOUS
    <3> QED BY <3>2, <3>3
  <2> QED BY <2>2, <2>3
<1>2. \A x \in S \cup {m}, y \in Nodes : <<x, y>> \in links => y \in S
  BY <1>1
<1>3. n \in S
  <2> HIDE DEF S
  <2>1. S \subseteq Nodes
    BY DEF S
  <2> QED BY <1>2, <2>1 DEF LeadsTo
<1> QED BY <1>3

\* Blocks that each have another before them are behind a cycle.
LEMMA BehindCycle ==
  ASSUME NEW rest \in SUBSET Nodes, newLevel(rest) = {}, NEW n \in rest
  PROVE  Behind(n)
<1> DEFINE Above(x) == {m \in rest : x \in LeadsTo(m)}
           Sizes == {Cardinality(Above(m)) : m \in Above(n)}
<1>1. ASSUME NEW x \in rest
      PROVE  Above(x) # {} /\ IsFiniteSet(Above(x)) /\ Cardinality(Above(x)) \in Nat
  <2>1. PICK m \in rest : <<m, x>> \in links
    BY DEF newLevel
  <2>2. x \in LeadsTo(m)
    BY <2>1, LeadsOn
  <2>3. IsFiniteSet(Above(x)) /\ Cardinality(Above(x)) \in Nat
    BY NodesAreFinite, FS_Subset, FS_CardinalityType
  <2> QED BY <2>2, <2>3
<1>2. \A x \in rest : \A m \in Above(x) : Above(m) \subseteq Above(x)
  BY LeadsOn
<1>3. Sizes \in SUBSET Nat /\ Sizes # {}
  BY <1>1
<1>4. PICK size \in Sizes : \A other \in Sizes : size <= other
  BY <1>3, Least
<1>5. PICK m \in Above(n) : Cardinality(Above(m)) = size
  BY <1>4
<1>6. PICK p \in Above(m) : TRUE
  BY <1>1, <1>5
<1>7. p \in rest /\ p \in Above(n) /\ Above(p) \subseteq Above(m)
  BY <1>2, <1>5, <1>6
<1>8. Cardinality(Above(m)) <= Cardinality(Above(p))
  BY <1>4, <1>5, <1>7
<1>9. Above(p) = Above(m)
  <2>1. /\ IsFiniteSet(Above(m)) /\ Cardinality(Above(m)) \in Nat
        /\ Cardinality(Above(p)) \in Nat
    BY <1>1, <1>5, <1>7
  <2> HIDE DEF Above
  <2>2. Cardinality(Above(p)) <= Cardinality(Above(m))
    BY <1>7, <2>1, FS_Subset
  <2>3. Cardinality(Above(m)) = Cardinality(Above(p))
    BY <1>8, <2>1, <2>2
  <2> QED BY <1>7, <2>1, <2>3, FS_Subset
<1>10. p \in LeadsTo(p) /\ n \in LeadsTo(p)
  BY <1>6, <1>7, <1>9
<1> QED BY <1>7, <1>10 DEF Behind

\* Every arrangement can be read from left to right.
LEMMA ArrangementsAreReadable == ArrangementIsReadable
<1> DEFINE levels == topologicalSort
<1>1. PICK k \in 0..Cardinality(Nodes) : levels \in LevelsUpTo(k) /\ Finished(levels)
  BY SortEnds
<1> HIDE DEF levels
<1>2. k \in Nat /\ Levelled(levels) /\ DOMAIN levels = 1..k
  BY <1>1, NodesAreFinite DEF Finished, LevelsUpTo
<1>3. Sorted(levels) \subseteq Nodes
  BY <1>1, <1>2 DEF Sorted, LevelsUpTo
<1>4. ASSUME NEW n \in Sorted(levels), Behind(n)
      PROVE  FALSE
  <2>1. PICK i \in 1..k : n \in levels[i]
    BY <1>2 DEF Sorted
  <2>2. PICK m \in Nodes : m \in LeadsTo(m) /\ n \in LeadsTo(m)
    BY <1>4 DEF Behind
  <2>3. PICK j \in 1..i - 1 : m \in levels[j]
    BY <1>1, <1>2, <2>1, <2>2, LeadsUp
  <2>4. j \in 1..k
    BY <1>2
  <2>5. PICK h \in 1..j - 1 : m \in levels[h]
    BY <1>1, <1>2, <2>2, <2>3, <2>4, LeadsUp
  <2>6. h \in 1..k /\ h # j
    BY <1>2, <2>4
  <2> QED BY <1>1, <1>2, <2>3, <2>4, <2>5, <2>6, LevelsAscend
<1>5. ASSUME NEW n \in Nodes, n \notin Sorted(levels)
      PROVE  Behind(n)
  BY <1>1, <1>5, BehindCycle DEF Finished
<1>6. Sorted(levels) = {n \in Nodes : ~Behind(n)}
  BY <1>3, <1>4, <1>5
<1>7. ASSUME NEW f \in Arrangements(levels), NEW m \in Sorted(levels), NEW n \in Sorted(levels)
      PROVE  /\ n \in LeadsTo(m) => f[m][1] < f[n][1]
             /\ m # n => f[m] # f[n]
  <2>1. PICK i \in 1..k : m \in levels[i]
    BY <1>2 DEF Sorted
  <2>2. PICK j \in 1..k : n \in levels[j]
    BY <1>2 DEF Sorted
  <2>3. \A x \in Sorted(levels), h \in 1..k : x \in levels[h] => LevelOf(levels, x) = h
    <3> SUFFICES ASSUME NEW x, NEW h \in 1..k, x \in levels[h]
                 PROVE  LevelOf(levels, x) = h
      OBVIOUS
    <3>1. \A g \in 1..k : x \in levels[g] => g = h
      BY <1>1, <1>2, LevelsAscend
    <3> QED BY <1>2, <3>1 DEF LevelOf
  <2>4. f[m][1] = i /\ f[n][1] = j
    BY <2>1, <2>2, <2>3 DEF Arrangements
  <2>5. ASSUME n \in LeadsTo(m)
        PROVE  i < j
    <3>1. PICK h \in 1..j - 1 : m \in levels[h]
      BY <1>1, <1>2, <1>3, <2>2, <2>5, LeadsUp
    <3>2. h \in 1..k
      BY <1>2
    <3>3. h = i
      BY <1>1, <1>2, <2>1, <3>1, <3>2, LevelsAscend
    <3> QED BY <3>3
  <2>6. ASSUME m # n, f[m] = f[n]
        PROVE  FALSE
    <3>1. i = j
      BY <2>4, <2>6
    <3> DEFINE L == levels[i]
               g == [x \in L |-> f[x][2]]
    <3>2. /\ L \subseteq Nodes /\ IsFiniteSet(L) /\ Cardinality(L) \in Nat
          /\ L \subseteq Sorted(levels)
      BY <1>1, <1>2, NodesAreFinite, FS_Subset, FS_CardinalityType DEF LevelsUpTo, Sorted
    <3>3. {f[x][2] : x \in L} = 1..Cardinality(L)
      BY <1>2 DEF Arrangements
    <3>4. g \in Surjection(L, 1..Cardinality(L))
      BY <3>3, Zenon DEF Surjection
    <3>5. Cardinality(1..Cardinality(L)) = Cardinality(L)
      BY <3>2, FS_Interval
    <3>6. g \in Injection(L, 1..Cardinality(L))
      BY <3>2, <3>4, <3>5, FS_SurjSameCardinalityImpliesInj
    <3>7. g[m] = g[n] /\ m \in L /\ n \in L
      BY <2>1, <2>2, <2>6, <3>1
    <3> QED BY <2>6, <3>6, <3>7 DEF Injection, IsInjective
  <2> QED BY <2>4, <2>5, <2>6
<1> QED BY <1>6, <1>7 DEF ArrangementIsReadable, levels

(***************************************************************************)
(* BlockPlacement: what is stored.                                         *)
(***************************************************************************)

Places == Spots \cup {Corner, Unplaced} \cup (Nat \X Nat)
NodeSettings == [node : Nodes, at : Places \ {Unplaced}]

PlacesAreTyped ==
  /\ links \subseteq Nodes \X Nodes /\ constraints \in [Nodes -> Places]
  /\ view \in [Clients -> [Nodes -> Places]]
  /\ nodePosition \in [Clients -> [Nodes -> Places]]
  /\ storedXY \in [Clients -> [Nodes -> Places]]
  /\ wasUserPositioned \in [Clients -> [Nodes -> BOOLEAN]]
  /\ updatePosition \in [Clients -> [Nodes -> BOOLEAN]]
  /\ shouldRearrangeBlocks \in [Clients -> BOOLEAN] /\ moves \in 0..MaxMoves
  /\ toService \in [Clients -> Seq(NodeSettings)]
  /\ toEditor \in [Clients -> Seq(NodeSettings)]

\* A block of a UI: it has a spot once it was drawn, only then its user can drag it; it
\* is told to move only to a spot; and where its user has put it, is stored, unless it is
\* still to be drawn there or is told to move.
Placed(c, n) ==
  /\ view[c][n] # Unplaced => nodePosition[c][n] # Unplaced
  /\ wasUserPositioned[c][n] => view[c][n] # Unplaced
  /\ updatePosition[c][n] => storedXY[c][n] # Unplaced
  /\ wasUserPositioned[c][n] /\ ~updatePosition[c][n] /\ nodePosition[c][n] = view[c][n]
       => storedXY[c][n] = nodePosition[c][n]

\* The last message about a block tells every UI what its settings are.
LastIsCurrent(c) ==
  \A j \in 1..Len(toEditor[c]) :
    \/ toEditor[c][j].at = constraints[toEditor[c][j].node]
    \/ \E k \in j + 1..Len(toEditor[c]) : toEditor[c][k].node = toEditor[c][j].node

\* A UI stores what the settings are, unless a message about the block is on its way.
StoredIsCurrent(c, n) ==
  \/ storedXY[c][n] = constraints[n]
  \/ \E j \in 1..Len(toEditor[c]) : toEditor[c][j].node = n
  \/ \E j \in 1..Len(toService[c]) : toService[c][j].node = n

PlaceInv ==
  /\ PlacesAreTyped
  /\ \A c \in Clients : LastIsCurrent(c) /\ \A n \in Nodes : Placed(c, n) /\ StoredIsCurrent(c, n)

LEMMA PlaceInvHolds ==
  ASSUME PlaceInv, \A c \in Clients : toService[c] = <<>> /\ toEditor[c] = <<>>,
         NEW c \in Clients, NEW n \in Nodes
  PROVE  /\ storedXY[c][n] = constraints[n] \/ nodePosition[c][n] # view[c][n]
         /\ wasUserPositioned[c][n] /\ ~updatePosition[c][n] /\ nodePosition[c][n] = view[c][n]
              => nodePosition[c][n] = constraints[n]
<1>1. storedXY[c][n] = constraints[n]
  BY DEF PlaceInv, StoredIsCurrent
<1>2. Placed(c, n)
  BY DEF PlaceInv
<1> QED BY <1>1, <1>2 DEF Placed

LEMMA PlacedAtFirst ==
  ASSUME PlacementInit
  PROVE  PlaceInv
<1>1. PlacesAreTyped
  BY BlockPlacementAssumption DEF PlacementInit, PlacesAreTyped, Places
<1>2. ASSUME NEW c \in Clients, NEW n \in Nodes
      PROVE  Placed(c, n)
  BY DEF PlacementInit, Placed
<1>3. ASSUME NEW c \in Clients, NEW n \in Nodes
      PROVE  StoredIsCurrent(c, n)
  BY DEF PlacementInit, StoredIsCurrent
<1>4. ASSUME NEW c \in Clients
      PROVE  LastIsCurrent(c)
  BY DEF PlacementInit, LastIsCurrent
<1> QED BY <1>1, <1>2, <1>3, <1>4 DEF PlaceInv

\* A drag moves a block away from where it was drawn.
LEMMA DragPlaces ==
  ASSUME PlaceInv, NEW c \in Clients, NEW n \in Nodes, NEW s \in Spots, Drag(c, n, s)
  PROVE  PlaceInv'
<1>1. PlacesAreTyped'
  <2>1. s \in Places /\ moves \in 0..MaxMoves /\ MaxMoves \in Nat
    BY BlockPlacementAssumption DEF Places, PlaceInv, PlacesAreTyped
  <2>2. moves' \in 0..MaxMoves
    BY <2>1 DEF Drag
  <2>3. nodePosition' \in [Clients -> [Nodes -> Places]]
    BY <2>1 DEF PlaceInv, PlacesAreTyped, Drag
  <2>4. wasUserPositioned' \in [Clients -> [Nodes -> BOOLEAN]]
    BY DEF PlaceInv, PlacesAreTyped, Drag
  <2> QED BY <2>2, <2>3, <2>4 DEF PlaceInv, PlacesAreTyped, Drag
<1>2. ASSUME NEW d \in Clients, NEW m \in Nodes
      PROVE  Placed(d, m)'
  <2>1. Placed(d, m) /\ s # Unplaced
    BY BlockPlacementAssumption DEF PlaceInv
  <2>2. /\ nodePosition'[d][m] = IF d = c /\ m = n THEN s ELSE nodePosition[d][m]
        /\ wasUserPositioned'[d][m] = IF d = c /\ m = n THEN TRUE ELSE wasUserPositioned[d][m]
        /\ nodePosition[c][n] \notin {Unplaced, s} /\ nodePosition[c][n] = view[c][n]
        /\ UNCHANGED <<view, storedXY, updatePosition>>
    BY DEF Drag, PlaceInv, PlacesAreTyped
  <2> QED BY <2>1, <2>2 DEF Placed
<1>3. ASSUME NEW d \in Clients
      PROVE  LastIsCurrent(d)' /\ \A m \in Nodes : StoredIsCurrent(d, m)'
  BY DEF Drag, PlaceInv, LastIsCurrent, StoredIsCurrent
<1> QED BY <1>1, <1>2, <1>3 DEF PlaceInv

\* Where the editor has its nodes when a frame places the blocks: nodes that had a spot
\* have one.
LEMMA NodesAt ==
  ASSUME PlaceInv, NEW c \in Clients, NEW all \in BOOLEAN,
         NEW at \in IF all \/ shouldRearrangeBlocks[c] THEN sortNodes(c, all) ELSE {nodePosition[c]}
  PROVE  /\ at \in [Nodes -> Places]
         /\ \A n \in Nodes : nodePosition[c][n] # Unplaced => at[n] # Unplaced
<1>1. nodePosition[c] \in [Nodes -> Places]
  BY DEF PlaceInv, PlacesAreTyped
<1>2. CASE at = nodePosition[c]
  BY <1>1, <1>2
<1>3. CASE at \in sortNodes(c, all)
  <2> DEFINE levels == topologicalSort
             Moved(n) == n \in Sorted(levels) /\
                         (all \/ ~(wasUserPositioned[c][n] \/ storedXY[c][n] # Unplaced))
  <2>1. PICK f \in Arrangements(levels) :
          at = [n \in Nodes |-> IF Moved(n) THEN f[n] ELSE nodePosition[c][n]]
    BY <1>3 DEF sortNodes
  <2>2. PICK k \in 0..Cardinality(Nodes) : levels \in LevelsUpTo(k)
    BY SortEnds
  <2>3. DOMAIN levels \subseteq Nat
    BY <2>2 DEF LevelsUpTo
  <2>4. \A n \in Sorted(levels) : f[n] \in Nat \X Nat
    <3>1. f \in [Sorted(levels) -> (DOMAIN levels) \X (1..Cardinality(Nodes))]
      BY DEF Arrangements
    <3>2. 1..Cardinality(Nodes) \subseteq Nat
      BY NodesAreFinite
    <3> HIDE DEF levels
    <3> QED BY <2>3, <3>1, <3>2
  <2>5. \A n \in Nodes : at[n] = nodePosition[c][n] \/ at[n] \in Nat \X Nat
    BY <2>1, <2>4
  <2>6. at = [n \in Nodes |-> at[n]]
    BY <2>1
  <2> HIDE DEF levels, Moved
  <2>7. \A n \in Nodes : at[n] \in Places
    BY <1>1, <2>5 DEF Places
  <2>8. at \in [Nodes -> Places]
    BY <2>6, <2>7
  <2> QED BY <2>5, <2>8, BlockPlacementAssumption
<1> QED BY <1>2, <1>3

\* Where the elements of a sequence are that is appended to another.
LEMMA Appended ==
  ASSUME NEW S, NEW q \in Seq(S), NEW s \in Seq(S), NEW i \in 1..Len(s)
  PROVE  /\ Len(q) + i \in 1..Len(q \o s)
         /\ (q \o s)[Len(q) + i] = s[i]
BY ConcatProperties

LEMMA AppliedTypes ==
  ASSUME PlaceInv, NEW c \in Clients, NEW at \in [Nodes -> Places], applyNodePosition(c, at),
         \A n \in Nodes : nodePosition[c][n] # Unplaced => at[n] # Unplaced,
         UNCHANGED <<links, constraints, wasUserPositioned, toEditor>>,
         moves' \in 0..MaxMoves
  PROVE  PlaceInv'
<1> DEFINE position == [n \in Nodes |->
             IF view[c][n] = Unplaced \/ updatePosition[c][n]
             THEN IF storedXY[c][n] # Unplaced THEN storedXY[c][n] ELSE Corner
             ELSE at[n]]
           stores == {n \in Nodes : Stores(c, n, at)}
           xy == [n \in Nodes |-> IF Stores(c, n, at) THEN at[n] ELSE storedXY[c][n]]
           none == [n \in Nodes |-> FALSE]
           new == \E n \in Nodes : view[c][n] = Unplaced
<1>1. PlacesAreTyped /\ Corner \in Places
  BY DEF PlaceInv, Places
<1>2. /\ nodePosition' = [nodePosition EXCEPT ![c] = position]
      /\ view' = [view EXCEPT ![c] = position]
      /\ updatePosition' = [updatePosition EXCEPT ![c] = none]
      /\ shouldRearrangeBlocks' = [shouldRearrangeBlocks EXCEPT ![c] = new]
  BY DEF applyNodePosition
<1>3. storedXY' = [storedXY EXCEPT ![c] = xy]
  BY <1>1 DEF applyNodePosition, PlacesAreTyped
<1>4. PICK order \in [1..Cardinality(stores) -> Nodes] :
        /\ {order[i] : i \in DOMAIN order} = stores
        /\ toService' = [toService EXCEPT ![c] =
             @ \o [i \in DOMAIN order |-> [node |-> order[i], at |-> at[order[i]]]]]
  BY DEF applyNodePosition
<1> DEFINE sent == [i \in DOMAIN order |-> [node |-> order[i], at |-> at[order[i]]]]
<1>5. ASSUME NEW n \in Nodes
      PROVE  /\ position[n] \in Places /\ position[n] # Unplaced /\ xy[n] \in Places
             /\ wasUserPositioned[c][n] => xy[n] = position[n]
             /\ n \in stores => at[n] # Unplaced
  <2>1. Placed(c, n) /\ view[c][n] \in Places /\ storedXY[c][n] \in Places /\ at[n] \in Places
    BY <1>1 DEF PlaceInv, PlacesAreTyped
  <2>2. Corner # Unplaced
    BY BlockPlacementAssumption
  <2> QED BY <1>1, <2>1, <2>2 DEF Placed, Stores
<1>6. sent \in Seq(NodeSettings) /\ Len(sent) = Cardinality(stores) /\ DOMAIN order = 1..Len(sent)
  <2>1. Cardinality(stores) \in Nat
    BY NodesAreFinite, FS_Subset, FS_CardinalityType
  <2>2. \A i \in DOMAIN order : order[i] \in stores
    BY <1>4
  <2>3. \A i \in DOMAIN order : sent[i] \in NodeSettings
    BY <1>5, <2>2 DEF NodeSettings
  <2>4. DOMAIN order = 1..Cardinality(stores)
    OBVIOUS
  <2>5. sent \in [1..Cardinality(stores) -> NodeSettings]
    BY <2>3, <2>4
  <2> HIDE DEF sent, stores
  <2> QED BY <2>1, <2>4, <2>5
<1>7. \A i \in 1..Len(sent) : sent[i].node = order[i]
  BY <1>6
<1> HIDE DEF position, xy, none, new, sent
<1>8. position \in [Nodes -> Places] /\ xy \in [Nodes -> Places]
  BY <1>5 DEF position, xy
<1>9. toService'[c] = toService[c] \o sent /\ toService' \in [Clients -> Seq(NodeSettings)]
      /\ \A d \in Clients : d # c => toService'[d] = toService[d]
  <2>1. toService \in [Clients -> Seq(NodeSettings)]
    BY <1>1 DEF PlacesAreTyped
  <2>2. toService' = [toService EXCEPT ![c] = toService[c] \o sent]
    BY <1>4 DEF sent
  <2>3. toService[c] \o sent \in Seq(NodeSettings)
    BY <1>6, <2>1, ConcatProperties
  <2> QED BY <2>1, <2>2, <2>3
<1>10. PlacesAreTyped'
  <2>1. none \in [Nodes -> BOOLEAN] /\ new \in BOOLEAN
    BY DEF none, new
  <2> QED BY <1>1, <1>2, <1>3, <1>8, <1>9, <2>1 DEF PlacesAreTyped
<1>11. ASSUME NEW d \in Clients, NEW n \in Nodes
       PROVE  Placed(d, n)' /\ StoredIsCurrent(d, n)'
  <2>1. Placed(d, n) /\ StoredIsCurrent(d, n)
    BY DEF PlaceInv
  <2>2. CASE d # c
    <3>1. /\ nodePosition'[d] = nodePosition[d] /\ view'[d] = view[d] /\ storedXY'[d] = storedXY[d]
          /\ updatePosition'[d] = updatePosition[d] /\ toService'[d] = toService[d]
      BY <1>1, <1>2, <1>3, <1>9, <2>2 DEF PlacesAreTyped
    <3> QED BY <2>1, <3>1 DEF Placed, StoredIsCurrent
  <2>3. CASE d = c
    <3>1. /\ nodePosition'[c] = position /\ view'[c] = position /\ storedXY'[c] = xy
          /\ updatePosition'[c][n] = FALSE
      BY <1>1, <1>2, <1>3 DEF PlacesAreTyped, none
    <3>2. Placed(c, n)'
      BY <1>5, <3>1 DEF Placed
    <3>3. CASE Stores(c, n, at)
      <4>1. PICK i \in 1..Len(sent) : order[i] = n
        BY <1>4, <1>6, <3>3
      <4>2. toService[c] \in Seq(NodeSettings)
        BY <1>1 DEF PlacesAreTyped
      <4>3. /\ Len(toService[c]) + i \in 1..Len(toService'[c])
            /\ toService'[c][Len(toService[c]) + i] = sent[i]
        <5>1. toService'[c] = toService[c] \o sent
          BY <1>9
        <5>2. sent \in Seq(NodeSettings)
          BY <1>6
        <5> QED BY <4>1, <4>2, <5>1, <5>2, Appended
      <4>4. toService'[c][Len(toService[c]) + i].node = n
        BY <1>7, <4>1, <4>3
      <4> QED BY <2>3, <3>2, <4>3, <4>4 DEF StoredIsCurrent
    <3>4. CASE ~Stores(c, n, at)
      <4>1. xy[n] = storedXY[c][n]
        BY <3>4 DEF xy
      <4>2. CASE \E j \in 1..Len(toService[c]) : toService[c][j].node = n
        <5>1. PICK j \in 1..Len(toService[c]) : toService[c][j].node = n
          BY <4>2
        <5>2. toService[c] \in Seq(NodeSettings)
          BY <1>1 DEF PlacesAreTyped
        <5>3. j \in 1..Len(toService'[c]) /\ toService'[c][j] = toService[c][j]
          BY <1>6, <1>9, <5>2, ConcatProperties
        <5> QED BY <2>3, <3>2, <5>1, <5>3 DEF StoredIsCurrent
      <4>3. CASE ~\E j \in 1..Len(toService[c]) : toService[c][j].node = n
        BY <2>1, <2>3, <3>1, <3>2, <4>1, <4>3 DEF StoredIsCurrent
      <4> QED BY <4>2, <4>3
    <3> QED BY <3>3, <3>4
  <2> QED BY <2>2, <2>3
<1>12. ASSUME NEW d \in Clients
       PROVE  LastIsCurrent(d)'
  BY DEF PlaceInv, LastIsCurrent
<1> QED BY <1>10, <1>11, <1>12 DEF PlaceInv

LEMMA FramePlaces ==
  ASSUME PlaceInv, NEW c \in Clients, NEW all \in BOOLEAN, drawGraph(c, all), moves' \in 0..MaxMoves
  PROVE  PlaceInv'
BY NodesAt, AppliedTypes DEF drawGraph

\* The service tells all UIs what it stores.
LEMMA SettingPlaces ==
  ASSUME PlaceInv, NEW c \in Clients, ApplySetting(c)
  PROVE  PlaceInv'
<1> DEFINE set == Head(toService[c])
<1>1. /\ PlacesAreTyped /\ toService[c] \in Seq(NodeSettings) /\ toService[c] # <<>>
      /\ toService' = [toService EXCEPT ![c] = Tail(toService[c])]
      /\ constraints' = [constraints EXCEPT ![set.node] = set.at]
      /\ toEditor' = [d \in Clients |-> Append(toEditor[d], set)]
      /\ UNCHANGED <<links, view, nodePosition, wasUserPositioned, storedXY, updatePosition,
                     shouldRearrangeBlocks, moves>>
  BY DEF ApplySetting, PlaceInv, PlacesAreTyped
<1>2. /\ set \in NodeSettings /\ Len(toService[c]) \in Nat \ {0} /\ set = toService[c][1]
      /\ Tail(toService[c]) \in Seq(NodeSettings) /\ Len(Tail(toService[c])) = Len(toService[c]) - 1
      /\ \A j \in 1..Len(toService[c]) - 1 : Tail(toService[c])[j] = toService[c][j + 1]
  BY <1>1
<1>3. \A d \in Clients : toEditor[d] \in Seq(NodeSettings) /\ toEditor'[d] = Append(toEditor[d], set)
  BY <1>1 DEF PlacesAreTyped
<1> HIDE DEF set
<1>4. set.node \in Nodes /\ set.at \in Places \ {Unplaced}
  BY <1>2 DEF NodeSettings
<1>5. /\ constraints' \in [Nodes -> Places]
      /\ \A n \in Nodes : constraints'[n] = IF n = set.node THEN set.at ELSE constraints[n]
  BY <1>1, <1>4 DEF PlacesAreTyped
<1>6. ASSUME NEW d \in Clients
      PROVE  /\ toEditor'[d] \in Seq(NodeSettings) /\ Len(toEditor'[d]) = Len(toEditor[d]) + 1
             /\ Len(toEditor[d]) \in Nat
             /\ \A j \in 1..Len(toEditor[d]) : toEditor'[d][j] = toEditor[d][j]
             /\ toEditor'[d][Len(toEditor[d]) + 1] = set
  <2>1. toEditor[d] \in Seq(NodeSettings) /\ toEditor'[d] = Append(toEditor[d], set)
    BY <1>3
  <2> QED BY <1>2, <2>1, AppendProperties
<1>7. PlacesAreTyped'
  <2>1. toService' \in [Clients -> Seq(NodeSettings)]
    BY <1>1, <1>2 DEF PlacesAreTyped
  <2>2. toEditor' \in [Clients -> Seq(NodeSettings)]
    BY <1>1, <1>6
  <2> QED BY <1>1, <1>5, <2>1, <2>2 DEF PlacesAreTyped
<1>8. ASSUME NEW d \in Clients
      PROVE  LastIsCurrent(d)'
  <2> SUFFICES ASSUME NEW j \in 1..Len(toEditor'[d])
               PROVE  \/ toEditor'[d][j].at = constraints'[toEditor'[d][j].node]
                      \/ \E k \in j + 1..Len(toEditor'[d]) :
                           toEditor'[d][k].node = toEditor'[d][j].node
    BY DEF LastIsCurrent
  <2> DEFINE len == Len(toEditor[d])
  <2>1. len \in Nat /\ Len(toEditor'[d]) = len + 1
    BY <1>6
  <2> HIDE DEF len
  <2>2. CASE j = len + 1
    BY <1>4, <1>5, <1>6, <2>2 DEF len
  <2>3. CASE j # len + 1
    <3>1. j \in 1..len
      BY <2>1, <2>3
    <3>2. toEditor'[d][j] = toEditor[d][j] /\ toEditor[d][j].node \in Nodes
      <4>1. toEditor'[d][j] = toEditor[d][j]
        BY <1>6, <3>1 DEF len
      <4>2. toEditor[d][j] \in NodeSettings
        BY <1>3, <3>1, ElementOfSeq DEF len
      <4> QED BY <4>1, <4>2 DEF NodeSettings
    <3>3. CASE toEditor[d][j].node = set.node
      <4>1. len + 1 \in j + 1..Len(toEditor'[d])
        BY <2>1, <3>1
      <4>2. toEditor'[d][len + 1].node = toEditor'[d][j].node
        BY <1>6, <3>2, <3>3 DEF len
      <4> QED BY <4>1, <4>2
    <3>4. CASE toEditor[d][j].node # set.node
      <4>1. CASE toEditor[d][j].at = constraints[toEditor[d][j].node]
        BY <1>5, <3>2, <3>4, <4>1
      <4>2. CASE toEditor[d][j].at # constraints[toEditor[d][j].node]
        <5>1. PICK k \in j + 1..len : toEditor[d][k].node = toEditor[d][j].node
          BY <3>1, <4>2 DEF PlaceInv, LastIsCurrent, len
        <5>2. k \in 1..len /\ k \in j + 1..Len(toEditor'[d])
          BY <2>1, <3>1
        <5>3. toEditor'[d][k] = toEditor[d][k]
          BY <1>6, <5>2 DEF len
        <5> QED BY <3>2, <5>1, <5>2, <5>3
      <4> QED BY <4>1, <4>2
    <3> QED BY <3>3, <3>4
  <2> QED BY <2>2, <2>3
<1>9. ASSUME NEW d \in Clients, NEW n \in Nodes
      PROVE  StoredIsCurrent(d, n)'
  <2>1. StoredIsCurrent(d, n)
    BY DEF PlaceInv
  <2>2. CASE n = set.node
    <3>1. Len(toEditor[d]) + 1 \in 1..Len(toEditor'[d])
      BY <1>6
    <3>2. toEditor'[d][Len(toEditor[d]) + 1].node = n
      BY <1>6, <2>2
    <3> QED BY <3>1, <3>2 DEF StoredIsCurrent
  <2>3. CASE n # set.node
    <3>1. CASE storedXY[d][n] = constraints[n]
      BY <1>1, <1>5, <2>3, <3>1 DEF StoredIsCurrent
    <3>2. CASE \E j \in 1..Len(toEditor[d]) : toEditor[d][j].node = n
      <4>1. PICK j \in 1..Len(toEditor[d]) : toEditor[d][j].node = n
        BY <3>2
      <4>2. j \in 1..Len(toEditor'[d]) /\ toEditor'[d][j] = toEditor[d][j]
        BY <1>6
      <4> QED BY <4>1, <4>2 DEF StoredIsCurrent
    <3>3. CASE \E j \in 1..Len(toService[d]) : toService[d][j].node = n
      <4>1. PICK j \in 1..Len(toService[d]) : toService[d][j].node = n
        BY <3>3
      <4>2. CASE d = c
        <5>1. j # 1
          BY <1>2, <2>3, <4>1, <4>2
        <5>2. j - 1 \in 1..Len(toService[c]) - 1 /\ (j - 1) + 1 = j
          BY <1>2, <4>2, <5>1
        <5>3. toService'[c] = Tail(toService[c])
          BY <1>1 DEF PlacesAreTyped
        <5>4. j - 1 \in 1..Len(toService'[c]) /\ toService'[c][j - 1].node = n
          BY <1>2, <4>1, <4>2, <5>2, <5>3
        <5> QED BY <4>2, <5>4 DEF StoredIsCurrent
      <4>3. CASE d # c
        <5>1. toService'[d] = toService[d]
          BY <1>1, <4>3 DEF PlacesAreTyped
        <5> QED BY <4>1, <5>1 DEF StoredIsCurrent
      <4> QED BY <4>2, <4>3
    <3> QED BY <2>1, <3>1, <3>2, <3>3 DEF StoredIsCurrent
  <2> QED BY <2>2, <2>3
<1>10. ASSUME NEW d \in Clients, NEW n \in Nodes
       PROVE  Placed(d, n)'
  BY <1>1 DEF Placed, PlaceInv
<1> QED BY <1>7, <1>8, <1>9, <1>10 DEF PlaceInv

\* A UI that is told something new is told to move the block.
LEMMA ChangePlaces ==
  ASSUME PlaceInv, NEW c \in Clients, handleBlockSettingsChanged(c)
  PROVE  PlaceInv'
<1> DEFINE set == Head(toEditor[c])
           n0 == set.node
           differs == storedXY[c][n0] # set.at
<1>1. /\ PlacesAreTyped /\ toEditor[c] \in Seq(NodeSettings) /\ toEditor[c] # <<>>
      /\ toEditor' = [toEditor EXCEPT ![c] = Tail(toEditor[c])]
      /\ storedXY' = [storedXY EXCEPT ![c][n0] = set.at]
      /\ UNCHANGED <<links, constraints, view, nodePosition, wasUserPositioned,
                     shouldRearrangeBlocks, toService, moves>>
  BY DEF handleBlockSettingsChanged, PlaceInv, PlacesAreTyped
<1>2. /\ set \in NodeSettings /\ Len(toEditor[c]) \in Nat \ {0} /\ set = toEditor[c][1]
      /\ Tail(toEditor[c]) \in Seq(NodeSettings) /\ Len(Tail(toEditor[c])) = Len(toEditor[c]) - 1
      /\ \A j \in 1..Len(toEditor[c]) - 1 : Tail(toEditor[c])[j] = toEditor[c][j + 1]
  BY <1>1
<1>3. n0 \in Nodes /\ set.at \in Places \ {Unplaced}
  BY <1>2 DEF NodeSettings
<1>4. updatePosition' = [updatePosition EXCEPT ![c][n0] = @ \/ differs]
  BY DEF handleBlockSettingsChanged
<1> HIDE DEF set, n0, differs
<1>5. ASSUME NEW d \in Clients, NEW n \in Nodes
      PROVE  /\ storedXY'[d][n] = IF d = c /\ n = n0 THEN set.at ELSE storedXY[d][n]
             /\ updatePosition'[d][n] =
                  IF d = c /\ n = n0 THEN updatePosition[c][n0] \/ differs ELSE updatePosition[d][n]
  BY <1>1, <1>3, <1>4 DEF PlacesAreTyped
<1>6. toEditor'[c] = Tail(toEditor[c]) /\ \A d \in Clients : d # c => toEditor'[d] = toEditor[d]
  BY <1>1 DEF PlacesAreTyped
<1>7. PlacesAreTyped'
  <2>1. storedXY' \in [Clients -> [Nodes -> Places]]
    BY <1>1, <1>3 DEF PlacesAreTyped
  <2>2. updatePosition' \in [Clients -> [Nodes -> BOOLEAN]]
    <3>1. (updatePosition[c][n0] \/ differs) \in BOOLEAN
      OBVIOUS
    <3> QED BY <1>1, <1>3, <1>4, <3>1 DEF PlacesAreTyped
  <2>3. toEditor' \in [Clients -> Seq(NodeSettings)]
    BY <1>1, <1>2 DEF PlacesAreTyped
  <2> QED BY <1>1, <2>1, <2>2, <2>3 DEF PlacesAreTyped
<1>8. ASSUME NEW d \in Clients
      PROVE  LastIsCurrent(d)'
  <2>1. CASE d # c
    BY <1>1, <1>6, <2>1 DEF PlaceInv, LastIsCurrent
  <2>2. CASE d = c
    <3> SUFFICES ASSUME NEW j \in 1..Len(toEditor'[c])
                 PROVE  \/ toEditor'[c][j].at = constraints[toEditor'[c][j].node]
                        \/ \E k \in j + 1..Len(toEditor'[c]) :
                             toEditor'[c][k].node = toEditor'[c][j].node
      BY <1>1, <2>2 DEF LastIsCurrent
    <3> DEFINE len == Len(toEditor[c])
    <3>1. len \in Nat \ {0} /\ Len(toEditor'[c]) = len - 1
      BY <1>2, <1>6
    <3>2. \A k \in 1..len - 1 : toEditor'[c][k] = toEditor[c][k + 1]
      BY <1>2, <1>6
    <3> HIDE DEF len
    <3>3. j \in 1..len - 1 /\ j + 1 \in 1..len
      BY <3>1
    <3>4. CASE toEditor[c][j + 1].at = constraints[toEditor[c][j + 1].node]
      BY <3>2, <3>3, <3>4
    <3>5. CASE toEditor[c][j + 1].at # constraints[toEditor[c][j + 1].node]
      <4>1. PICK k \in (j + 1) + 1..len : toEditor[c][k].node = toEditor[c][j + 1].node
        BY <3>3, <3>5 DEF PlaceInv, LastIsCurrent, len
      <4>2. k - 1 \in j + 1..len - 1 /\ k - 1 \in 1..len - 1 /\ (k - 1) + 1 = k
        BY <3>1, <3>3
      <4>3. toEditor'[c][k - 1] = toEditor[c][k]
        BY <3>2, <4>2
      <4> QED BY <3>1, <3>2, <3>3, <4>1, <4>2, <4>3
    <3> QED BY <3>4, <3>5
  <2> QED BY <2>1, <2>2
<1>9. ASSUME NEW d \in Clients, NEW n \in Nodes
      PROVE  StoredIsCurrent(d, n)'
  <2>1. StoredIsCurrent(d, n)
    BY DEF PlaceInv
  <2>2. CASE d # c
    BY <1>1, <1>5, <1>6, <2>1, <2>2 DEF StoredIsCurrent
  <2>3. ASSUME d = c, NEW j \in 2..Len(toEditor[c]), toEditor[c][j].node = n
        PROVE  StoredIsCurrent(d, n)'
    <3>1. j - 1 \in 1..Len(toEditor[c]) - 1 /\ (j - 1) + 1 = j
      BY <1>2
    <3>2. j - 1 \in 1..Len(toEditor'[c]) /\ toEditor'[c][j - 1].node = n
      BY <1>2, <1>6, <2>3, <3>1
    <3> QED BY <2>3, <3>2 DEF StoredIsCurrent
  <2>4. ASSUME d = c, ~\E j \in 2..Len(toEditor[c]) : toEditor[c][j].node = n
        PROVE  StoredIsCurrent(d, n)'
    <3>1. CASE n = n0
      <4>1. 1 \in 1..Len(toEditor[c]) /\ toEditor[c][1].node = n
        BY <1>2, <3>1 DEF n0
      <4>2. set.at = constraints[n]
        BY <1>2, <2>4, <4>1 DEF PlaceInv, LastIsCurrent
      <4> QED BY <1>1, <1>5, <2>4, <3>1, <4>2 DEF StoredIsCurrent
    <3>2. CASE n # n0
      <4>1. \A j \in 1..Len(toEditor[c]) : toEditor[c][j].node # n
        <5>1. toEditor[c][1].node # n
          BY <1>2, <3>2 DEF n0
        <5>2. \A j \in 1..Len(toEditor[c]) : j = 1 \/ j \in 2..Len(toEditor[c])
          BY <1>2
        <5> QED BY <2>4, <5>1, <5>2
      <4>2. \/ storedXY[c][n] = constraints[n]
            \/ \E j \in 1..Len(toService[c]) : toService[c][j].node = n
        BY <2>1, <2>4, <4>1 DEF StoredIsCurrent
      <4> QED BY <1>1, <1>5, <2>4, <3>2, <4>2 DEF StoredIsCurrent
    <3> QED BY <3>1, <3>2
  <2> QED BY <2>2, <2>3, <2>4
<1>10. ASSUME NEW d \in Clients, NEW n \in Nodes
       PROVE  Placed(d, n)'
  <2>1. Placed(d, n) /\ Placed(c, n0)
    BY <1>3 DEF PlaceInv
  <2>2. set.at # Unplaced
    BY <1>3
  <2>3. CASE ~(d = c /\ n = n0)
    <3>1. storedXY'[d][n] = storedXY[d][n] /\ updatePosition'[d][n] = updatePosition[d][n]
      BY <1>5, <2>3
    <3> QED BY <1>1, <2>1, <3>1 DEF Placed
  <2>4. CASE d = c /\ n = n0
    <3>1. storedXY'[d][n] = set.at
      BY <1>5, <2>4
    <3>2. ~updatePosition'[d][n] => ~updatePosition[d][n] /\ storedXY[d][n] = set.at
      BY <1>5, <2>4 DEF differs
    <3> QED BY <1>1, <2>1, <2>2, <3>1, <3>2 DEF Placed
  <2> QED BY <2>3, <2>4
<1> QED BY <1>7, <1>8, <1>9, <1>10 DEF PlaceInv

LEMMA PlaceInductive ==
  ASSUME PlaceInv, [PlacementNext]_placementVars
  PROVE  PlaceInv'
<1>1. ASSUME NEW c \in Clients, drawGraph(c, FALSE), UNCHANGED moves
      PROVE  PlaceInv'
  BY <1>1, FramePlaces DEF PlaceInv, PlacesAreTyped
<1>2. ASSUME NEW c \in Clients, RearrangeBlocks(c)
      PROVE  PlaceInv'
  <2>1. moves' \in 0..MaxMoves
    BY <1>2, BlockPlacementAssumption DEF RearrangeBlocks, PlaceInv, PlacesAreTyped
  <2> QED BY <1>2, <2>1, FramePlaces DEF RearrangeBlocks
<1>3. CASE UNCHANGED placementVars
  BY <1>3 DEF placementVars, PlaceInv, PlacesAreTyped, Placed, LastIsCurrent, StoredIsCurrent
<1> QED BY <1>1, <1>2, <1>3, DragPlaces, SettingPlaces, ChangePlaces DEF PlacementNext

LEMMA PlaceInvStays == PlacementSpec => []PlaceInv
<1>1. PlacementInit => PlaceInv
  BY PlacedAtFirst
<1>2. PlaceInv /\ [PlacementNext]_placementVars => PlaceInv'
  BY PlaceInductive
<1> QED BY <1>1, <1>2, PTL DEF PlacementSpec

\* Blocks are only placed at spots, and messages carry nothing else.
THEOREM PlacementTypeCorrect == PlacementSpec => []PlacementTypeOK
<1>1. PlaceInv => PlacementTypeOK
  BY DEF PlaceInv, PlacesAreTyped, PlacementTypeOK, Places
<1> QED BY <1>1, PlaceInvStays, PTL

\* Arrangements of linked blocks can be read from left to right, with a spot for each
\* block and only those on or behind a cycle left out; and once all messages have arrived
\* and were drawn, every UI has a block where the last user who dragged it put it, for
\* any number of UIs, blocks and drags (FlowgraphPage.cpp:451-480, GraphModel.cpp:1027).
THEOREM BlocksStayInPlace == PlacementSpec => BlocksAreInPlace
<1> DEFINE InPlace ==
      (\A c \in Clients : toService[c] = <<>> /\ toEditor[c] = <<>>) =>
        \A c \in Clients, n \in Nodes :
          /\ storedXY[c][n] = constraints[n] \/ nodePosition[c][n] # view[c][n]
          /\ wasUserPositioned[c][n] /\ ~updatePosition[c][n] /\ nodePosition[c][n] = view[c][n]
               => nodePosition[c][n] = constraints[n]
<1>1. PlaceInv => InPlace
  BY PlaceInvHolds
<1>2. links # {} => ArrangementIsReadable
  BY ArrangementsAreReadable
<1> QED BY <1>1, <1>2, PlaceInvStays, PTL DEF BlocksAreInPlace
=============================================================================
