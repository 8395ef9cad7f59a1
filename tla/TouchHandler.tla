---------------------------- MODULE TouchHandler ----------------------------
(***************************************************************************)
(* Touch screens: SDL reports fingers that go down, move and are lifted    *)
(* under IDs of its own, and reports may be lost.  The handler gives each  *)
(* finger a small index, counts the fingers, presses mouse buttons for a   *)
(* single one and recognises gestures of two; after five seconds without   *)
(* any report it takes all fingers for lifted.  A finger that lies still   *)
(* for so long is reported when it is lifted nevertheless.                 *)
(*                                                                         *)
(* Positions are left out; the mouse buttons are those that the queued     *)
(* events leave pressed.  Dragging by a gesture is compiled out.  The      *)
(* counter is an unsigned integer of the given modulus, and the build has  *)
(* no assertions.                                                          *)
(***************************************************************************)
EXTENDS Naturals, Sequences, FiniteSets

CONSTANTS
  Fingers,     \* SDL's finger IDs
  Modulus,     \* of nFingers
  Lossy,       \* whether reports may be lost
  MaxTouches   \* bound on the touches

ASSUME TouchAssumption ==
  Modulus \in Nat \ {0} /\ Lossy \in BOOLEAN /\ MaxTouches \in Nat

VARIABLES
  touching, touches,   \* the fingers on the screen, and how many touches so far
  fingerIdToIndex, releasedIndices, nextAvailableIndex,
  fingerPressed,       \* the indices of the fingers that are pressed
  nFingers,
  gestureActive, gestureZoomActive, singleFingerClicked, touchActive,
  buttons,             \* the mouse buttons that are pressed
  inactive             \* nothing was reported for five seconds

indexVars   == <<fingerIdToIndex, releasedIndices, nextAvailableIndex, fingerPressed>>
gestureVars == <<gestureActive, gestureZoomActive, singleFingerClicked, touchActive>>
touchVars   == <<touching, touches, indexVars, nFingers, gestureVars, buttons, inactive>>

Left == 0
Right == 1

TouchInit ==
  /\ touching = {} /\ touches = 0
  /\ fingerIdToIndex = [f \in {} |-> 0] /\ releasedIndices = <<>>
  /\ nextAvailableIndex = 0 /\ fingerPressed = {} /\ nFingers = 0
  /\ gestureActive = FALSE /\ gestureZoomActive = FALSE
  /\ singleFingerClicked = FALSE /\ touchActive = FALSE
  /\ buttons = {} /\ inactive = FALSE

-----------------------------------------------------------------------------
(* The indices.                                                            *)

Mapped == DOMAIN fingerIdToIndex
Extend(map, f, i) == [g \in DOMAIN map \cup {f} |-> IF g = f THEN i ELSE map[g]]
Forget(map, G) == [g \in DOMAIN map \ G |-> map[g]]
Top == releasedIndices[Len(releasedIndices)]
Pop == SubSeq(releasedIndices, 1, Len(releasedIndices) - 1)

\* The index of finger f, a new one if it has none: that released last, if any.
IndexOf(f) ==
  IF f \in Mapped THEN fingerIdToIndex[f]
  ELSE IF releasedIndices # <<>> THEN Top ELSE nextAvailableIndex

\* getOrAssignIndex
AssignIndex(f) ==
  /\ fingerIdToIndex' = Extend(fingerIdToIndex, f, IndexOf(f))
  /\ releasedIndices' = IF f \in Mapped \/ releasedIndices = <<>>
                        THEN releasedIndices ELSE Pop
  /\ nextAvailableIndex' = IF f \in Mapped \/ releasedIndices # <<>>
                           THEN nextAvailableIndex ELSE nextAvailableIndex + 1

\* getOrAssignIndex, and then releaseIndex.
AssignAndRelease(f) ==
  /\ fingerIdToIndex' = Forget(fingerIdToIndex, {f})
  /\ releasedIndices' = IF f \in Mapped THEN Append(releasedIndices, IndexOf(f))
                        ELSE IF releasedIndices # <<>> THEN releasedIndices
                        ELSE <<IndexOf(f)>>
  /\ nextAvailableIndex' = IF f \in Mapped \/ releasedIndices # <<>>
                           THEN nextAvailableIndex ELSE nextAvailableIndex + 1

-----------------------------------------------------------------------------
(* processSDLEvent.                                                        *)

Reported == touchActive' = TRUE /\ inactive' = FALSE

Gesturing == gestureActive \/ gestureZoomActive

FingerDown(f) ==
  LET i == IndexOf(f)
      begins == nFingers' >= 2 /\ ~gestureActive
      clicks == nFingers' = 1 /\ ~Gesturing
  IN /\ AssignIndex(f) /\ Reported
     /\ fingerPressed' = fingerPressed \cup {i}
     /\ nFingers' = (nFingers + 1) % Modulus
     /\ gestureActive' = (gestureActive \/ begins)
     /\ singleFingerClicked' = IF begins THEN FALSE
                               ELSE singleFingerClicked \/ clicks
     /\ buttons' = IF begins /\ singleFingerClicked THEN buttons \ {Left}
                   ELSE IF clicks THEN buttons \cup {i} ELSE buttons
     /\ UNCHANGED gestureZoomActive

\* The last finger clicks, unless there was a gesture; its button is released.
FingerUp(f) ==
  LET i == IndexOf(f)
  IN /\ AssignAndRelease(f) /\ Reported
     /\ fingerPressed' = fingerPressed \ {i}
     /\ nFingers' = (nFingers + Modulus - 1) % Modulus
     /\ buttons' = buttons \ ((IF nFingers' = 0 /\ ~Gesturing THEN {Left, Right} ELSE {})
                    \cup (IF nFingers' = 0 /\ ~gestureZoomActive THEN {i} ELSE {}))
     /\ UNCHANGED <<gestureActive, gestureZoomActive, singleFingerClicked>>

FingerMotion(f) ==
  /\ AssignIndex(f) /\ Reported
  /\ fingerPressed' = fingerPressed \cup {IndexOf(f)}
  /\ UNCHANGED <<nFingers, gestureActive, gestureZoomActive, singleFingerClicked,
                 buttons>>

Lost ==
  Lossy /\ UNCHANGED <<indexVars, nFingers, gestureVars, buttons, inactive>>

\* A finger goes down, is lifted or moves, and the report may get lost.
Touch(f) ==
  /\ f \notin touching /\ touches < MaxTouches
  /\ touching' = touching \cup {f} /\ touches' = touches + 1
  /\ FingerDown(f) \/ Lost

Lift(f) ==
  /\ f \in touching /\ touching' = touching \ {f} /\ UNCHANGED touches
  /\ FingerUp(f) \/ Lost

Move(f) ==
  f \in touching /\ FingerMotion(f) /\ UNCHANGED <<touching, touches>>

\* Fingers may lie still for long.
Wait ==
  /\ inactive' = TRUE
  /\ UNCHANGED <<touching, touches, indexVars, nFingers, gestureVars, buttons>>

-----------------------------------------------------------------------------
(* The rest of the loop and the frame.                                     *)

\* Mutant: the index of a finger that is taken for lifted is not released.
LiftWithoutRelease ==
  /\ fingerPressed' = {}
  /\ nFingers' = (nFingers + Modulus - Cardinality(fingerPressed)) % Modulus
  /\ touchActive' = TRUE /\ singleFingerClicked' = FALSE
  /\ UNCHANGED <<fingerIdToIndex, releasedIndices, nextAvailableIndex>>

\* All fingers are lifted, in the order of their indices.
LiftInactive ==
  /\ \E order \in [1..Cardinality(fingerPressed) -> fingerPressed] :
       /\ \A j, k \in DOMAIN order : j < k => order[j] < order[k]
       /\ releasedIndices' = releasedIndices \o order
  /\ fingerIdToIndex' =
       Forget(fingerIdToIndex, {f \in Mapped : fingerIdToIndex[f] \in fingerPressed})
  /\ fingerPressed' = {}
  /\ nFingers' = (nFingers + Modulus - Cardinality(fingerPressed)) % Modulus
  /\ touchActive' = TRUE /\ singleFingerClicked' = FALSE
  /\ UNCHANGED nextAvailableIndex

\* A gesture ends with its last finger.
EndGesture(released) ==
  /\ gestureActive' = (gestureActive /\ nFingers' # 0)
  /\ gestureZoomActive' = (gestureZoomActive /\ nFingers' # 0)
  /\ buttons' = buttons \ (released \cup IF gestureZoomActive /\ nFingers' = 0
                                        THEN {Left, Right} ELSE {})

UpdateGestures ==
  /\ IF inactive /\ fingerPressed # {}
     THEN LiftInactive /\ EndGesture(fingerPressed)
     ELSE /\ UNCHANGED <<indexVars, nFingers, touchActive, singleFingerClicked>>
          /\ EndGesture({})
  /\ UNCHANGED <<touching, touches, inactive>>

\* applyToImGui, and a plot in which two fingers may zoom.
TouchFrame ==
  /\ singleFingerClicked' = (singleFingerClicked /\ ~touchActive)
  /\ touchActive' = FALSE
  /\ \/ UNCHANGED <<gestureZoomActive, buttons>>
     \/ /\ gestureActive /\ nFingers = 2
        /\ gestureZoomActive' = TRUE
        /\ buttons' = IF gestureZoomActive THEN buttons ELSE buttons \ {Left}
  /\ UNCHANGED <<touching, touches, indexVars, nFingers, gestureActive, inactive>>

-----------------------------------------------------------------------------
TouchNext ==
  \/ \E f \in Fingers : Touch(f) \/ Lift(f) \/ Move(f)
  \/ Wait \/ UpdateGestures \/ TouchFrame

TouchSpec == TouchInit /\ [][TouchNext]_touchVars

-----------------------------------------------------------------------------
(* Properties.                                                             *)

TouchTypeOK ==
  /\ touching \subseteq Fingers /\ touches \in 0..MaxTouches
  /\ Mapped \subseteq Fingers /\ nFingers \in 0..(Modulus - 1)
  /\ {gestureActive, gestureZoomActive, singleFingerClicked, touchActive,
      inactive} \subseteq BOOLEAN
  /\ nextAvailableIndex \in Nat
  /\ buttons \subseteq 0..nextAvailableIndex \cup {Left, Right}

\* Each index that was ever assigned is either that of one finger, which is
\* pressed, or released, once: whichever reports are lost or late, no two fingers
\* share an index, and none leaks.
EachFingerHasItsIndex ==
  /\ \A f, g \in Mapped : fingerIdToIndex[f] = fingerIdToIndex[g] => f = g
  /\ fingerPressed = {fingerIdToIndex[f] : f \in Mapped}
  /\ \A j, k \in DOMAIN releasedIndices :
       releasedIndices[j] = releasedIndices[k] => j = k
  /\ LET released == {releasedIndices[k] : k \in DOMAIN releasedIndices}
     IN /\ released \cap fingerPressed = {}
        /\ released \cup fingerPressed = 0..(nextAvailableIndex - 1)

\* The counter of the fingers goes down only for a finger that was counted, as
\* "assert(nFingers > 0)" has it: it never wraps around.
CountedBeforeLifted == [][nFingers = 0 => nFingers' \in {0, 1}]_touchVars
=============================================================================
