------------------------------ MODULE CropBox -------------------------------
(***************************************************************************)
(* The crop rectangle of the photo editor.  The code keeps it in fractions  *)
(* of the rotated frame; here a frame is Frame units wide and high, and     *)
(* pointer positions are units too, also outside the frame.                 *)
(***************************************************************************)
EXTENDS Integers

CONSTANTS Frame,        \* the frame's side: 1 in the code
          MinSide,      \* MIN: 0.08 in the code
          Shapes,       \* the boxes of the aspect buttons: [w, h]
          Reach         \* how far outside the frame the pointer goes

ASSUME CropConstants ==
    /\ Frame \in Nat /\ MinSide \in Nat /\ 0 < MinSide /\ MinSide <= Frame /\ Reach \in Nat
    /\ Shapes \subseteq [w : MinSide .. Frame, h : MinSide .. Frame]

Modes == {"move", "nw", "ne", "sw", "se"}
West == {"nw", "sw"}
East == {"ne", "se"}
North == {"nw", "ne"}
South == {"sw", "se"}
Point == (0 - Reach) .. (Frame + Reach)

VARIABLES
    rotation,           \* in quarter turns
    crop,               \* [x, y, w, h]
    dragMode,           \* one of Modes, or "none"
    dragStartX, dragStartY, dragStartCrop

cropVars == <<rotation, crop, dragMode, dragStartX, dragStartY, dragStartCrop>>
dragVars == <<dragMode, dragStartX, dragStartY, dragStartCrop>>

Least(a, b) == IF a <= b THEN a ELSE b
Most(a, b) == IF a >= b THEN a ELSE b
clamp01(value) == Least(Frame, Most(0, value))

WholeFrame == [x |-> 0, y |-> 0, w |-> Frame, h |-> Frame]

rotate ==
    /\ \/ rotation' = (rotation + 3) % 4
       \/ rotation' = (rotation + 1) % 4
    /\ crop' = WholeFrame
    /\ UNCHANGED dragVars

applyAspect(s) ==
    /\ crop' = [x |-> (Frame - s.w) \div 2, y |-> (Frame - s.h) \div 2, w |-> s.w, h |-> s.h]
    /\ UNCHANGED <<rotation, dragVars>>

resetCrop == crop' = WholeFrame /\ UNCHANGED <<rotation, dragVars>>

startDrag(mode, px, py) ==
    /\ dragMode = "none" /\ dragMode' = mode
    /\ dragStartX' = px /\ dragStartY' = py /\ dragStartCrop' = crop
    /\ UNCHANGED <<rotation, crop>>

\* One axis of a drag, given where the side starts (from), how long it is (size) and how
\* far the pointer has come (by): the new place and size.
Moved(from, size, by) == [at |-> clamp01(Least(Frame - size, Most(0, from + by))), size |-> size]

NearDragged(from, size, by) ==
    LET at == clamp01(Least(from + size - MinSide, from + by))
    IN  [at |-> at, size |-> from + size - at]

\* Mutant: the far side is held to the frame's size instead of to what is left of it.
FarUnbounded(from, size, by) == [at |-> from, size |-> clamp01(Most(MinSide, size + by))]

FarDragged(from, size, by) ==
    [at |-> from, size |-> clamp01(Most(MinSide, Least(Frame - from, size + by)))]

Kept(from, size) == [at |-> from, size |-> size]

Dragged(near, far, from, size, by) ==
    IF dragMode = "move" THEN Moved(from, size, by)
    ELSE IF dragMode \in near THEN NearDragged(from, size, by)
    ELSE IF dragMode \in far THEN FarDragged(from, size, by)
    ELSE Kept(from, size)

onDragMove(px, py) ==
    /\ dragMode # "none"
    /\ LET h == Dragged(West, East, dragStartCrop.x, dragStartCrop.w, px - dragStartX)
           v == Dragged(North, South, dragStartCrop.y, dragStartCrop.h, py - dragStartY)
       IN  crop' = [x |-> h.at, y |-> v.at, w |-> h.size, h |-> v.size]
    /\ UNCHANGED <<rotation, dragVars>>

endDrag ==
    /\ dragMode # "none" /\ dragMode' = "none"
    /\ UNCHANGED <<rotation, crop, dragStartX, dragStartY, dragStartCrop>>

CropInit ==
    /\ rotation = 0 /\ crop = WholeFrame
    /\ dragMode = "none" /\ dragStartX = 0 /\ dragStartY = 0 /\ dragStartCrop = WholeFrame

CropNext ==
    \/ rotate \/ resetCrop \/ endDrag
    \/ \E s \in Shapes : applyAspect(s)
    \/ \E mode \in Modes, px, py \in Point : startDrag(mode, px, py)
    \/ \E px, py \in Point : onDragMove(px, py)

CropSpec == CropInit /\ [][CropNext]_cropVars

-----------------------------------------------------------------------------
Fits(at, size) == at \in 0 .. Frame /\ size \in MinSide .. Frame /\ at + size <= Frame
InFrame(c) == Fits(c.x, c.w) /\ Fits(c.y, c.h)

(* The rectangle that save exports never leaves the photo and never shrinks to      *)
(* nothing: it stays inside the frame, at least MinSide wide and high, wherever the *)
(* pointer goes, and when the photo is turned or reshaped in the middle of a drag.  *)
CropInFrame == InFrame(crop)
=============================================================================
