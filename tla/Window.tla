------------------------------- MODULE Window -------------------------------
(***************************************************************************)
(* maintainObjectsInWindow of TriggerColliderSample and CollisionSample,   *)
(* for one object, and the motion World::Update gives it between two       *)
(* calls.                                                                  *)
(*                                                                         *)
(* The window's height is negative: PixelsToMeters turns the Y axis round. *)
(* Every correction is made from the position and the velocity read before *)
(* the first, so of those that apply the last undoes the others.  Lengths  *)
(* are integers in some unit.                                              *)
(***************************************************************************)
EXTENDS Integers, Sequences

CONSTANTS
  Width, Height,   \* windowSizeInMeters
  Shapes,          \* what the object may be, as the extents the code tests:
                   \* one pair of half sizes (circle, rectangle), or the vertices
  Margin,          \* how far inside the window objects are made
  Speeds,          \* the values a velocity's components may have
  Steps,           \* the time a frame may take
  MaxSpeed,        \* bound on the speeds
  MaxStep          \* bound on the time of a frame

\* The margin is 1 metre and objects reach 0.35 from their centres; the window is 8.8
\* by 6.8, and in a frame an object moves some 0.03.
ASSUME WindowAssumption ==
  /\ Width \in Nat /\ Height \in Int /\ Margin \in Nat
  /\ MaxSpeed \in Nat /\ MaxStep \in Nat
  /\ Speeds \subseteq -MaxSpeed .. MaxSpeed /\ Steps \subseteq 1 .. MaxStep
  /\ \A v \in Speeds : -v \in Speeds
  /\ \A s \in Shapes : /\ s \in Seq([X : Int, Y : Int]) /\ s # <<>>
                       /\ \A k \in 1 .. Len(s) : \A n \in {s[k].X, s[k].Y} :
                            -Margin < n /\ n < Margin
  /\ \A length \in {Width, -Height} : 2 * Margin + MaxSpeed * MaxStep <= length

VARIABLES shape, position, velocity

windowVars == <<shape, position, velocity>>

Vec(x, y) == [X |-> x, Y |-> y]

Correction(applies, p, v) == [applies |-> applies, position |-> p, velocity |-> v]

\* Mutants of Corrections: the Y axis of the window is not turned round; at the
\* left border the velocity is kept.
CorrectionsUnturned(p, v, d) ==
  << Correction(p.X + d.X >= Width,   Vec(Width - d.X, p.Y),   Vec(-v.X, v.Y)),
     Correction(p.X - d.X <= 0,       Vec(d.X, p.Y),           Vec(-v.X, v.Y)),
     Correction(p.Y + d.Y >= -Height, Vec(p.X, -Height - d.Y), Vec(v.X, -v.Y)),
     Correction(p.Y - d.Y <= 0,       Vec(p.X, d.Y),           Vec(v.X, -v.Y)) >>

CorrectionsSticking(p, v, d) ==
  << Correction(p.X + d.X >= Width,  Vec(Width - d.X, p.Y),  Vec(-v.X, v.Y)),
     Correction(p.X - d.X <= 0,      Vec(d.X, p.Y),          v),
     Correction(p.Y - d.Y <= Height, Vec(p.X, Height + d.Y), Vec(v.X, -v.Y)),
     Correction(p.Y + d.Y >= 0,      Vec(p.X, -d.Y),         Vec(v.X, -v.Y)) >>

\* The four tests for one extent d, in the order of the code.
Corrections(p, v, d) ==
  << Correction(p.X + d.X >= Width,  Vec(Width - d.X, p.Y),  Vec(-v.X, v.Y)),
     Correction(p.X - d.X <= 0,      Vec(d.X, p.Y),          Vec(-v.X, v.Y)),
     Correction(p.Y - d.Y <= Height, Vec(p.X, Height + d.Y), Vec(v.X, -v.Y)),
     Correction(p.Y + d.Y >= 0,      Vec(p.X, -d.Y),         Vec(v.X, -v.Y)) >>

Tests == (1 .. Len(shape)) \X (1 .. 4)

CorrectionAt(t) == Corrections(position, velocity, shape[t[1]])[t[2]]

Later(s, t) == s[1] > t[1] \/ (s[1] = t[1] /\ s[2] > t[2])

\* maintainObjectsInWindow
Maintained ==
  LET applying == {t \in Tests : CorrectionAt(t).applies} IN
  IF applying = {} THEN Correction(FALSE, position, velocity)
  ELSE CorrectionAt(CHOOSE t \in applying : \A s \in applying : ~Later(s, t))

WindowInit ==
  /\ shape \in Shapes
  /\ position \in [X : Margin .. Width - Margin, Y : Height + Margin .. -Margin]
  /\ velocity \in [X : Speeds, Y : Speeds]

\* A frame that takes the time dt: onUpdate, then World::Update.
WindowFrame(dt) ==
  LET kept == Maintained IN
  /\ velocity' = kept.velocity
  /\ position' = Vec(kept.position.X + kept.velocity.X * dt,
                     kept.position.Y + kept.velocity.Y * dt)
  /\ UNCHANGED shape

WindowNext == \E dt \in Steps : WindowFrame(dt)

WindowSpec == WindowInit /\ [][WindowNext]_windowVars

FairWindowSpec == WindowSpec /\ WF_windowVars(WindowNext)

-----------------------------------------------------------------------------
(* Properties.                                                             *)

Greatest(S) == CHOOSE x \in S : \A y \in S : x >= y

Extent(n) == Greatest({IF n = 1 THEN shape[k].X ELSE shape[k].Y : k \in 1 .. Len(shape)})

\* How far an object may be beyond a border: the way of two frames.  In a corner
\* the two axes are corrected in different frames.
Reach == 2 * (MaxSpeed * MaxStep)

\* An object is kept in the window, whichever borders and corners it comes to.
StaysNear ==
  /\ position.X \in Extent(1) - Reach .. Width - Extent(1) + Reach
  /\ position.Y \in Height + Extent(2) - Reach .. -Extent(2) + Reach

\* An object that moves along both axes always comes back: it is whole inside
\* the window again and again, whichever border or corner it crosses.
Inside ==
  /\ position.X \in Extent(1) .. Width - Extent(1)
  /\ position.Y \in Height + Extent(2) .. -Extent(2)

ComesBack == []<>Inside
=============================================================================
