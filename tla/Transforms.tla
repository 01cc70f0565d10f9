----------------------------- MODULE Transforms -----------------------------
(***************************************************************************)
(* The class Transform (src/src/model), which holds how a device lies in a *)
(* scene, or a scene in another one: a translation and a rotation matrix.  *)
(*                                                                         *)
(* Angles are counted in quarter turns, so that sines and cosines are      *)
(* integers and everything is exact.  The three coordinates of a           *)
(* translation are treated alike and never meet the rotation, so one       *)
(* number stands for them.                                                 *)
(***************************************************************************)
EXTENDS Integers

Quarters == 0..3                   \* angles, and bound of their grain
Axes == 1..3
Angles == Quarters \X Quarters \X Quarters

Sin(q) == CASE q = 1 -> 1 [] q = 3 -> -1 [] OTHER -> 0
Cos(q) == Sin((q + 1) % 4)
Negative(q) == (4 - q) % 4

\* atan2 of the C library, which is 0 at the origin.
Atan2(y, x) == IF x = 0 /\ y = 0 THEN 0
               ELSE CHOOSE q \in Quarters : y = Sin(q) /\ x = Cos(q)

\* Matrices by row and column; the code writes column before row.
Matrices == [Axes -> [Axes -> -1..1]]
Matrix(Entry(_, _)) == [i \in Axes |-> [j \in Axes |-> Entry(i, j)]]
Unit == Matrix(LAMBDA i, j : IF i = j THEN 1 ELSE 0)
Times(a, b) ==
  Matrix(LAMBDA i, j : a[i][1] * b[1][j] + a[i][2] * b[2][j] + a[i][3] * b[3][j])

\* glm::inverse, of a rotation.
Inverse(m) == Matrix(LAMBDA i, j : m[j][i])

\* glm::eulerAngleYXZ with one angle that is not zero.
Turn(axis, q) ==
  LET next == (axis % 3) + 1
      last == (next % 3) + 1
  IN Matrix(LAMBDA i, j :
       CASE i = axis /\ j = axis -> 1
         [] i # axis /\ i = j -> Cos(q)
         [] i = next /\ j = last -> -Sin(q)
         [] i = last /\ j = next -> Sin(q)
         [] OTHER -> 0)

-----------------------------------------------------------------------------
(* A transform in memory, and what each method makes of it. *)

Identity == [tran |-> 0, mat |-> Unit]

Rotate(t, axis, q) == [t EXCEPT !.mat = Times(@, Turn(axis, q))]

Invert(t) == [tran |-> -t.tran, mat |-> Inverse(t.mat)]

Add(t, u) ==
  [tran |-> t.tran + u.tran, mat |-> Times(u.mat, t.mat)]

\* update_vectors, by glm::extractEulerAngleXYZ.  If the second angle is a
\* right one the first and the third turn about the same axis: the first
\* comes out as 0 and the third as the rest.
Euler(m) ==
  LET t1 == Atan2(m[2][3], m[3][3])
      c2 == m[1][1] * m[1][1] + m[1][2] * m[1][2]
      t2 == Atan2(-m[1][3], c2)
      t3 == Atan2(Sin(t1) * m[3][1] - Cos(t1) * m[2][1],
                  Cos(t1) * m[2][2] - Sin(t1) * m[3][2])
  IN <<Negative(t1), Negative(t2), Negative(t3)>>

-----------------------------------------------------------------------------
(* In messages and in the database a transform is six numbers. *)

\* The parameters loc_x to rot_z of a query that writes a transform.
Saved(t) == [tran |-> t.tran, rot |-> Euler(t.mat)]

\* set_translation and set_rotation, coordinate by coordinate, from a message
\* or from the row of a query.
Loaded(s) ==
  [Rotate(Rotate(Rotate(Identity, 1, s.rot[1]), 2, s.rot[2]), 3, s.rot[3])
     EXCEPT !.tran = s.tran]

\* process_UDUD_transformation: from a scene where the device lies as in b to
\* one where it lies as in a.
Relative(b, a) == Add(Invert(Add(Identity, b)), a)

\* What is stored reads back as the same transform, whatever the angles:
\* update_vectors undoes rotate(0), rotate(1), rotate(2) up to a choice of
\* angles for one rotation.  And adding what leads from b to a to b gives a,
\* for rotations that do not commute too, so that links can be followed.
TransformAlgebra ==
  \A a, b \in {Loaded([tran |-> r[1], rot |-> r]) : r \in Angles} :
    Loaded(Saved(a)) = a /\ Add(b, Relative(b, a)) = a
=============================================================================
