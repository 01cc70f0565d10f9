-------------------------- MODULE TransformProofs --------------------------
(***************************************************************************)
(* Proofs about Transforms: that what is stored of a transform reads back  *)
(* as the same transform, and that adding to one transform what leads from *)
(* it to another gives the other.                                          *)
(*                                                                         *)
(* Both hold of rotations only, and in quarter turns a rotation permutes   *)
(* the axes and reverses some of them.  It is so described here: by the    *)
(* axis that each row picks and by its sign, such that an even permutation *)
(* goes with an even number of reversals and an odd one with an odd.       *)
(***************************************************************************)
EXTENDS Transforms, TLAPS

Perms == {k \in [Axes -> Axes] : k[1] # k[2] /\ k[1] # k[3] /\ k[2] # k[3]}
Signs == [Axes -> {-1, 1}]

\* The sign of a permutation: the even ones turn the axes round.
Parity(k) == IF k[2] = (k[1] % 3) + 1 THEN 1 ELSE -1
Product(s) == s[1] * s[2] * s[3]

\* Row i is s[i] at column k[i].
Signed(k, s) ==
  [i \in Axes |-> [j \in Axes |-> IF j = k[i] THEN s[i] ELSE 0]]

Rotations ==
  {m \in Matrices : \E k \in Perms, s \in Signs :
     Product(s) = Parity(k) /\ m = Signed(k, s)}

-----------------------------------------------------------------------------
(* Matrices by their entries. *)

LEMMA SameEntries ==
  ASSUME NEW a \in Matrices, NEW b \in Matrices,
         \A i, j \in Axes : a[i][j] = b[i][j]
  PROVE  a = b
BY DEF Matrices

LEMMA SignedIsMatrix ==
  ASSUME NEW k \in Perms, NEW s \in Signs
  PROVE  Signed(k, s) \in Matrices
BY DEF Signed, Matrices, Signs

LEMMA TimesEntries ==
  ASSUME NEW a, NEW b
  PROVE  \A i, j \in Axes :
           Times(a, b)[i][j] =
             a[i][1] * b[1][j] + a[i][2] * b[2][j] + a[i][3] * b[3][j]
BY DEF Times, Matrix

LEMMA InverseEntries ==
  ASSUME NEW m
  PROVE  \A i, j \in Axes : Inverse(m)[i][j] = m[j][i]
BY DEF Inverse, Matrix

-----------------------------------------------------------------------------
(* The rotations are a group. *)

LEMMA TimesSigned ==
  ASSUME NEW k \in Perms, NEW s \in Signs, NEW l \in Perms, NEW t \in Signs
  PROVE  Times(Signed(k, s), Signed(l, t)) =
           Signed([i \in Axes |-> l[k[i]]], [i \in Axes |-> s[i] * t[k[i]]])
<1> DEFINE kl == [i \in Axes |-> l[k[i]]]
           st == [i \in Axes |-> s[i] * t[k[i]]]
<1>1. \A i, j \in Axes :
        Times(Signed(k, s), Signed(l, t))[i][j] =
          IF j = l[k[i]] THEN s[i] * t[k[i]] ELSE 0
  <2> TAKE i, j \in Axes
  <2>1. k[i] \in {1, 2, 3} /\ s[i] \in {-1, 1}
    BY DEF Perms, Signs, Axes
  <2>2. \A x \in Axes : t[x] \in {-1, 1}
    BY DEF Signs
  <2>3. \A x \in Axes :
          /\ Signed(k, s)[i][x] = IF x = k[i] THEN s[i] ELSE 0
          /\ Signed(l, t)[x][j] = IF j = l[x] THEN t[x] ELSE 0
    BY DEF Signed
  <2>4. CASE k[i] = 1
    BY <2>1, <2>2, <2>3, <2>4, TimesEntries DEF Axes
  <2>5. CASE k[i] = 2
    BY <2>1, <2>2, <2>3, <2>5, TimesEntries DEF Axes
  <2>6. CASE k[i] = 3
    BY <2>1, <2>2, <2>3, <2>6, TimesEntries DEF Axes
  <2> QED BY <2>1, <2>4, <2>5, <2>6
<1>2. Times(Signed(k, s), Signed(l, t)) =
        [i \in Axes |-> [j \in Axes |->
           IF j = l[k[i]] THEN s[i] * t[k[i]] ELSE 0]]
  BY <1>1 DEF Times, Matrix
<1>3. Signed(kl, st) =
        [i \in Axes |-> [j \in Axes |->
           IF j = l[k[i]] THEN s[i] * t[k[i]] ELSE 0]]
  BY DEF Signed
<1> QED BY <1>2, <1>3

LEMMA Composed ==
  ASSUME NEW k \in Perms, NEW s \in Signs, NEW l \in Perms, NEW t \in Signs,
         NEW kl, kl = [i \in Axes |-> l[k[i]]],
         NEW st, st = [i \in Axes |-> s[i] * t[k[i]]]
  PROVE  /\ kl \in Perms /\ Parity(kl) = Parity(k) * Parity(l)
         /\ st \in Signs /\ Product(st) = Product(s) * Product(t)
<1>1. kl \in Perms
  BY DEF Perms, Axes
<1>2. Parity(kl) = Parity(k) * Parity(l)
  BY DEF Perms, Axes, Parity
<1>3. st \in Signs
  BY DEF Signs, Perms
<1>4. Product(st) = Product(s) * Product(t)
  BY DEF Signs, Perms, Axes, Product
<1> QED BY <1>1, <1>2, <1>3, <1>4

LEMMA TimesRotation ==
  ASSUME NEW a \in Rotations, NEW b \in Rotations
  PROVE  Times(a, b) \in Rotations
<1>1. PICK k \in Perms : \E s \in Signs :
        Product(s) = Parity(k) /\ a = Signed(k, s)
  BY DEF Rotations
<1>2. PICK s \in Signs : Product(s) = Parity(k) /\ a = Signed(k, s)
  BY <1>1
<1>3. PICK l \in Perms : \E t \in Signs :
        Product(t) = Parity(l) /\ b = Signed(l, t)
  BY DEF Rotations
<1>4. PICK t \in Signs : Product(t) = Parity(l) /\ b = Signed(l, t)
  BY <1>3
<1> DEFINE kl == [i \in Axes |-> l[k[i]]]
           st == [i \in Axes |-> s[i] * t[k[i]]]
<1>5. Times(a, b) = Signed(kl, st)
  BY <1>2, <1>4, TimesSigned
<1>6. /\ kl \in Perms /\ Parity(kl) = Parity(k) * Parity(l)
      /\ st \in Signs /\ Product(st) = Product(s) * Product(t)
  BY Composed
<1> HIDE DEF kl, st
<1>7. Product(st) = Parity(kl)
  BY <1>2, <1>4, <1>6
<1>8. Times(a, b) \in Matrices
  BY <1>5, <1>6, SignedIsMatrix
<1> QED BY <1>5, <1>6, <1>7, <1>8 DEF Rotations

LEMMA InverseRotation ==
  ASSUME NEW m \in Rotations
  PROVE  Inverse(m) \in Rotations /\ Times(Inverse(m), m) = Unit
<1>1. PICK k \in Perms : \E s \in Signs :
        Product(s) = Parity(k) /\ m = Signed(k, s)
  BY DEF Rotations
<1>2. PICK s \in Signs : Product(s) = Parity(k) /\ m = Signed(k, s)
  BY <1>1
<1> DEFINE back == [j \in Axes |-> IF k[1] = j THEN 1 ELSE IF k[2] = j THEN 2 ELSE 3]
           sign == [j \in Axes |-> s[back[j]]]
<1>3. back \in Perms /\ Parity(back) = Parity(k)
  BY DEF Perms, Parity, Axes
<1>4. sign \in Signs /\ Product(sign) = Product(s)
  BY <1>3 DEF Perms, Signs, Product, Axes
<1>5. \A i, j \in Axes : (i = k[j] <=> j = back[i]) /\ back[k[j]] = j
  BY DEF Perms, Axes
<1>6. \A i, j \in Axes : m[i][j] = IF j = k[i] THEN s[i] ELSE 0
  BY <1>2 DEF Signed
<1>7. \A i, j \in Axes : Signed(back, sign)[i][j] = IF j = back[i] THEN s[back[i]] ELSE 0
  BY DEF Signed
<1> HIDE DEF back, sign
<1>8. Signed(back, sign) \in Matrices
  BY <1>3, <1>4, SignedIsMatrix
<1>9. m \in Matrices /\ Inverse(m) \in Matrices
  BY DEF Rotations, Matrices, Inverse, Matrix
<1>10. \A i, j \in Axes : Inverse(m)[i][j] = Signed(back, sign)[i][j]
  <2> TAKE i, j \in Axes
  <2>1. Inverse(m)[i][j] = IF i = k[j] THEN s[j] ELSE 0
    BY <1>6, InverseEntries
  <2> QED BY <2>1, <1>5, <1>7
<1>11. Inverse(m) = Signed(back, sign)
  BY <1>8, <1>9, <1>10, SameEntries
<1>12. Inverse(m) \in Rotations
  BY <1>2, <1>3, <1>4, <1>9, <1>11 DEF Rotations
<1>13. \A i, j \in Axes : Times(Inverse(m), m)[i][j] = IF i = j THEN 1 ELSE 0
  <2> TAKE i, j \in Axes
  <2>1. Times(Inverse(m), m)[i][j] =
          m[1][i] * m[1][j] + m[2][i] * m[2][j] + m[3][i] * m[3][j]
    BY TimesEntries, InverseEntries DEF Axes
  <2>2. \A x \in Axes : s[x] * s[x] = 1 /\ s[x] \in Int /\ k[x] \in Axes
    BY DEF Signs, Perms
  <2>3. k[1] # k[2] /\ k[1] # k[3] /\ k[2] # k[3]
    BY DEF Perms
  <2>4. Axes = {k[1], k[2], k[3]}
    BY <2>2, <2>3 DEF Axes
  <2>5. \A x, y \in Axes : m[x][y] = IF y = k[x] THEN s[x] ELSE 0
    BY <1>6
  <2>6. \A x \in Axes : m[x][i] * m[x][j] = IF i = k[x] /\ j = k[x] THEN 1 ELSE 0
    BY <2>2, <2>5
  <2>7. Times(Inverse(m), m)[i][j] =
          (IF i = k[1] /\ j = k[1] THEN 1 ELSE 0)
          + (IF i = k[2] /\ j = k[2] THEN 1 ELSE 0)
          + (IF i = k[3] /\ j = k[3] THEN 1 ELSE 0)
    BY <2>1, <2>6 DEF Axes
  <2> QED BY <2>3, <2>4, <2>7
<1>14. Times(Inverse(m), m) = Unit
  <2>1. Unit = [i \in Axes |-> [j \in Axes |-> IF i = j THEN 1 ELSE 0]]
    BY DEF Unit, Matrix
  <2> QED BY <1>13, <2>1 DEF Times, Matrix
<1> QED BY <1>12, <1>14

LEMMA UnitRotation == Unit \in Rotations
<1> DEFINE k == [i \in Axes |-> i]
           s == [i \in Axes |-> 1]
<1>1. k \in Perms /\ s \in Signs /\ Product(s) = Parity(k)
  BY DEF Perms, Signs, Product, Parity, Axes
<1>2. Unit = Signed(k, s)
  BY DEF Unit, Matrix, Signed
<1>3. Unit \in Matrices
  BY DEF Unit, Matrix, Matrices
<1> QED BY <1>1, <1>2, <1>3 DEF Rotations

LEMMA SinCos ==
  /\ Sin(0) = 0 /\ Sin(1) = 1 /\ Sin(2) = 0 /\ Sin(3) = -1
  /\ Cos(0) = 1 /\ Cos(1) = 0 /\ Cos(2) = -1 /\ Cos(3) = 0
BY DEF Sin, Cos

LEMMA TurnEntries ==
  ASSUME NEW axis \in Axes, NEW q \in Quarters,
         NEW next, next = (axis % 3) + 1, NEW last, last = (next % 3) + 1
  PROVE  /\ axis \in Axes /\ next \in Axes /\ last \in Axes
         /\ axis # next /\ axis # last /\ next # last
         /\ \A i, j \in Axes : Turn(axis, q)[i][j] =
              IF i = j THEN IF i = axis THEN 1 ELSE Cos(q)
              ELSE IF i = next /\ j = last THEN -Sin(q)
              ELSE IF i = last /\ j = next THEN Sin(q)
              ELSE 0
<1>1. /\ axis \in Axes /\ next \in Axes /\ last \in Axes
      /\ axis # next /\ axis # last /\ next # last
  BY DEF Axes
<1> QED BY <1>1 DEF Turn, Matrix

LEMMA TurnRotation ==
  ASSUME NEW axis \in Axes, NEW q \in Quarters
  PROVE  Turn(axis, q) \in Rotations
<1>1. PICK next, last \in Axes :
        /\ axis # next /\ axis # last /\ next # last
        /\ next = (axis % 3) + 1 /\ last = (next % 3) + 1
        /\ \A i, j \in Axes : Turn(axis, q)[i][j] =
             IF i = j THEN IF i = axis THEN 1 ELSE Cos(q)
             ELSE IF i = next /\ j = last THEN -Sin(q)
             ELSE IF i = last /\ j = next THEN Sin(q)
             ELSE 0
  BY TurnEntries
<1>2. Axes = {axis, next, last}
  BY <1>1 DEF Axes
<1>3. Turn(axis, q) \in Matrices
  <2>1. Sin(q) \in {-1, 0, 1} /\ Cos(q) \in {-1, 0, 1}
    BY SinCos DEF Quarters
  <2> QED BY <1>1, <2>1 DEF Turn, Matrix, Matrices
<1>4. CASE q \in {0, 2}
  <2> DEFINE k == [i \in Axes |-> i]
             s == [i \in Axes |-> IF i = axis THEN 1 ELSE Cos(q)]
  <2>1. Sin(q) = 0 /\ Cos(q) \in {-1, 1}
    BY <1>4, SinCos
  <2>2. k \in Perms /\ Parity(k) = 1
    BY DEF Perms, Parity, Axes
  <2>3. s \in Signs
    BY <2>1 DEF Signs
  <2>4. s[1] * s[2] * s[3] = 1
    BY <2>1 DEF Axes
  <2>5. \A i, j \in Axes : Turn(axis, q)[i][j] = Signed(k, s)[i][j]
    BY <1>1, <2>1 DEF Signed
  <2> HIDE DEF k, s
  <2>6. Turn(axis, q) = Signed(k, s)
    BY <1>3, <2>2, <2>3, <2>5, SameEntries, SignedIsMatrix
  <2> QED BY <1>3, <2>2, <2>3, <2>4, <2>6 DEF Rotations, Product
<1>5. CASE q \in {1, 3}
  <2> DEFINE k == [i \in Axes |-> IF i = axis THEN i ELSE IF i = next THEN last ELSE next]
             s == [i \in Axes |-> IF i = axis THEN 1 ELSE IF i = next THEN -Sin(q) ELSE Sin(q)]
  <2>1. Cos(q) = 0 /\ Sin(q) \in {-1, 1}
    BY <1>5, SinCos
  <2>2. k[axis] = axis /\ k[next] = last /\ k[last] = next
    BY <1>1
  <2>3. s[axis] = 1 /\ s[next] = -Sin(q) /\ s[last] = Sin(q)
    BY <1>1
  <2>4. k \in Perms
    <3>1. k \in [Axes -> Axes]
      OBVIOUS
    <3>2. k[1] # k[2] /\ k[1] # k[3] /\ k[2] # k[3]
      BY <1>1, <2>2 DEF Axes
    <3> QED BY <3>1, <3>2 DEF Perms
  <2>5. s \in Signs
    BY <2>1 DEF Signs
  <2>6. \A i, j \in Axes : Signed(k, s)[i][j] = IF j = k[i] THEN s[i] ELSE 0
    BY DEF Signed
  <2> HIDE DEF k, s
  <2>7. Parity(k) = -1
    BY <1>1, <2>2 DEF Parity, Axes
  <2>8. Product(s) = -1
    BY <1>1, <2>1, <2>3 DEF Product, Axes
  <2>9. \A i, j \in {axis, next, last} : Turn(axis, q)[i][j] = Signed(k, s)[i][j]
    BY <1>1, <2>1, <2>2, <2>3, <2>6
  <2>10. Turn(axis, q) = Signed(k, s)
    BY <1>2, <1>3, <2>4, <2>5, <2>9, SameEntries, SignedIsMatrix
  <2> QED BY <1>3, <2>4, <2>5, <2>7, <2>8, <2>10 DEF Rotations
<1> QED BY <1>4, <1>5 DEF Quarters

LEMMA TimesAssociative ==
  ASSUME NEW a \in Matrices, NEW b \in Matrices, NEW c \in Matrices
  PROVE  Times(Times(a, b), c) = Times(a, Times(b, c))
<1>1. \A i, j \in Axes :
        Times(Times(a, b), c)[i][j] = Times(a, Times(b, c))[i][j]
  <2> TAKE i, j \in Axes
  <2>1. \A x \in Axes : a[i][x] \in Int /\ c[x][j] \in Int
    BY DEF Matrices
  <2>2. \A x, y \in Axes : b[x][y] \in Int
    BY DEF Matrices
  <2>3. Times(Times(a, b), c)[i][j] =
          (a[i][1] * b[1][1] + a[i][2] * b[2][1] + a[i][3] * b[3][1]) * c[1][j]
          + (a[i][1] * b[1][2] + a[i][2] * b[2][2] + a[i][3] * b[3][2]) * c[2][j]
          + (a[i][1] * b[1][3] + a[i][2] * b[2][3] + a[i][3] * b[3][3]) * c[3][j]
    BY TimesEntries DEF Axes
  <2>4. Times(a, Times(b, c))[i][j] =
          a[i][1] * (b[1][1] * c[1][j] + b[1][2] * c[2][j] + b[1][3] * c[3][j])
          + a[i][2] * (b[2][1] * c[1][j] + b[2][2] * c[2][j] + b[2][3] * c[3][j])
          + a[i][3] * (b[3][1] * c[1][j] + b[3][2] * c[2][j] + b[3][3] * c[3][j])
    BY TimesEntries DEF Axes
  <2> QED BY <2>1, <2>2, <2>3, <2>4 DEF Axes
<1> QED BY <1>1 DEF Times, Matrix

LEMMA TimesUnit ==
  ASSUME NEW a \in Matrices
  PROVE  Times(a, Unit) = a /\ Times(Unit, a) = a
<1>1. \A i, j \in Axes : Unit[i][j] = IF i = j THEN 1 ELSE 0
  BY DEF Unit, Matrix
<1>2. \A i, j \in Axes : a[i][j] \in Int
  BY DEF Matrices
<1>3. \A i, j \in Axes : Times(a, Unit)[i][j] = a[i][j]
  BY <1>1, <1>2, TimesEntries DEF Axes
<1>4. \A i, j \in Axes : Times(Unit, a)[i][j] = a[i][j]
  BY <1>1, <1>2, TimesEntries DEF Axes
<1>5. Times(a, Unit) = [i \in Axes |-> [j \in Axes |-> a[i][j]]]
  BY <1>3 DEF Times, Matrix
<1>6. Times(Unit, a) = [i \in Axes |-> [j \in Axes |-> a[i][j]]]
  BY <1>4 DEF Times, Matrix
<1> QED BY <1>5, <1>6 DEF Matrices

-----------------------------------------------------------------------------
(* Transforms. *)

\* Every translation and every rotation.  LoadedRotation shows that messages
\* and rows bring nothing else.
Rigid == [tran : Int, mat : Rotations]

\* process_UDUD_transformation leads from the one transform to the other, for
\* rotations that do not commute too.
THEOREM AddRelative ==
  ASSUME NEW a \in Rigid, NEW b \in Rigid
  PROVE  Relative(b, a) \in Rigid /\ Add(b, Relative(b, a)) = a
<1>1. a.mat \in Rotations /\ b.mat \in Rotations /\ a.tran \in Int /\ b.tran \in Int
  BY DEF Rigid
<1>2. a.mat \in Matrices /\ b.mat \in Matrices
  BY <1>1 DEF Rotations
<1>3. /\ Relative(b, a).tran = a.tran - b.tran
      /\ Relative(b, a).mat = Times(a.mat, Inverse(b.mat))
      /\ Relative(b, a) = [tran |-> Relative(b, a).tran, mat |-> Relative(b, a).mat]
  BY <1>1, <1>2, TimesUnit DEF Relative, Add, Invert, Identity
<1>4. Inverse(b.mat) \in Rotations /\ Times(Inverse(b.mat), b.mat) = Unit
  BY <1>1, InverseRotation
<1>5. Relative(b, a) \in Rigid
  <2>1. Times(a.mat, Inverse(b.mat)) \in Rotations
    BY <1>1, <1>4, TimesRotation
  <2> QED BY <1>1, <1>3, <2>1 DEF Rigid
<1>6. Times(Times(a.mat, Inverse(b.mat)), b.mat) = a.mat
  <2>1. Inverse(b.mat) \in Matrices
    BY <1>4 DEF Rotations
  <2> QED BY <1>2, <1>4, <2>1, TimesAssociative, TimesUnit
<1>7. Add(b, Relative(b, a)) = [tran |-> a.tran, mat |-> a.mat]
  BY <1>1, <1>3, <1>6 DEF Add
<1> QED BY <1>5, <1>7 DEF Rigid

LEMMA LoadedParts ==
  ASSUME NEW s
  PROVE  Loaded(s) =
           [tran |-> s.tran,
            mat |-> Times(Times(Times(Unit, Turn(1, s.rot[1])), Turn(2, s.rot[2])),
                          Turn(3, s.rot[3]))]
<1>1. \A n, m, axis, q : Rotate([tran |-> n, mat |-> m], axis, q) =
                           [tran |-> n, mat |-> Times(m, Turn(axis, q))]
  BY DEF Rotate
<1> DEFINE m1 == Times(Unit, Turn(1, s.rot[1]))
           m2 == Times(m1, Turn(2, s.rot[2]))
           m3 == Times(m2, Turn(3, s.rot[3]))
<1>2. Rotate(Identity, 1, s.rot[1]) = [tran |-> 0, mat |-> m1]
  BY <1>1 DEF Identity
<1>3. Rotate(Rotate(Identity, 1, s.rot[1]), 2, s.rot[2]) = [tran |-> 0, mat |-> m2]
  BY <1>1, <1>2
<1>4. Rotate(Rotate(Rotate(Identity, 1, s.rot[1]), 2, s.rot[2]), 3, s.rot[3]) =
        [tran |-> 0, mat |-> m3]
  BY <1>1, <1>3
<1> HIDE DEF m3
<1>5. [[tran |-> 0, mat |-> m3] EXCEPT !.tran = s.tran] = [tran |-> s.tran, mat |-> m3]
  OBVIOUS
<1>6. Loaded(s) = [tran |-> s.tran, mat |-> m3]
  BY <1>4, <1>5 DEF Loaded
<1> QED BY <1>6 DEF m3

LEMMA LoadedRotation ==
  ASSUME NEW s \in [tran : Int, rot : Angles]
  PROVE  Loaded(s) \in Rigid
<1>1. s.rot[1] \in Quarters /\ s.rot[2] \in Quarters /\ s.rot[3] \in Quarters
  BY DEF Angles
<1>2. Turn(1, s.rot[1]) \in Rotations /\ Turn(2, s.rot[2]) \in Rotations
      /\ Turn(3, s.rot[3]) \in Rotations
  BY <1>1, TurnRotation DEF Axes
<1> QED BY <1>2, UnitRotation, TimesRotation, LoadedParts DEF Rigid

\* The matrix of three angles: the turns about the axes, the first one first.
LEMMA TurnsEntries ==
  ASSUME NEW r \in Angles, NEW m,
         m = Times(Times(Times(Unit, Turn(1, r[1])), Turn(2, r[2])), Turn(3, r[3])),
         NEW S1, S1 = Sin(r[1]), NEW S2, S2 = Sin(r[2]), NEW S3, S3 = Sin(r[3]),
         NEW C1, C1 = Cos(r[1]), NEW C2, C2 = Cos(r[2]), NEW C3, C3 = Cos(r[3])
  PROVE  /\ m[1][1] = C2 * C3
         /\ m[1][2] = -(C2 * S3)
         /\ m[1][3] = S2
         /\ m[2][1] = S1 * S2 * C3 + C1 * S3
         /\ m[2][2] = C1 * C3 - S1 * S2 * S3
         /\ m[2][3] = -(S1 * C2)
         /\ m[3][1] = S1 * S3 - C1 * S2 * C3
         /\ m[3][2] = C1 * S2 * S3 + S1 * C3
         /\ m[3][3] = C1 * C2
<1>1. r[1] \in Quarters /\ r[2] \in Quarters /\ r[3] \in Quarters
  BY DEF Angles
<1>2. \A q \in Quarters : Sin(q) \in Int /\ Cos(q) \in Int
  BY SinCos DEF Quarters
<1> DEFINE t1 == Turn(1, r[1])
           t2 == Turn(2, r[2])
           t3 == Turn(3, r[3])
           t12 == Times(t1, t2)
<1>3. /\ t1[1][1] = 1 /\ t1[1][2] = 0 /\ t1[1][3] = 0
      /\ t1[2][1] = 0 /\ t1[2][2] = C1 /\ t1[2][3] = -S1
      /\ t1[3][1] = 0 /\ t1[3][2] = S1 /\ t1[3][3] = C1
  BY <1>1, TurnEntries DEF Axes
<1>4. /\ t2[1][1] = C2 /\ t2[1][2] = 0 /\ t2[1][3] = S2
      /\ t2[2][1] = 0 /\ t2[2][2] = 1 /\ t2[2][3] = 0
      /\ t2[3][1] = -S2 /\ t2[3][2] = 0 /\ t2[3][3] = C2
  BY <1>1, TurnEntries DEF Axes
<1>5. /\ t3[1][1] = C3 /\ t3[1][2] = -S3 /\ t3[1][3] = 0
      /\ t3[2][1] = S3 /\ t3[2][2] = C3 /\ t3[2][3] = 0
      /\ t3[3][1] = 0 /\ t3[3][2] = 0 /\ t3[3][3] = 1
  BY <1>1, TurnEntries DEF Axes
<1>6. m = Times(t12, t3)
  <2>1. Turn(1, r[1]) \in Matrices
    BY <1>1, TurnRotation DEF Axes, Rotations
  <2> QED BY <2>1, TimesUnit
<1> HIDE DEF t1, t2, t3, t12
<1>7. /\ S1 \in Int /\ S2 \in Int /\ S3 \in Int
      /\ C1 \in Int /\ C2 \in Int /\ C3 \in Int
  BY <1>1, <1>2
<1>8. \A i, j \in Axes :
        /\ t12[i][j] = t1[i][1] * t2[1][j] + t1[i][2] * t2[2][j] + t1[i][3] * t2[3][j]
        /\ m[i][j] = t12[i][1] * t3[1][j] + t12[i][2] * t3[2][j] + t12[i][3] * t3[3][j]
  BY <1>6, TimesEntries DEF t12
<1>9. /\ t12[1][1] = C2 /\ t12[1][2] = 0 /\ t12[1][3] = S2
      /\ t12[2][1] = S1 * S2 /\ t12[2][2] = C1 /\ t12[2][3] = -(S1 * C2)
      /\ t12[3][1] = -(C1 * S2) /\ t12[3][2] = S1 /\ t12[3][3] = C1 * C2
  BY <1>3, <1>4, <1>7, <1>8 DEF Axes
<1> QED BY <1>5, <1>7, <1>8, <1>9 DEF Axes

\* What update_vectors takes the arc tangent of is a direction.
Direction(y, x) == <<y, x>> \in {<<0, 1>>, <<1, 0>>, <<0, -1>>, <<-1, 0>>}

LEMMA Atan2Direction ==
  ASSUME NEW y, NEW x, Direction(y, x)
  PROVE  /\ Atan2(y, x) \in Quarters
         /\ Sin(Atan2(y, x)) = y /\ Cos(Atan2(y, x)) = x
<1>1. ~(x = 0 /\ y = 0)
  BY DEF Direction
<1>2. \E q \in Quarters : y = Sin(q) /\ x = Cos(q)
  BY SinCos DEF Direction, Quarters
<1> QED BY <1>1, <1>2 DEF Atan2

LEMMA NegativeAngle ==
  ASSUME NEW q \in Quarters
  PROVE  /\ Negative(q) \in Quarters
         /\ Sin(Negative(q)) = -Sin(q) /\ Cos(Negative(q)) = Cos(q)
BY SinCos DEF Negative, Quarters

\* The entries of a rotation: of the first row either the third entry is not
\* zero, and then it stands alone in row and column, or it is zero, and the
\* last column is a direction.  The third row follows from the other two.
LEMMA RotationEntries ==
  ASSUME NEW m \in Rotations
  PROVE  /\ \A i, j \in Axes : m[i][j] \in {-1, 0, 1}
         /\ \/ /\ m[1][3] \in {-1, 1} /\ m[1][1] = 0 /\ m[1][2] = 0
               /\ m[2][3] = 0 /\ m[3][3] = 0
               /\ Direction(-m[2][1], m[2][2])
               /\ m[3][1] = -(m[1][3] * m[2][2]) /\ m[3][2] = m[1][3] * m[2][1]
            \/ /\ m[1][3] = 0
               /\ Direction(m[2][3], m[3][3])
               /\ Direction(m[1][2], m[1][1])
               /\ m[2][1] = -(m[3][3] * m[1][2]) /\ m[2][2] = m[3][3] * m[1][1]
               /\ m[3][1] = m[2][3] * m[1][2] /\ m[3][2] = -(m[2][3] * m[1][1])
<1>1. PICK k \in Perms : \E s \in Signs :
        Product(s) = Parity(k) /\ m = Signed(k, s)
  BY DEF Rotations
<1>2. PICK s \in Signs : Product(s) = Parity(k) /\ m = Signed(k, s)
  BY <1>1
<1>3. \A i, j \in Axes : m[i][j] = IF j = k[i] THEN s[i] ELSE 0
  BY <1>2 DEF Signed
<1>4. /\ s[1] \in {-1, 1} /\ s[2] \in {-1, 1} /\ s[3] \in {-1, 1}
      /\ k[1] \in {1, 2, 3} /\ k[2] \in {1, 2, 3} /\ k[3] \in {1, 2, 3}
      /\ k[1] # k[2] /\ k[1] # k[3] /\ k[2] # k[3]
  BY DEF Signs, Perms, Axes
<1>5. s[1] * s[2] * s[3] = IF k[2] = (k[1] % 3) + 1 THEN 1 ELSE -1
  BY <1>2 DEF Product, Parity
<1>6. \A i, j \in Axes : m[i][j] \in {-1, 0, 1}
  BY <1>3 DEF Signs
<1>7. CASE k[1] = 1
  BY <1>3, <1>4, <1>5, <1>6, <1>7 DEF Axes, Direction
<1>8. CASE k[1] = 2
  BY <1>3, <1>4, <1>5, <1>6, <1>8 DEF Axes, Direction
<1>9. CASE k[1] = 3
  BY <1>3, <1>4, <1>5, <1>6, <1>9 DEF Axes, Direction
<1> QED BY <1>4, <1>7, <1>8, <1>9

\* The sines and cosines of the angles that update_vectors extracts, before
\* it negates them.
LEMMA EulerAngles ==
  ASSUME NEW m \in Rotations,
         NEW S1, S1 = (IF m[1][3] = 0 THEN m[2][3] ELSE 0),
         NEW C1, C1 = (IF m[1][3] = 0 THEN m[3][3] ELSE 1),
         NEW S2, S2 = -m[1][3],
         NEW C2, C2 = (IF m[1][3] = 0 THEN 1 ELSE 0),
         NEW S3, S3 = S1 * m[3][1] - C1 * m[2][1],
         NEW C3, C3 = C1 * m[2][2] - S1 * m[3][2]
  PROVE  /\ Euler(m) \in Angles
         /\ Sin(Euler(m)[1]) = -S1 /\ Cos(Euler(m)[1]) = C1
         /\ Sin(Euler(m)[2]) = -S2 /\ Cos(Euler(m)[2]) = C2
         /\ Sin(Euler(m)[3]) = -S3 /\ Cos(Euler(m)[3]) = C3
<1> DEFINE t1 == Atan2(m[2][3], m[3][3])
           c2 == m[1][1] * m[1][1] + m[1][2] * m[1][2]
           t2 == Atan2(-m[1][3], c2)
           t3 == Atan2(Sin(t1) * m[3][1] - Cos(t1) * m[2][1],
                       Cos(t1) * m[2][2] - Sin(t1) * m[3][2])
<1>1. t1 \in Quarters /\ Sin(t1) = S1 /\ Cos(t1) = C1
  <2>1. CASE m[1][3] = 0
    <3>1. Direction(m[2][3], m[3][3])
      BY <2>1, RotationEntries
    <3> QED BY <2>1, <3>1, Atan2Direction
  <2>2. CASE m[1][3] # 0
    <3>1. m[2][3] = 0 /\ m[3][3] = 0
      BY <2>2, RotationEntries
    <3>2. t1 = 0
      BY <3>1 DEF Atan2
    <3> QED BY <2>2, <3>2, SinCos DEF Quarters
  <2> QED BY <2>1, <2>2
<1>2. t2 \in Quarters /\ Sin(t2) = S2 /\ Cos(t2) = C2
  <2>1. c2 = C2
    BY RotationEntries DEF Direction
  <2>2. Direction(-m[1][3], c2)
    BY <2>1, RotationEntries DEF Direction
  <2> QED BY <2>1, <2>2, Atan2Direction
<1>3. t3 \in Quarters /\ Sin(t3) = S3 /\ Cos(t3) = C3
  <2>1. Direction(S3, C3)
    <3>1. \A i, j \in Axes : m[i][j] \in {-1, 0, 1}
      BY RotationEntries
    <3>2. CASE m[1][3] = 0
      BY <3>1, <3>2, RotationEntries DEF Direction, Axes
    <3>3. CASE m[1][3] # 0
      BY SMTT(30), <3>1, <3>3, RotationEntries DEF Direction, Axes
    <3> QED BY <3>2, <3>3
  <2> QED BY <1>1, <2>1, Atan2Direction
<1>4. Euler(m) = <<Negative(t1), Negative(t2), Negative(t3)>>
  BY DEF Euler
<1> HIDE DEF t1, t2, t3
<1> QED BY <1>1, <1>2, <1>3, <1>4, NegativeAngle DEF Angles

\* What is stored reads back as the same rotation.
LEMMA EulerLoads ==
  ASSUME NEW m \in Rotations
  PROVE  LET r == Euler(m)
         IN  Times(Times(Times(Unit, Turn(1, r[1])), Turn(2, r[2])), Turn(3, r[3])) = m
<1> DEFINE r == Euler(m)
           n == Times(Times(Times(Unit, Turn(1, r[1])), Turn(2, r[2])), Turn(3, r[3]))
           S1 == IF m[1][3] = 0 THEN m[2][3] ELSE 0
           C1 == IF m[1][3] = 0 THEN m[3][3] ELSE 1
           S2 == -m[1][3]
           C2 == IF m[1][3] = 0 THEN 1 ELSE 0
           S3 == S1 * m[3][1] - C1 * m[2][1]
           C3 == C1 * m[2][2] - S1 * m[3][2]
<1>1. /\ r \in Angles
      /\ Sin(r[1]) = -S1 /\ Cos(r[1]) = C1
      /\ Sin(r[2]) = -S2 /\ Cos(r[2]) = C2
      /\ Sin(r[3]) = -S3 /\ Cos(r[3]) = C3
  BY EulerAngles
<1> HIDE DEF r
<1>2. /\ n[1][1] = C2 * C3
      /\ n[1][2] = -(C2 * (-S3))
      /\ n[1][3] = -S2
      /\ n[2][1] = (-S1) * (-S2) * C3 + C1 * (-S3)
      /\ n[2][2] = C1 * C3 - (-S1) * (-S2) * (-S3)
      /\ n[2][3] = -((-S1) * C2)
      /\ n[3][1] = (-S1) * (-S3) - C1 * (-S2) * C3
      /\ n[3][2] = C1 * (-S2) * (-S3) + (-S1) * C3
      /\ n[3][3] = C1 * C2
  BY <1>1, TurnsEntries
<1>3. n \in Rotations
  <2>1. r[1] \in Quarters /\ r[2] \in Quarters /\ r[3] \in Quarters
    BY <1>1 DEF Angles
  <2> QED BY <2>1, UnitRotation, TurnRotation, TimesRotation DEF Axes
<1> HIDE DEF n
<1>4. \A i, j \in Axes : m[i][j] \in {-1, 0, 1}
  BY RotationEntries
<1>5. \A i, j \in Axes : n[i][j] = m[i][j]
  <2>1. CASE m[1][3] = 0
    BY <1>2, <1>4, <2>1, RotationEntries DEF Axes, Direction
  <2>2. CASE m[1][3] # 0
    BY <1>2, <1>4, <2>2, RotationEntries DEF Axes, Direction
  <2> QED BY <2>1, <2>2
<1>6. n = m
  BY <1>3, <1>5, SameEntries DEF Rotations
<1> QED BY <1>6 DEF n, r

\* What update_vectors extracts and the parameters of a query store,
\* set_rotation makes the same transform of, whatever the angles were.
THEOREM SavedLoads ==
  ASSUME NEW t \in Rigid
  PROVE  Saved(t) \in [tran : Int, rot : Angles] /\ Loaded(Saved(t)) = t
<1>1. t.mat \in Rotations /\ t.tran \in Int /\ t = [tran |-> t.tran, mat |-> t.mat]
  BY DEF Rigid
<1>2. Euler(t.mat) \in Angles
  BY <1>1, EulerAngles
<1>3. Saved(t).tran = t.tran /\ Saved(t).rot = Euler(t.mat)
      /\ Saved(t) \in [tran : Int, rot : Angles]
  BY <1>1, <1>2 DEF Saved
<1>4. Loaded(Saved(t)) = [tran |-> t.tran, mat |-> t.mat]
  BY <1>1, <1>3, LoadedParts, EulerLoads
<1> QED BY <1>1, <1>3, <1>4

(***************************************************************************)
(* Both together, of the transforms that messages can bring, as TLC        *)
(* evaluates them.                                                         *)
(***************************************************************************)
THEOREM TransformAlgebraHolds == TransformAlgebra
<1> SUFFICES ASSUME NEW a \in {Loaded([tran |-> r[1], rot |-> r]) : r \in Angles},
                    NEW b \in {Loaded([tran |-> r[1], rot |-> r]) : r \in Angles}
             PROVE  Loaded(Saved(a)) = a /\ Add(b, Relative(b, a)) = a
  BY DEF TransformAlgebra
<1>1. \A r \in Angles : Loaded([tran |-> r[1], rot |-> r]) \in Rigid
  <2> TAKE r \in Angles
  <2>1. [tran |-> r[1], rot |-> r] \in [tran : Int, rot : Angles]
    BY DEF Angles, Quarters
  <2> QED BY <2>1, LoadedRotation
<1>2. a \in Rigid /\ b \in Rigid
  BY <1>1
<1> QED BY <1>2, SavedLoads, AddRelative
=============================================================================
