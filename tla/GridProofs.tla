---------------------------- MODULE GridProofs ----------------------------
(***************************************************************************)
(* What the operators of Block, Vec2 and View compute, for every block and *)
(* every view, and the inductions and recursions that take their place in  *)
(* the proofs of what a recursive definition computes.                     *)
(*                                                                         *)
(* The definitions of the bounds choose a least and a greatest coordinate. *)
(* IsBounds says what they are without a choice: two corners that enclose  *)
(* the points and whose every coordinate is attained.  The lemmas show how *)
(* translations and turns change the corners, and the theorem that a turn  *)
(* keeps the rounded centre.                                               *)
(*                                                                         *)
(* What a drawing operation makes of a grid is said cell by cell: a string *)
(* paints the cells from an index on, a row paints a band and the cells of *)
(* the copies that are spilled, a rectangle is its rows one after another. *)
(***************************************************************************)
EXTENDS Block, View, FiniteSetTheorems, FunctionTheorems, SequenceTheorems,
        WellFoundedInduction, TLAPS

IsBounds(b, u, v) ==
  /\ \A p \in b : u.x <= p.x /\ p.x <= v.x /\ u.y <= p.y /\ p.y <= v.y
  /\ \E p \in b : p.x = u.x
  /\ \E p \in b : p.x = v.x
  /\ \E p \in b : p.y = u.y
  /\ \E p \in b : p.y = v.y

-----------------------------------------------------------------------------
(* Every set of natural numbers has a least one.                           *)
LEMMA NatMinExists ==
  ASSUME NEW T \in SUBSET Nat, T # {}
  PROVE  \E m \in T : \A y \in T : m <= y
<1>1. PICK m \in T : \A y \in T : ~(<<y, m>> \in OpToRel(<, Nat))
  BY NatLessThanWellFounded, WFMin, Zenon
<1>2. \A y, z \in Nat : <<y, z>> \in Nat \X Nat /\ <<y, z>>[1] = y /\ <<y, z>>[2] = z
  OBVIOUS
<1>3. ASSUME NEW y \in Nat, NEW z \in Nat, y < z
      PROVE  <<y, z>> \in OpToRel(<, Nat)
  BY <1>2, <1>3, Zenon DEF OpToRel
<1>4. \A y \in T : ~(y < m)
  BY <1>1, <1>3
<1> QED
  BY <1>4

(* A set of integers between two others has a least and a greatest one.    *)
LEMMA IntMinExists ==
  ASSUME NEW S \in SUBSET Int, NEW lo \in Int, \A x \in S : lo <= x, S # {}
  PROVE  \E m \in S : \A x \in S : m <= x
<1> DEFINE T == {n \in Nat : lo + n \in S}
<1>1. PICK x0 \in S : TRUE
  OBVIOUS
<1>2. x0 - lo \in T
  BY <1>1
<1>3. T # {} /\ T \in SUBSET Nat
  BY <1>2
<1>4. PICK m \in T : \A y \in T : m <= y
  <2> HIDE DEF T
  <2> QED
    BY <1>3, NatMinExists
<1>5. lo + m \in S
  BY <1>4
<1>6. \A x \in S : lo + m <= x
  <2> TAKE x \in S
  <2>1. x - lo \in T
    OBVIOUS
  <2>2. m <= x - lo
    BY <2>1, <1>4
  <2> HIDE DEF T
  <2> QED
    BY <2>2, <1>4, <1>3
<1> QED
  BY <1>5, <1>6

LEMMA IntMaxExists ==
  ASSUME NEW S \in SUBSET Int, NEW hi \in Int, \A x \in S : x <= hi, S # {}
  PROVE  \E m \in S : \A x \in S : x <= m
<1> DEFINE N == {n \in Int : 0 - n \in S}
           lo == 0 - hi
<1>1. N \in SUBSET Int /\ lo \in Int /\ \A n \in N : lo <= n
  <2> SUFFICES ASSUME NEW n \in N PROVE lo <= n
    OBVIOUS
  <2>1. n \in Int /\ 0 - n \in S
    OBVIOUS
  <2>2. 0 - n <= hi
    BY <2>1
  <2> QED
    BY <2>1, <2>2
<1>2. N # {}
  <2>1. PICK x \in S : TRUE
    OBVIOUS
  <2>2. 0 - x \in N
    OBVIOUS
  <2> QED
    BY <2>2
<1>3. PICK n \in N : \A x \in N : n <= x
  <2> HIDE DEF N, lo
  <2> QED
    BY <1>1, <1>2, IntMinExists
<1>4. 0 - n \in S
  OBVIOUS
<1>5. ASSUME NEW x \in S PROVE x <= 0 - n
  <2>1. 0 - x \in N
    OBVIOUS
  <2>2. n <= 0 - x
    BY <2>1, <1>3
  <2> QED
    BY <2>2, <1>1
<1> QED
  BY <1>4, <1>5

(* Min and Max are the least and the greatest element, when there is one.  *)
LEMMA MinIs ==
  ASSUME NEW S \in SUBSET Int, NEW m \in S, \A x \in S : m <= x
  PROVE  Min(S) = m
<1>1. \E z \in S : \A y \in S : z <= y
  OBVIOUS
<1>2. Min(S) \in S /\ \A y \in S : Min(S) <= y
  BY <1>1, Zenon DEF Min
<1>3. Min(S) <= m /\ m <= Min(S) /\ Min(S) \in Int /\ m \in Int
  BY <1>2
<1> QED
  BY <1>3

LEMMA MaxIs ==
  ASSUME NEW S \in SUBSET Int, NEW m \in S, \A x \in S : x <= m
  PROVE  Max(S) = m
<1>1. \E z \in S : \A y \in S : z >= y
  OBVIOUS
<1>2. Max(S) \in S /\ \A y \in S : Max(S) >= y
  BY <1>1, Zenon DEF Max
<1>3. Max(S) >= m /\ m >= Max(S) /\ Max(S) \in Int /\ m \in Int
  BY <1>2
<1> QED
  BY <1>3
-----------------------------------------------------------------------------
(* Vectors.                                                                *)
LEMMA VecType ==
  /\ \A x, y \in Int : vec2(x, y) \in Vec /\ vec2(x, y).x = x /\ vec2(x, y).y = y
  /\ \A a, b \in Vec : add(a, b) \in Vec /\ add(a, b).x = a.x + b.x /\ add(a, b).y = a.y + b.y
  /\ \A a, b \in Vec : /\ subtract(a, b) \in Vec
                       /\ subtract(a, b).x = a.x - b.x /\ subtract(a, b).y = a.y - b.y
  /\ zero \in Vec /\ zero.x = 0 /\ zero.y = 0
  /\ \A a \in Vec : a.x \in Int /\ a.y \in Int
BY DEF Vec, vec2, add, subtract, zero

LEMMA SumIs ==
  ASSUME NEW a \in Vec, NEW b \in Vec
  PROVE  /\ add(a, b) \in Vec /\ add(a, b).x = a.x + b.x /\ add(a, b).y = a.y + b.y
         /\ a.x \in Int /\ a.y \in Int /\ b.x \in Int /\ b.y \in Int
BY DEF Vec, vec2, add

LEMMA PointIs ==
  ASSUME NEW x \in Int, NEW y \in Int
  PROVE  vec2(x, y) \in Vec /\ vec2(x, y).x = x /\ vec2(x, y).y = y
BY DEF Vec, vec2

LEMMA VecEqual ==
  ASSUME NEW a \in Vec, NEW b \in Vec, a.x = b.x, a.y = b.y
  PROVE  a = b
BY DEF Vec

(* The corners that IsBounds describes are min and max.                    *)
LEMMA BoundsUnique ==
  ASSUME NEW b \in SUBSET Vec, NEW u \in Vec, NEW v \in Vec, IsBounds(b, u, v)
  PROVE  min(b) = u /\ max(b) = v
<1> DEFINE X == {p.x : p \in b}
           Y == {p.y : p \in b}
<1>1. b # {} /\ X \in SUBSET Int /\ Y \in SUBSET Int
  BY VecType DEF IsBounds
<1>2. /\ u.x \in X /\ v.x \in X /\ \A x \in X : u.x <= x /\ x <= v.x
      /\ u.y \in Y /\ v.y \in Y /\ \A y \in Y : u.y <= y /\ y <= v.y
  BY DEF IsBounds
<1>3. Min(X) = u.x /\ Max(X) = v.x /\ Min(Y) = u.y /\ Max(Y) = v.y
  <2> HIDE DEF X, Y
  <2> QED
    BY <1>1, <1>2, MinIs, MaxIs
<1>4. boundsMin(b) = vec2(u.x, u.y) /\ boundsMax(b) = vec2(v.x, v.y)
  BY <1>1, <1>3 DEF boundsMin, boundsMax
<1>5. vec2(u.x, u.y) = u /\ vec2(v.x, v.y) = v
  BY VecType, VecEqual
<1> QED
  BY <1>4, <1>5 DEF min, max

(* Points between two corners have bounds.                                 *)
LEMMA BoundsExist ==
  ASSUME NEW b \in SUBSET Vec, b # {}, NEW lo \in Int, NEW hi \in Int,
         \A p \in b : lo <= p.x /\ p.x <= hi /\ lo <= p.y /\ p.y <= hi
  PROVE  \E u, v \in Vec : IsBounds(b, u, v)
<1> DEFINE X == {p.x : p \in b}
           Y == {p.y : p \in b}
<1>1. /\ X \in SUBSET Int /\ X # {} /\ \A x \in X : lo <= x /\ x <= hi
      /\ Y \in SUBSET Int /\ Y # {} /\ \A y \in Y : lo <= y /\ y <= hi
  BY VecType
<1>2. /\ \E m \in X : \A x \in X : m <= x
      /\ \E m \in X : \A x \in X : x <= m
      /\ \E m \in Y : \A y \in Y : m <= y
      /\ \E m \in Y : \A y \in Y : y <= m
  <2> HIDE DEF X, Y
  <2> QED
    BY <1>1, IntMinExists, IntMaxExists
<1>3. PICK a \in X, c \in X, d \in Y, e \in Y :
        (\A x \in X : a <= x /\ x <= c) /\ (\A y \in Y : d <= y /\ y <= e)
  <2> HIDE DEF X, Y
  <2> QED
    BY <1>2
<1>4. vec2(a, d) \in Vec /\ vec2(c, e) \in Vec
  <2>1. a \in Int /\ c \in Int /\ d \in Int /\ e \in Int
    BY <1>1
  <2> QED
    BY <2>1, VecType
<1>5. IsBounds(b, vec2(a, d), vec2(c, e))
  <2>1. vec2(a, d).x = a /\ vec2(a, d).y = d /\ vec2(c, e).x = c /\ vec2(c, e).y = e
    BY DEF vec2
  <2>2. \A p \in b : a <= p.x /\ p.x <= c /\ d <= p.y /\ p.y <= e
    BY <1>3
  <2>3. /\ \E p \in b : p.x = a
        /\ \E p \in b : p.x = c
        /\ \E p \in b : p.y = d
        /\ \E p \in b : p.y = e
    OBVIOUS
  <2> QED
    BY <2>1, <2>2, <2>3 DEF IsBounds
<1> QED
  BY <1>4, <1>5

LEMMA TranslateBounds ==
  ASSUME NEW b \in SUBSET Vec, NEW u \in Vec, NEW v \in Vec, IsBounds(b, u, v),
         NEW d \in Vec
  PROVE  /\ translate(b, d) \in SUBSET Vec
         /\ IsBounds(translate(b, d), add(u, d), add(v, d))
<1>1. \A p \in b : add(p, d) \in Vec /\ add(p, d).x = p.x + d.x /\ add(p, d).y = p.y + d.y
  BY VecType
<1>2. /\ add(u, d).x = u.x + d.x /\ add(u, d).y = u.y + d.y
      /\ add(v, d).x = v.x + d.x /\ add(v, d).y = v.y + d.y
  BY VecType
<1>3. translate(b, d) \in SUBSET Vec
  BY <1>1 DEF translate
<1>4. \A q \in translate(b, d) : /\ u.x + d.x <= q.x /\ q.x <= v.x + d.x
                                 /\ u.y + d.y <= q.y /\ q.y <= v.y + d.y
  <2> TAKE q \in translate(b, d)
  <2>1. PICK p \in b : q = add(p, d)
    BY DEF translate
  <2>2. u.x <= p.x /\ p.x <= v.x /\ u.y <= p.y /\ p.y <= v.y
    BY DEF IsBounds
  <2>3. q.x = p.x + d.x /\ q.y = p.y + d.y
    BY <1>1, <2>1
  <2>4. /\ u.x \in Int /\ u.y \in Int /\ v.x \in Int /\ v.y \in Int
        /\ p.x \in Int /\ p.y \in Int /\ d.x \in Int /\ d.y \in Int
    BY VecType
  <2> QED
    BY <2>2, <2>3, <2>4
<1>5. /\ \E q \in translate(b, d) : q.x = u.x + d.x
      /\ \E q \in translate(b, d) : q.x = v.x + d.x
      /\ \E q \in translate(b, d) : q.y = u.y + d.y
      /\ \E q \in translate(b, d) : q.y = v.y + d.y
  <2>1. \A p \in b : add(p, d) \in translate(b, d)
    BY DEF translate
  <2> QED
    BY <1>1, <2>1 DEF IsBounds
<1> QED
  BY <1>2, <1>3, <1>4, <1>5 DEF IsBounds
-----------------------------------------------------------------------------
(* The rounded centre.                                                     *)
LEMMA DivTruncHalf ==
  ASSUME NEW n \in Nat
  PROVE  DivTrunc(n, 2) = n \div 2 /\ n \div 2 \in Nat
<1>1. ~(n < 0) /\ ~(2 < 0) /\ 2 # 0
  OBVIOUS
<1>2. n \div 2 \in Nat
  OBVIOUS
<1> QED
  BY <1>1, <1>2 DEF DivTrunc

LEMMA CenterIs ==
  ASSUME NEW b \in SUBSET Vec, NEW u \in Vec, NEW v \in Vec, IsBounds(b, u, v)
  PROVE  /\ boundsCenter(b) \in Vec
         /\ boundsCenter(b).x = (v.x - u.x) \div 2 + u.x
         /\ boundsCenter(b).y = (v.y - u.y) \div 2 + u.y
         /\ v.x - u.x \in Nat /\ v.y - u.y \in Nat
<1>1. v.x - u.x \in Nat /\ v.y - u.y \in Nat
  <2>1. PICK p \in b : p.x = u.x
    BY DEF IsBounds
  <2>2. p.x <= v.x
    BY DEF IsBounds
  <2>3. PICK q \in b : q.y = u.y
    BY DEF IsBounds
  <2>4. q.y <= v.y
    BY DEF IsBounds
  <2> QED
    BY <2>1, <2>2, <2>3, <2>4, VecType
<1>2. boundsMin(b) = u /\ boundsMax(b) = v
  BY BoundsUnique DEF min, max
<1>3. /\ subtract(v, u) \in Vec
      /\ subtract(v, u).x = v.x - u.x /\ subtract(v, u).y = v.y - u.y
  BY VecType
<1>4. vec2(2, 2).x = 2 /\ vec2(2, 2).y = 2
  BY DEF vec2
<1> DEFINE h == divide(subtract(v, u), vec2(2, 2))
<1>5. h = vec2((v.x - u.x) \div 2, (v.y - u.y) \div 2)
  BY <1>1, <1>3, <1>4, DivTruncHalf DEF divide
<1>6. h \in Vec /\ h.x = (v.x - u.x) \div 2 /\ h.y = (v.y - u.y) \div 2
  <2>1. (v.x - u.x) \div 2 \in Int /\ (v.y - u.y) \div 2 \in Int
    BY <1>1, DivTruncHalf
  <2> QED
    BY <1>5, <2>1, VecType
<1>7. boundsCenter(b) = add(h, u)
  BY <1>2 DEF boundsCenter, midpoint
<1>8. add(h, u) \in Vec /\ add(h, u).x = h.x + u.x /\ add(h, u).y = h.y + u.y
  <2> HIDE DEF h
  <2> QED
    BY <1>6, VecType
<1> QED
  BY <1>1, <1>6, <1>7, <1>8

(* Points moved so that their rounded centre is c have it there.           *)
LEMMA Recentered ==
  ASSUME NEW b \in SUBSET Vec, NEW u \in Vec, NEW v \in Vec, IsBounds(b, u, v),
         NEW c \in Vec
  PROVE  LET e == subtract(c, boundsCenter(b))
         IN  /\ e \in Vec
             /\ translate(b, e) \in SUBSET Vec
             /\ IsBounds(translate(b, e), add(u, e), add(v, e))
             /\ boundsCenter(translate(b, e)) = c
<1> DEFINE e == subtract(c, boundsCenter(b))
           u2 == add(u, e)
           v2 == add(v, e)
<1>1. /\ boundsCenter(b) \in Vec
      /\ boundsCenter(b).x = (v.x - u.x) \div 2 + u.x
      /\ boundsCenter(b).y = (v.y - u.y) \div 2 + u.y
      /\ v.x - u.x \in Nat /\ v.y - u.y \in Nat
  BY CenterIs
<1>2. e \in Vec /\ e.x = c.x - boundsCenter(b).x /\ e.y = c.y - boundsCenter(b).y
  BY <1>1, VecType
<1>3. /\ u2 \in Vec /\ u2.x = u.x + e.x /\ u2.y = u.y + e.y
      /\ v2 \in Vec /\ v2.x = v.x + e.x /\ v2.y = v.y + e.y
  <2> HIDE DEF e
  <2> QED
    BY <1>2, VecType
<1>4. translate(b, e) \in SUBSET Vec /\ IsBounds(translate(b, e), u2, v2)
  <2> HIDE DEF e
  <2> QED
    BY <1>2, TranslateBounds
<1> HIDE DEF e, u2, v2
<1>5. /\ boundsCenter(translate(b, e)) \in Vec
      /\ boundsCenter(translate(b, e)).x = (v2.x - u2.x) \div 2 + u2.x
      /\ boundsCenter(translate(b, e)).y = (v2.y - u2.y) \div 2 + u2.y
  BY <1>3, <1>4, CenterIs
<1>6. /\ u.x \in Int /\ u.y \in Int /\ v.x \in Int /\ v.y \in Int
      /\ c.x \in Int /\ c.y \in Int /\ e.x \in Int /\ e.y \in Int
  BY <1>2, VecType
<1>7. v2.x - u2.x = v.x - u.x /\ v2.y - u2.y = v.y - u.y
  BY <1>3, <1>6
<1>8. (v.x - u.x) \div 2 \in Int /\ (v.y - u.y) \div 2 \in Int
  BY <1>1, DivTruncHalf
<1>9. boundsCenter(translate(b, e)).x = c.x /\ boundsCenter(translate(b, e)).y = c.y
  <2> DEFINE halfX == (v.x - u.x) \div 2
             halfY == (v.y - u.y) \div 2
  <2>1. /\ boundsCenter(translate(b, e)).x = halfX + (u.x + e.x)
        /\ boundsCenter(translate(b, e)).y = halfY + (u.y + e.y)
    BY <1>3, <1>5, <1>7
  <2>2. e.x = c.x - (halfX + u.x) /\ e.y = c.y - (halfY + u.y)
    BY <1>1, <1>2
  <2>3. halfX \in Int /\ halfY \in Int
    BY <1>8
  <2> HIDE DEF halfX, halfY
  <2> QED
    BY <1>6, <2>1, <2>2, <2>3
<1>10. boundsCenter(translate(b, e)) = c
  BY <1>5, <1>9, VecEqual
<1> QED
  BY <1>2, <1>4, <1>10 DEF e, u2, v2
-----------------------------------------------------------------------------
(* Turns.                                                                  *)
LEMMA TurnedBounds ==
  ASSUME NEW b \in SUBSET Vec, NEW u \in Vec, NEW v \in Vec, IsBounds(b, u, v)
  PROVE  /\ {vec2(p.y * (-1), p.x * 1) : p \in b} \in SUBSET Vec
         /\ IsBounds({vec2(p.y * (-1), p.x * 1) : p \in b},
                     vec2(0 - v.y, u.x), vec2(0 - u.y, v.x))
         /\ {vec2(p.y * 1, p.x * (-1)) : p \in b} \in SUBSET Vec
         /\ IsBounds({vec2(p.y * 1, p.x * (-1)) : p \in b},
                     vec2(u.y, 0 - v.x), vec2(v.y, 0 - u.x))
<1>1. /\ u.x \in Int /\ u.y \in Int /\ v.x \in Int /\ v.y \in Int
      /\ \A p \in b : p.x \in Int /\ p.y \in Int
  BY VecType
<1>2. \A n \in Int : n * (-1) = 0 - n /\ n * 1 = n
  OBVIOUS
<1>3. \A x, y : vec2(x, y).x = x /\ vec2(x, y).y = y
  BY DEF vec2
<1>4. \A p \in b : /\ vec2(p.y * (-1), p.x * 1) = vec2(0 - p.y, p.x)
                   /\ vec2(p.y * 1, p.x * (-1)) = vec2(p.y, 0 - p.x)
  BY <1>1, <1>2
<1> DEFINE R == {vec2(p.y * (-1), p.x * 1) : p \in b}
           L == {vec2(p.y * 1, p.x * (-1)) : p \in b}
<1>5. \A p \in b : vec2(0 - p.y, p.x) \in R /\ vec2(p.y, 0 - p.x) \in L
  BY <1>4
<1>6. /\ \A q \in R : \E p \in b : q = vec2(0 - p.y, p.x)
      /\ \A q \in L : \E p \in b : q = vec2(p.y, 0 - p.x)
  BY <1>4
<1> HIDE DEF R, L
<1>7. R \in SUBSET Vec /\ L \in SUBSET Vec
  <2>1. \A p \in b : vec2(0 - p.y, p.x) \in Vec /\ vec2(p.y, 0 - p.x) \in Vec
    BY <1>1, VecType
  <2> QED
    BY <1>6, <2>1
<1>8. IsBounds(R, vec2(0 - v.y, u.x), vec2(0 - u.y, v.x))
  <2>1. \A q \in R : 0 - v.y <= q.x /\ q.x <= 0 - u.y /\ u.x <= q.y /\ q.y <= v.x
    BY <1>1, <1>3, <1>6 DEF IsBounds
  <2>2. /\ \E q \in R : q.x = 0 - v.y
        /\ \E q \in R : q.x = 0 - u.y
        /\ \E q \in R : q.y = u.x
        /\ \E q \in R : q.y = v.x
    BY <1>1, <1>3, <1>5 DEF IsBounds
  <2> QED
    BY <1>3, <2>1, <2>2 DEF IsBounds
<1>9. IsBounds(L, vec2(u.y, 0 - v.x), vec2(v.y, 0 - u.x))
  <2>1. \A q \in L : u.y <= q.x /\ q.x <= v.y /\ 0 - v.x <= q.y /\ q.y <= 0 - u.x
    BY <1>1, <1>3, <1>6 DEF IsBounds
  <2>2. /\ \E q \in L : q.x = u.y
        /\ \E q \in L : q.x = v.y
        /\ \E q \in L : q.y = 0 - v.x
        /\ \E q \in L : q.y = 0 - u.x
    BY <1>1, <1>3, <1>5 DEF IsBounds
  <2> QED
    BY <1>3, <2>1, <2>2 DEF IsBounds
<1> QED
  BY <1>7, <1>8, <1>9 DEF R, L

(* rotate in both directions: a turned block has the rounded centre of the *)
(* block, and its width and height are those of the block exchanged.       *)
THEOREM TurnKeepsCenter ==
  ASSUME NEW b \in SUBSET Vec, NEW u \in Vec, NEW v \in Vec, IsBounds(b, u, v),
         NEW turned \in {rotateClockwise(b), rotateCounterClockwise(b)}
  PROVE  /\ turned \in SUBSET Vec
         /\ boundsCenter(turned) = boundsCenter(b)
         /\ \E tu, tv \in Vec : /\ IsBounds(turned, tu, tv)
                                /\ tv.x - tu.x = v.y - u.y
                                /\ tv.y - tu.y = v.x - u.x
<1>1. boundsCenter(b) \in Vec
  BY CenterIs
<1>2. /\ u.x \in Int /\ u.y \in Int /\ v.x \in Int /\ v.y \in Int
  BY VecType
<1>3. ASSUME NEW r \in SUBSET Vec, NEW ru \in Vec, NEW rv \in Vec, IsBounds(r, ru, rv),
             rv.x - ru.x = v.y - u.y, rv.y - ru.y = v.x - u.x,
             turned = translate(r, subtract(boundsCenter(b), boundsCenter(r)))
      PROVE  /\ turned \in SUBSET Vec
             /\ boundsCenter(turned) = boundsCenter(b)
             /\ \E tu, tv \in Vec : /\ IsBounds(turned, tu, tv)
                                    /\ tv.x - tu.x = v.y - u.y
                                    /\ tv.y - tu.y = v.x - u.x
  <2> DEFINE e == subtract(boundsCenter(b), boundsCenter(r))
  <2>1. /\ e \in Vec /\ turned \in SUBSET Vec
        /\ IsBounds(turned, add(ru, e), add(rv, e))
        /\ boundsCenter(turned) = boundsCenter(b)
    BY <1>1, <1>3, Recentered
  <2> HIDE DEF e
  <2>2. /\ add(ru, e) \in Vec /\ add(rv, e) \in Vec
        /\ add(ru, e).x = ru.x + e.x /\ add(ru, e).y = ru.y + e.y
        /\ add(rv, e).x = rv.x + e.x /\ add(rv, e).y = rv.y + e.y
        /\ ru.x \in Int /\ ru.y \in Int /\ rv.x \in Int /\ rv.y \in Int
        /\ e.x \in Int /\ e.y \in Int
    BY <2>1, VecType
  <2>3. /\ add(rv, e).x - add(ru, e).x = v.y - u.y
        /\ add(rv, e).y - add(ru, e).y = v.x - u.x
    BY <1>3, <2>2
  <2> QED
    BY <2>1, <2>2, <2>3
<1>4. CASE turned = rotateClockwise(b)
  <2> DEFINE r  == {vec2(p.y * (-1), p.x * 1) : p \in b}
             ru == vec2(0 - v.y, u.x)
             rv == vec2(0 - u.y, v.x)
  <2>1. r \in SUBSET Vec /\ IsBounds(r, ru, rv)
    BY TurnedBounds
  <2>2. /\ ru \in Vec /\ rv \in Vec
        /\ rv.x - ru.x = v.y - u.y /\ rv.y - ru.y = v.x - u.x
    <3>1. 0 - v.y \in Int /\ 0 - u.y \in Int
      BY <1>2
    <3>2. /\ ru \in Vec /\ ru.x = 0 - v.y /\ ru.y = u.x
          /\ rv \in Vec /\ rv.x = 0 - u.y /\ rv.y = v.x
      BY <1>2, <3>1, VecType
    <3> HIDE DEF ru, rv
    <3> QED
      BY <1>2, <3>2
  <2>3. turned = translate(r, subtract(boundsCenter(b), boundsCenter(r)))
    BY <1>4 DEF rotateClockwise, rotate
  <2> HIDE DEF r, ru, rv
  <2> QED
    BY <1>3, <2>1, <2>2, <2>3
<1>5. CASE turned = rotateCounterClockwise(b)
  <2> DEFINE r  == {vec2(p.y * 1, p.x * (-1)) : p \in b}
             ru == vec2(u.y, 0 - v.x)
             rv == vec2(v.y, 0 - u.x)
  <2>1. r \in SUBSET Vec /\ IsBounds(r, ru, rv)
    BY TurnedBounds
  <2>2. /\ ru \in Vec /\ rv \in Vec
        /\ rv.x - ru.x = v.y - u.y /\ rv.y - ru.y = v.x - u.x
    <3>1. 0 - v.x \in Int /\ 0 - u.x \in Int
      BY <1>2
    <3>2. /\ ru \in Vec /\ ru.x = u.y /\ ru.y = 0 - v.x
          /\ rv \in Vec /\ rv.x = v.y /\ rv.y = 0 - u.x
      BY <1>2, <3>1, PointIs
    <3> HIDE DEF ru, rv
    <3> QED
      BY <1>2, <3>2
  <2>3. turned = translate(r, subtract(boundsCenter(b), boundsCenter(r)))
    BY <1>5 DEF rotateCounterClockwise, rotate
  <2> HIDE DEF r, ru, rv
  <2> QED
    BY <1>3, <2>1, <2>2, <2>3
<1> QED
  BY <1>4, <1>5
-----------------------------------------------------------------------------
(* A block and what becomes of it have as many points.                     *)
LEMMA EmptyBlock ==
  /\ empty = {} /\ min({}) = zero /\ max({}) = zero
  /\ \A d : translate({}, d) = {}
BY DEF empty, min, max, boundsMin, boundsMax, translate

LEMMA PointsFinite ==
  ASSUME NEW X, NEW Y, IsFiniteSet(X), IsFiniteSet(Y)
  PROVE  IsFiniteSet([x : X, y : Y])
<1> DEFINE f   == [z \in X \X Y |-> [x |-> z[1], y |-> z[2]]]
           all == [x : X, y : Y]
<1>1. IsFiniteSet(X \X Y)
  BY FS_Product
<1>2. f \in [X \X Y -> all]
  OBVIOUS
<1>3. ASSUME NEW p \in all PROVE \E z \in X \X Y : f[z] = p
  <2>1. p.x \in X /\ p.y \in Y /\ p = [x |-> p.x, y |-> p.y]
    OBVIOUS
  <2>2. f[<<p.x, p.y>>] = p
    BY <2>1
  <2> QED
    BY <2>1, <2>2
<1> HIDE DEF f, all
<1>4. f \in Surjection(X \X Y, all)
  BY <1>2, <1>3, Fun_IsSurj
<1>5. IsFiniteSet(all)
  BY <1>1, <1>4, FS_Surjection
<1> QED
  BY <1>5 DEF all

(* Two sets with a way back from each to the other have as many elements.  *)
LEMMA TranslateCount ==
  ASSUME NEW b \in SUBSET Vec, IsFiniteSet(b), NEW d \in Vec
  PROVE  /\ IsFiniteSet(translate(b, d)) /\ translate(b, d) \in SUBSET Vec
         /\ Cardinality(translate(b, d)) = Cardinality(b)
<1> DEFINE f == [p \in b |-> add(p, d)]
<1>1. f \in [b -> translate(b, d)] /\ \A q \in translate(b, d) : \E p \in b : f[p] = q
  BY DEF translate
<1>2. ASSUME NEW p \in b, NEW q \in b, f[p] = f[q] PROVE p = q
  <2>1. p \in Vec /\ q \in Vec /\ add(p, d) = add(q, d)
    BY <1>2
  <2>2. /\ p.x \in Int /\ p.y \in Int /\ q.x \in Int /\ q.y \in Int /\ d.x \in Int /\ d.y \in Int
        /\ p.x + d.x = q.x + d.x /\ p.y + d.y = q.y + d.y
    BY <2>1, VecType
  <2>3. p.x = q.x /\ p.y = q.y
    BY <2>2
  <2> QED
    BY <2>1, <2>3, VecEqual
<1>3. translate(b, d) \in SUBSET Vec
  BY VecType DEF translate
<1> HIDE DEF f
<1>4. f \in Bijection(b, translate(b, d))
  BY <1>1, <1>2, Fun_IsBij
<1>5. ExistsBijection(b, translate(b, d))
  BY <1>4 DEF ExistsBijection
<1> QED
  BY <1>3, <1>5, FS_Bijection

(* What a turn makes of a block, but for where it is put.                  *)
cwAt(b, k)  == {vec2(k.x - p.y, k.y + p.x) : p \in b}
ccwAt(b, k) == {vec2(k.x + p.y, k.y - p.x) : p \in b}

LEMMA TurnedIs ==
  ASSUME NEW b \in SUBSET Vec, NEW u \in Vec, NEW v \in Vec, IsBounds(b, u, v)
  PROVE  /\ \E k \in Vec : rotateClockwise(b) = cwAt(b, k)
         /\ \E k \in Vec : rotateCounterClockwise(b) = ccwAt(b, k)
<1> DEFINE cw  == {vec2(p.y * (-1), p.x * 1) : p \in b}
           ccw == {vec2(p.y * 1, p.x * (-1)) : p \in b}
           k   == subtract(boundsCenter(b), boundsCenter(cw))
           l   == subtract(boundsCenter(b), boundsCenter(ccw))
<1>1. k \in Vec /\ l \in Vec
  <2>1. /\ vec2(0 - v.y, u.x) \in Vec /\ vec2(0 - u.y, v.x) \in Vec
        /\ vec2(u.y, 0 - v.x) \in Vec /\ vec2(v.y, 0 - u.x) \in Vec
    BY VecType
  <2>2. /\ cw \in SUBSET Vec /\ IsBounds(cw, vec2(0 - v.y, u.x), vec2(0 - u.y, v.x))
        /\ ccw \in SUBSET Vec /\ IsBounds(ccw, vec2(u.y, 0 - v.x), vec2(v.y, 0 - u.x))
    BY TurnedBounds
  <2> HIDE DEF cw, ccw
  <2>3. boundsCenter(b) \in Vec /\ boundsCenter(cw) \in Vec /\ boundsCenter(ccw) \in Vec
    BY <2>1, <2>2, CenterIs
  <2> QED
    BY <2>3, VecType
<1>2. rotateClockwise(b) = translate(cw, k) /\ rotateCounterClockwise(b) = translate(ccw, l)
  BY DEF rotateClockwise, rotateCounterClockwise, rotate
<1>3. \A p \in b : p \in Vec /\ p.x \in Int /\ p.y \in Int
  BY VecType
<1> HIDE DEF k, l
<1>4. \A p \in b : /\ add(vec2(p.y * (-1), p.x * 1), k) = vec2(k.x - p.y, k.y + p.x)
                   /\ add(vec2(p.y * 1, p.x * (-1)), l) = vec2(l.x + p.y, l.y - p.x)
  <2>1. k.x \in Int /\ k.y \in Int /\ l.x \in Int /\ l.y \in Int
    BY <1>1, VecType
  <2> QED
    BY <1>3, <2>1 DEF add, vec2
<1>5. translate(cw, k) = cwAt(b, k) /\ translate(ccw, l) = ccwAt(b, l)
  BY <1>4 DEF translate, cwAt, ccwAt
<1> QED
  BY <1>1, <1>2, <1>5

LEMMA TurnedCount ==
  ASSUME NEW b \in SUBSET Vec, IsFiniteSet(b), NEW u \in Vec, NEW v \in Vec, IsBounds(b, u, v),
         NEW turned \in {rotateClockwise(b), rotateCounterClockwise(b)}
  PROVE  IsFiniteSet(turned) /\ Cardinality(turned) = Cardinality(b)
<1> DEFINE f(k) == [p \in b |-> vec2(k.x - p.y, k.y + p.x)]
           g(k) == [p \in b |-> vec2(k.x + p.y, k.y - p.x)]
<1>1. \A p \in b : p \in Vec /\ p.x \in Int /\ p.y \in Int
  BY VecType
<1>2. ASSUME NEW k \in Vec PROVE ExistsBijection(b, cwAt(b, k)) /\ ExistsBijection(b, ccwAt(b, k))
  <2>1. /\ f(k) \in [b -> cwAt(b, k)] /\ \A q \in cwAt(b, k) : \E p \in b : f(k)[p] = q
        /\ g(k) \in [b -> ccwAt(b, k)] /\ \A q \in ccwAt(b, k) : \E p \in b : g(k)[p] = q
    BY DEF cwAt, ccwAt
  <2>2. ASSUME NEW p \in b, NEW q \in b, f(k)[p] = f(k)[q] \/ g(k)[p] = g(k)[q] PROVE p = q
    <3>1. /\ k.x \in Int /\ k.y \in Int
          /\ p.x \in Int /\ p.y \in Int /\ q.x \in Int /\ q.y \in Int
      BY <1>1, VecType
    <3>2. \/ k.x - p.y = k.x - q.y /\ k.y + p.x = k.y + q.x
          \/ k.x + p.y = k.x + q.y /\ k.y - p.x = k.y - q.x
      BY <2>2 DEF vec2
    <3> HIDE DEF f, g
    <3>3. p.x = q.x /\ p.y = q.y
      <4>1. CASE k.x - p.y = k.x - q.y /\ k.y + p.x = k.y + q.x
        BY <3>1, <4>1
      <4>2. CASE k.x + p.y = k.x + q.y /\ k.y - p.x = k.y - q.x
        BY <3>1, <4>2
      <4> QED
        BY <3>2, <4>1, <4>2
    <3> QED
      BY <1>1, <3>3, VecEqual
  <2> HIDE DEF f, g
  <2>3. f(k) \in Bijection(b, cwAt(b, k)) /\ g(k) \in Bijection(b, ccwAt(b, k))
    BY <2>1, <2>2, Fun_IsBij
  <2> QED
    BY <2>3 DEF ExistsBijection
<1>3. PICK k \in Vec : turned = cwAt(b, k) \/ turned = ccwAt(b, k)
  BY TurnedIs
<1> QED
  BY <1>2, <1>3, FS_Bijection
-----------------------------------------------------------------------------
(* Turns that follow each other.                                           *)

HasBounds(b) == b \in SUBSET Vec /\ \E u, v \in Vec : IsBounds(b, u, v)

LEMMA Turned ==
  ASSUME NEW b, HasBounds(b), NEW turned \in {rotateClockwise(b), rotateCounterClockwise(b)}
  PROVE  HasBounds(turned) /\ boundsCenter(turned) = boundsCenter(b)
BY TurnKeepsCenter DEF HasBounds

LEMMA Moved ==
  ASSUME NEW b, HasBounds(b), NEW d \in Vec
  PROVE  /\ HasBounds(translate(b, d))
         /\ boundsCenter(b) \in Vec
         /\ boundsCenter(translate(b, d)) = add(boundsCenter(b), d)
<1>1. PICK u \in Vec, v \in Vec : IsBounds(b, u, v)
  BY DEF HasBounds
<1>2. /\ b \in SUBSET Vec /\ boundsCenter(b) \in Vec
      /\ boundsCenter(b).x = (v.x - u.x) \div 2 + u.x
      /\ boundsCenter(b).y = (v.y - u.y) \div 2 + u.y
      /\ v.x - u.x \in Nat /\ v.y - u.y \in Nat
  BY <1>1, CenterIs DEF HasBounds
<1> DEFINE c == add(boundsCenter(b), d)
           e == subtract(c, boundsCenter(b))
<1>3. /\ add(boundsCenter(b), d) \in Vec
      /\ add(boundsCenter(b), d).x = boundsCenter(b).x + d.x
      /\ add(boundsCenter(b), d).y = boundsCenter(b).y + d.y
      /\ boundsCenter(b).x \in Int /\ boundsCenter(b).y \in Int /\ d.x \in Int /\ d.y \in Int
  <2>1. boundsCenter(b) \in Vec
    BY <1>2
  <2> QED
    BY <2>1, SumIs
<1>4. e = d
  <2>1. c \in Vec /\ c.x = boundsCenter(b).x + d.x /\ c.y = boundsCenter(b).y + d.y
    BY <1>3
  <2> HIDE DEF c
  <2>2. e \in Vec /\ e.x = c.x - boundsCenter(b).x /\ e.y = c.y - boundsCenter(b).y
    <3>1. boundsCenter(b) \in Vec /\ c \in Vec
      BY <1>2, <2>1
    <3> QED
      BY <3>1, VecType
  <2> HIDE DEF e
  <2>3. e.x = d.x /\ e.y = d.y
    BY <1>3, <2>1, <2>2
  <2> QED
    BY <2>2, <2>3, VecEqual
<1>5. boundsCenter(translate(b, e)) = add(boundsCenter(b), d)
  BY <1>1, <1>2, <1>3, Recentered
<1>6. HasBounds(translate(b, d))
  <2>1. add(u, d) \in Vec /\ add(v, d) \in Vec
    BY VecType
  <2> QED
    BY <1>1, <1>2, <2>1, TranslateBounds DEF HasBounds
<1> QED
  BY <1>2, <1>4, <1>5, <1>6

(* A block that was moved and has the centre it had is where it was.       *)
LEMMA SamePlace ==
  ASSUME NEW b, HasBounds(b), NEW d \in Vec, boundsCenter(translate(b, d)) = boundsCenter(b)
  PROVE  translate(b, d) = b
<1>1. boundsCenter(b) \in Vec /\ add(boundsCenter(b), d) = boundsCenter(b)
  BY Moved
<1>2. /\ boundsCenter(b).x \in Int /\ boundsCenter(b).y \in Int /\ d.x \in Int /\ d.y \in Int
      /\ boundsCenter(b).x + d.x = boundsCenter(b).x
      /\ boundsCenter(b).y + d.y = boundsCenter(b).y
  BY <1>1, VecType
<1>3. d.x = 0 /\ d.y = 0
  BY <1>2
<1>4. ASSUME NEW p \in b PROVE add(p, d) = p
  <2>1. p \in Vec
    BY DEF HasBounds
  <2>2. add(p, d) \in Vec /\ add(p, d).x = p.x + d.x /\ add(p, d).y = p.y + d.y
        /\ p.x \in Int /\ p.y \in Int
    BY <2>1, VecType
  <2>3. add(p, d).x = p.x /\ add(p, d).y = p.y
    BY <1>3, <2>2
  <2> QED
    BY <2>1, <2>2, <2>3, VecEqual
<1> QED
  BY <1>4 DEF translate

LEMMA SizeIs ==
  ASSUME NEW b \in SUBSET Vec, NEW u \in Vec, NEW v \in Vec, IsBounds(b, u, v)
  PROVE  size(b) = vec2(v.x - u.x + 1, v.y - u.y + 1)
<1>1. min(b) = u /\ max(b) = v
  BY BoundsUnique
<1> QED
  BY <1>1 DEF size, add, subtract, vec2

halfAt(b, k) == {vec2(k.x - p.x, k.y - p.y) : p \in b}

LEMMA TurnsCompose ==
  \A a \in SUBSET Vec : \A k, l \in Vec :
    /\ \E d \in Vec : ccwAt(cwAt(a, k), l) = translate(a, d)
    /\ \E d \in Vec : cwAt(ccwAt(a, k), l) = translate(a, d)
    /\ \E d \in Vec : cwAt(cwAt(a, k), l) = halfAt(a, d)
    /\ \E d \in Vec : halfAt(halfAt(a, k), l) = translate(a, d)
<1> SUFFICES ASSUME NEW a \in SUBSET Vec, NEW k \in Vec, NEW l \in Vec
             PROVE  /\ \E d \in Vec : ccwAt(cwAt(a, k), l) = translate(a, d)
                    /\ \E d \in Vec : cwAt(ccwAt(a, k), l) = translate(a, d)
                    /\ \E d \in Vec : cwAt(cwAt(a, k), l) = halfAt(a, d)
                    /\ \E d \in Vec : halfAt(halfAt(a, k), l) = translate(a, d)
  OBVIOUS
<1>1. \A x, y : vec2(x, y).x = x /\ vec2(x, y).y = y
  BY DEF vec2
<1>2. \A p \in a : p.x \in Int /\ p.y \in Int
  BY VecType
<1>3. k.x \in Int /\ k.y \in Int /\ l.x \in Int /\ l.y \in Int
  BY VecType
<1>4. ASSUME NEW p \in a
      PROVE  /\ l.x + (k.y + p.x) = p.x + (l.x + k.y) /\ l.y - (k.x - p.y) = p.y + (l.y - k.x)
             /\ l.x - (k.y - p.x) = p.x + (l.x - k.y) /\ l.y + (k.x + p.y) = p.y + (l.y + k.x)
             /\ l.x - (k.y + p.x) = (l.x - k.y) - p.x /\ l.y + (k.x - p.y) = (l.y + k.x) - p.y
             /\ l.x - (k.x - p.x) = p.x + (l.x - k.x) /\ l.y - (k.y - p.y) = p.y + (l.y - k.y)
  BY <1>2, <1>3
<1> DEFINE cw(p)  == vec2(k.x - p.y, k.y + p.x)
           ccw(p) == vec2(k.x + p.y, k.y - p.x)
           hf(p)  == vec2(k.x - p.x, k.y - p.y)
<1>5. /\ ccwAt(cwAt(a, k), l) = {vec2(l.x + cw(p).y, l.y - cw(p).x) : p \in a}
      /\ cwAt(ccwAt(a, k), l) = {vec2(l.x - ccw(p).y, l.y + ccw(p).x) : p \in a}
      /\ cwAt(cwAt(a, k), l) = {vec2(l.x - cw(p).y, l.y + cw(p).x) : p \in a}
      /\ halfAt(halfAt(a, k), l) = {vec2(l.x - hf(p).x, l.y - hf(p).y) : p \in a}
  BY Zenon DEF ccwAt, cwAt, halfAt
<1>6. ccwAt(cwAt(a, k), l) = translate(a, vec2(l.x + k.y, l.y - k.x))
  BY <1>1, <1>4, <1>5 DEF translate, add
<1>7. cwAt(ccwAt(a, k), l) = translate(a, vec2(l.x - k.y, l.y + k.x))
  BY <1>1, <1>4, <1>5 DEF translate, add
<1>8. cwAt(cwAt(a, k), l) = halfAt(a, vec2(l.x - k.y, l.y + k.x))
  BY <1>1, <1>4, <1>5 DEF halfAt
<1>9. halfAt(halfAt(a, k), l) = translate(a, vec2(l.x - k.x, l.y - k.y))
  BY <1>1, <1>4, <1>5 DEF translate, add
<1>10. /\ vec2(l.x + k.y, l.y - k.x) \in Vec /\ vec2(l.x - k.y, l.y + k.x) \in Vec
       /\ vec2(l.x - k.x, l.y - k.y) \in Vec
  BY <1>3, VecType
<1> QED
  BY <1>6, <1>7, <1>8, <1>9, <1>10, Zenon

(* The two turns undo each other and four turns one way are none: a block  *)
(* keeps its rounded centre, and is otherwise only moved.                  *)
THEOREM TurnsUndo ==
  ASSUME NEW b, HasBounds(b)
  PROVE  /\ rotateCounterClockwise(rotateClockwise(b)) = b
         /\ rotateClockwise(rotateCounterClockwise(b)) = b
         /\ rotateClockwise(rotateClockwise(rotateClockwise(rotateClockwise(b)))) = b
<1> DEFINE cw1 == rotateClockwise(b)
           cw2 == rotateClockwise(cw1)
           cw3 == rotateClockwise(cw2)
           cw4 == rotateClockwise(cw3)
           ccw == rotateCounterClockwise(b)
           back  == rotateCounterClockwise(cw1)
           forth == rotateClockwise(ccw)
<1>1. ASSUME NEW a, HasBounds(a)
      PROVE  /\ HasBounds(rotateClockwise(a)) /\ HasBounds(rotateCounterClockwise(a))
             /\ boundsCenter(rotateClockwise(a)) = boundsCenter(a)
             /\ boundsCenter(rotateCounterClockwise(a)) = boundsCenter(a)
             /\ \E k \in Vec : rotateClockwise(a) = cwAt(a, k)
             /\ \E k \in Vec : rotateCounterClockwise(a) = ccwAt(a, k)
  BY <1>1, Turned, TurnedIs DEF HasBounds
<1>2. /\ HasBounds(cw1) /\ boundsCenter(cw1) = boundsCenter(b)
      /\ HasBounds(ccw) /\ boundsCenter(ccw) = boundsCenter(b)
  BY <1>1
<1>3. HasBounds(cw2) /\ boundsCenter(cw2) = boundsCenter(b)
  BY <1>1, <1>2
<1>4. HasBounds(cw3) /\ boundsCenter(cw3) = boundsCenter(b)
  BY <1>1, <1>3
<1>5. /\ HasBounds(cw4) /\ boundsCenter(cw4) = boundsCenter(b)
      /\ boundsCenter(back) = boundsCenter(b) /\ boundsCenter(forth) = boundsCenter(b)
  BY <1>1, <1>2, <1>4
<1>6. PICK k1 \in Vec, k2 \in Vec, k3 \in Vec, k4 \in Vec, l1 \in Vec, l2 \in Vec, l3 \in Vec :
        /\ cw1 = cwAt(b, k1) /\ cw2 = cwAt(cw1, k2) /\ cw3 = cwAt(cw2, k3) /\ cw4 = cwAt(cw3, k4)
        /\ ccw = ccwAt(b, l1) /\ back = ccwAt(cw1, l2) /\ forth = cwAt(ccw, l3)
  <2>1. (\E k \in Vec : cw1 = cwAt(b, k)) /\ (\E k \in Vec : ccw = ccwAt(b, k))
    BY <1>1
  <2>2. (\E k \in Vec : cw2 = cwAt(cw1, k)) /\ (\E k \in Vec : back = ccwAt(cw1, k))
    BY <1>1, <1>2
  <2>3. \E k \in Vec : forth = cwAt(ccw, k)
    BY <1>1, <1>2
  <2>4. (\E k \in Vec : cw3 = cwAt(cw2, k)) /\ (\E k \in Vec : cw4 = cwAt(cw3, k))
    BY <1>1, <1>3, <1>4
  <2> HIDE DEF cw1, cw2, cw3, cw4, ccw, back, forth
  <2> QED
    BY <2>1, <2>2, <2>3, <2>4
<1>7. b \in SUBSET Vec
  BY DEF HasBounds
<1>8. cw2 \in SUBSET Vec
  BY <1>3 DEF HasBounds
<1> HIDE DEF cw1, cw2, cw3, cw4, ccw, back, forth
<1>9. \E d \in Vec : back = translate(b, d)
  <2>1. \E d \in Vec : ccwAt(cwAt(b, k1), l2) = translate(b, d)
    BY <1>7, TurnsCompose
  <2> QED
    BY <1>6, <2>1
<1>10. \E d \in Vec : forth = translate(b, d)
  <2>1. \E d \in Vec : cwAt(ccwAt(b, l1), l3) = translate(b, d)
    BY <1>7, TurnsCompose
  <2> QED
    BY <1>6, <2>1
<1>11. \E d \in Vec : cw4 = translate(b, d)
  <2>1. PICK m \in Vec : cwAt(cwAt(b, k1), k2) = halfAt(b, m)
    BY <1>7, TurnsCompose
  <2>2. PICK n \in Vec : cwAt(cwAt(cw2, k3), k4) = halfAt(cw2, n)
    BY <1>8, TurnsCompose
  <2>3. cw4 = halfAt(halfAt(b, m), n)
    BY <1>6, <2>1, <2>2
  <2>4. \E d \in Vec : halfAt(halfAt(b, m), n) = translate(b, d)
    BY <1>7, TurnsCompose
  <2> QED
    BY <2>3, <2>4
<1>12. back = b /\ forth = b /\ cw4 = b
  BY <1>5, <1>9, <1>10, <1>11, SamePlace
<1> QED
  BY <1>12 DEF cw1, cw2, cw3, cw4, ccw, back, forth

(* Where a block is does not change how it turns.                          *)
THEOREM TurnCommutes ==
  ASSUME NEW b, HasBounds(b), NEW d \in Vec
  PROVE  rotateClockwise(translate(b, d)) = translate(rotateClockwise(b), d)
<1> DEFINE moved == translate(b, d)
           cw    == rotateClockwise(b)
           other == rotateClockwise(moved)
           there == translate(cw, d)
<1>1. /\ HasBounds(moved) /\ boundsCenter(b) \in Vec
      /\ boundsCenter(moved) = add(boundsCenter(b), d)
  BY Moved
<1>2. HasBounds(cw) /\ boundsCenter(cw) = boundsCenter(b)
  BY Turned
<1>3. boundsCenter(other) = add(boundsCenter(b), d)
  BY <1>1, Turned
<1>4. HasBounds(there) /\ boundsCenter(there) = add(boundsCenter(b), d)
  BY <1>2, Moved
<1>5. PICK k \in Vec : cw = cwAt(b, k)
  BY TurnedIs DEF HasBounds
<1>6. PICK l \in Vec : other = cwAt(moved, l)
  BY <1>1, TurnedIs DEF HasBounds
<1>7. /\ k.x \in Int /\ k.y \in Int /\ l.x \in Int /\ l.y \in Int /\ d.x \in Int /\ d.y \in Int
  BY VecType
<1> DEFINE e == vec2(l.x - d.y - (k.x + d.x), l.y + d.x - (k.y + d.y))
<1>8. e \in Vec /\ e.x = l.x - d.y - (k.x + d.x) /\ e.y = l.y + d.x - (k.y + d.y)
  <2>1. l.x - d.y - (k.x + d.x) \in Int /\ l.y + d.x - (k.y + d.y) \in Int
    BY <1>7
  <2> QED
    BY <2>1, PointIs, Zenon
<1> HIDE DEF e
<1>9. b \in SUBSET Vec /\ \A p \in b : p.x \in Int /\ p.y \in Int
  BY VecType DEF HasBounds
<1>10. other = {vec2(l.x - (p.y + d.y), l.y + (p.x + d.x)) : p \in b}
  <2>1. \A x, y : vec2(x, y).x = x /\ vec2(x, y).y = y
    BY DEF vec2
  <2>2. other = {vec2(l.x - add(p, d).y, l.y + add(p, d).x) : p \in b}
    BY <1>6, Zenon DEF cwAt, translate
  <2> QED
    BY <2>1, <2>2 DEF add
<1>11. there = {vec2(k.x - p.y + d.x, k.y + p.x + d.y) : p \in b}
  <2>1. \A x, y : vec2(x, y).x = x /\ vec2(x, y).y = y
    BY DEF vec2
  <2>2. there = {add(vec2(k.x - p.y, k.y + p.x), d) : p \in b}
    BY <1>5, Zenon DEF cwAt, translate
  <2> QED
    BY <2>1, <2>2 DEF add
<1> HIDE DEF moved, cw, other, there
<1>12. other = translate(there, e)
  <2>1. \A p \in b : add(vec2(k.x - p.y + d.x, k.y + p.x + d.y), e) =
                       vec2(l.x - (p.y + d.y), l.y + (p.x + d.x))
    BY <1>7, <1>8, <1>9 DEF add, vec2
  <2> QED
    BY <1>10, <1>11, <2>1 DEF translate
<1>13. other = there
  BY <1>3, <1>4, <1>8, <1>12, SamePlace
<1> QED
  BY <1>13 DEF moved, cw, other, there
-----------------------------------------------------------------------------
(* Division.                                                               *)

LEMMA ModIs ==
  ASSUME NEW a \in Nat, NEW d \in Nat \ {0}
  PROVE  /\ a % d \in 0 .. d - 1 /\ a \div d \in Nat
         /\ a = d * (a \div d) + (a % d)
OBVIOUS

LEMMA Below ==
  ASSUME NEW p \in Nat, NEW q \in Nat, NEW d \in Nat \ {0}, p < q
  PROVE  d * p + d <= d * q
OBVIOUS

LEMMA ModShift ==
  ASSUME NEW a \in Nat, NEW d \in Nat \ {0}, a % d = 0, NEW r \in 0 .. d - 1
  PROVE  (a + r) % d = r
OBVIOUS

LEMMA ModNext ==
  ASSUME NEW a \in Nat, NEW d \in Nat \ {0}, a % d = 0
  PROVE  (a + d) % d = 0
<1> DEFINE q == a \div d
           b == a + d
           n == q + 1
<1>1. q \in Nat /\ a = d * q
  BY ModIs
<1> HIDE DEF q
<1>2. b = d * n /\ n \in Nat
  BY <1>1
<1> HIDE DEF b, n
<1>3. b % d = 0
  BY <1>2
<1> QED
  BY <1>3 DEF b

LEMMA NextMultiple ==
  ASSUME NEW a \in Nat, NEW b \in Nat, NEW d \in Nat \ {0}, a % d = 0, b % d = 0, a < b
  PROVE  a + d <= b
<1> DEFINE p == a \div d
           q == b \div d
<1>1. p \in Nat /\ a = d * p /\ q \in Nat /\ b = d * q
  BY ModIs
<1> HIDE DEF p, q
<1>2. p < q
  <2> SUFFICES ASSUME q <= p PROVE FALSE
    BY <1>1
  <2>1. CASE q = p
    BY <1>1, <2>1
  <2>2. CASE q < p
    <3>1. d * q + d <= d * p
      BY <1>1, <2>2, Below
    <3> QED
      BY <1>1, <3>1
  <2> QED
    BY <1>1, <2>1, <2>2
<1> QED
  BY <1>1, <1>2, Below
-----------------------------------------------------------------------------
(* Recursion over 0 .. n.                                                  *)

LEMMA Induction ==
  ASSUME NEW n \in Nat, NEW T, 0 \in T, \A k \in 1 .. n : k - 1 \in T => k \in T
  PROVE  \A k \in 0 .. n : k \in T
<1> DEFINE Missing == {k \in Nat : k <= n /\ k \notin T}
<1> SUFFICES ASSUME Missing # {} PROVE FALSE
  OBVIOUS
<1>1. PICK m \in Missing : \A k \in Missing : m <= k
  BY NatMinExists
<1>2. m \in 1 .. n /\ m \notin T /\ m - 1 \in Nat
  BY <1>1
<1>3. m - 1 \in T
  BY <1>1, <1>2
<1> QED
  BY <1>2, <1>3

Steps(A, n) == [A \X (1 .. n) -> A]

Recursive(f, A, a, g, n) ==
  /\ f \in [0 .. n -> A] /\ f[0] = a
  /\ \A k \in 1 .. n : f[k] = g[<<f[k - 1], k>>]

LEMMA Recursion ==
  ASSUME NEW n \in Nat, NEW A, NEW a \in A, NEW g \in Steps(A, n)
  PROVE  \E f : Recursive(f, A, a, g, n)
<1> DEFINE Is(f, m) == /\ f \in [0 .. m -> A] /\ f[0] = a
                       /\ \A k \in 1 .. m : f[k] = g[<<f[k - 1], k>>]
           Defined  == {m \in 0 .. n : \E f : Is(f, m)}
<1>1. 0 \in Defined
  <2>1. Is([k \in 0 .. 0 |-> a], 0) /\ 0 \in 0 .. n
    OBVIOUS
  <2> HIDE DEF Is
  <2> QED
    BY <2>1
<1>2. ASSUME NEW m \in 1 .. n, m - 1 \in Defined PROVE m \in Defined
  <2>1. PICK f : Is(f, m - 1)
    BY <1>2
  <2>2. m - 1 \in 0 .. m - 1 /\ m \in 0 .. n
    OBVIOUS
  <2>3. <<f[m - 1], m>> \in A \X (1 .. n)
    BY <2>1, <2>2
  <2> DEFINE next == g[<<f[m - 1], m>>]
             h    == [k \in 0 .. m |-> IF k = m THEN next ELSE f[k]]
  <2>4. next \in A
    BY <2>3 DEF Steps
  <2> HIDE DEF next
  <2>5. h \in [0 .. m -> A] /\ h[0] = a /\ h[m] = next
    <3>1. \A k \in 0 .. m : k # m => k \in 0 .. m - 1
      OBVIOUS
    <3>2. \A k \in 0 .. m : h[k] \in A
      BY <2>1, <2>4, <3>1
    <3>3. 0 \in 0 .. m /\ 0 # m /\ m \in 0 .. m
      OBVIOUS
    <3> QED
      BY <2>1, <3>2, <3>3
  <2>6. ASSUME NEW k \in 1 .. m PROVE h[k] = g[<<h[k - 1], k>>]
    <3>1. k - 1 \in 0 .. m - 1 /\ h[k - 1] = f[k - 1]
      OBVIOUS
    <3>2. CASE k = m
      BY <2>5, <3>1, <3>2 DEF next
    <3>3. CASE k # m
      <4>1. k \in 1 .. m - 1 /\ h[k] = f[k]
        BY <3>3
      <4> QED
        BY <2>1, <3>1, <4>1
    <3> QED
      BY <3>2, <3>3
  <2> HIDE DEF h
  <2> QED
    BY <2>2, <2>5, <2>6
<1> HIDE DEF Defined
<1>3. n \in Defined
  BY <1>1, <1>2, Induction
<1> QED
  BY <1>3 DEF Defined, Recursive
-----------------------------------------------------------------------------
(* Strings and rectangles.                                                 *)

(* The grids of a width and a height whose cells are in S.                 *)
Grids(w, h, S) == [width : {w}, height : {h}, cells : [0 .. w * h - 1 -> S]]

(* The cells of a string.                                                  *)
dyed(s, f, b) == [j \in 1 .. Len(s) |-> [grapheme |-> s[j], foreColor |-> f, backColor |-> b]]

(* The cells of a string are in S.                                         *)
Dyes(s, f, b, S) == \A j \in 1 .. Len(s) : dyed(s, f, b)[j] \in S

(* The cell at index i once the cells of g were written at an index.       *)
painted(cells, at, g, i) == IF i - at \in 0 .. Len(g) - 1 THEN g[i - at + 1] ELSE cells[i]

LEMMA GridIs ==
  ASSUME NEW w \in Nat, NEW h \in Nat, NEW S, NEW v \in Grids(w, h, S)
  PROVE  /\ v.width = w /\ v.height = h /\ v.cells \in [0 .. w * h - 1 -> S]
         /\ w * h \in Nat
BY DEF Grids

LEMMA DyedIs ==
  ASSUME NEW G, NEW s \in Seq(G), NEW f, NEW b
  PROVE  /\ Len(dyed(s, f, b)) = Len(s) /\ Len(s) \in Nat
         /\ \A j \in 1 .. Len(s) :
              dyed(s, f, b)[j] = [grapheme |-> s[j], foreColor |-> f, backColor |-> b]
<1>1. Len(s) \in Nat
  BY LenProperties
<1> DEFINE g == dyed(s, f, b)
           n == Len(s)
<1>2. DOMAIN g = 1 .. n
  BY DEF dyed
<1>3. \E X : g \in Seq(X)
  <2> DEFINE X == {g[j] : j \in 1 .. n}
  <2>1. g \in [1 .. n -> X]
    BY <1>1 DEF dyed
  <2> HIDE DEF X, g
  <2>2. g \in Seq(X)
    BY <1>1, <2>1
  <2> QED
    BY <2>2
<1>4. Len(g) = n
  BY <1>1, <1>2, <1>3, LenProperties
<1> QED
  BY <1>1, <1>4 DEF dyed

(* A grid on which the cells of a string were written at an index.         *)
Written(u, w, h, S, v, at, s, f, b) ==
  /\ u \in Grids(w, h, S)
  /\ \A i \in 0 .. w * h - 1 : u.cells[i] = painted(v.cells, at, dyed(s, f, b), i)

LEMMA StringIs ==
  ASSUME NEW w \in Nat, NEW h \in Nat, NEW S, NEW v \in Grids(w, h, S),
         NEW G, NEW s \in Seq(G), NEW f, NEW b,
         Dyes(s, f, b, S),
         NEW x \in Nat, NEW y \in Nat
  PROVE  Written(string(v, x, y, s, f, b), w, h, S, v, positionToIndex(v, x, y), s, f, b)
<1> DEFINE at  == positionToIndex(v, x, y)
           new == string(v, x, y, s, f, b)
           all == 0 .. w * h - 1
<1>1. v.width = w /\ v.height = h /\ v.cells \in [all -> S] /\ w * h \in Nat
  BY GridIs
<1>2. at \in Nat
  BY <1>1 DEF positionToIndex
<1>3. v = [width |-> w, height |-> h, cells |-> v.cells]
  BY DEF Grids
<1> DEFINE c == [i \in DOMAIN v.cells |->
                   IF i - at \in 0 .. Len(s) - 1
                   THEN [grapheme |-> s[i - at + 1], foreColor |-> f, backColor |-> b]
                   ELSE v.cells[i]]
<1>4. new = [v EXCEPT !.cells = c]
  BY DEF string
<1> HIDE DEF new, at
<1>5. ASSUME NEW i \in all PROVE c[i] = painted(v.cells, at, dyed(s, f, b), i) /\ c[i] \in S
  <2>1. i \in Nat /\ DOMAIN v.cells = all
    BY <1>1
  <2>2. Len(dyed(s, f, b)) = Len(s) /\ Len(s) \in Nat
    BY DyedIs
  <2>3. CASE i - at \in 0 .. Len(s) - 1
    <3>1. i - at + 1 \in 1 .. Len(s)
      BY <1>2, <2>1, <2>2, <2>3
    <3>3. dyed(s, f, b)[i - at + 1] \in S
      BY <3>1 DEF Dyes
    <3>2. dyed(s, f, b)[i - at + 1] =
            [grapheme |-> s[i - at + 1], foreColor |-> f, backColor |-> b]
      BY <3>1, DyedIs
    <3> QED
      BY <2>1, <2>2, <2>3, <3>1, <3>2, <3>3 DEF painted
  <2>4. CASE ~(i - at \in 0 .. Len(s) - 1)
    BY <1>1, <2>1, <2>2, <2>4 DEF painted
  <2> QED
    BY <2>3, <2>4
<1>6. c \in [all -> S]
  <2>1. DOMAIN c = all
    BY <1>1
  <2>2. c = [i \in all |-> c[i]]
    BY <1>1
  <2> HIDE DEF c
  <2> QED
    BY <1>5, <2>2
<1> HIDE DEF c
<1>7. new = [width |-> w, height |-> h, cells |-> c]
  BY <1>3, <1>4
<1> QED
  BY <1>5, <1>6, <1>7 DEF new, at, Grids, Written

(* Where a string goes: a position outside of the grid is its first cell.  *)
LEMMA IndexIs ==
  ASSUME NEW w \in Nat, NEW h \in Nat, NEW S, NEW v \in Grids(w, h, S), NEW x, NEW y
  PROVE  positionToIndex(v, x, y) = IF y * w + x < w * h THEN y * w + x ELSE 0
BY GridIs DEF positionToIndex

LEMMA SameGrid ==
  ASSUME NEW w \in Nat, NEW h \in Nat, NEW S, NEW v \in Grids(w, h, S), NEW u \in Grids(w, h, S),
         \A i \in 0 .. w * h - 1 : u.cells[i] = v.cells[i]
  PROVE  u = v
<1>1. u.cells = v.cells
  BY DEF Grids
<1> QED
  BY <1>1 DEF Grids

(* The copies of a string that lie outside of the grid, and what they make *)
(* of its first cells, in a row of w cells from the index idx on.          *)
outside(idx, n, w, len) == {count \in 0 .. w - 1 : count % len = 0 /\ idx + count >= n}

spill(idx, n, w, len) ==
  Max({0} \cup {Min({len, w - count}) : count \in outside(idx, n, w, len)})

LEMMA LesserIs ==
  ASSUME NEW a \in Int, NEW b \in Int
  PROVE  Min({a, b}) = IF a <= b THEN a ELSE b
<1>1. {a, b} \in SUBSET Int
  OBVIOUS
<1>2. CASE a <= b
  BY <1>1, <1>2, MinIs
<1>3. CASE ~(a <= b)
  BY <1>1, <1>3, MinIs
<1> QED
  BY <1>2, <1>3

LEMMA NoSpill ==
  ASSUME NEW idx, NEW n, NEW c, NEW len, outside(idx, n, c, len) = {}
  PROVE  spill(idx, n, c, len) = 0
<1>1. spill(idx, n, c, len) = Max({0})
  BY DEF spill
<1>2. Max({0}) = 0
  BY MaxIs
<1> QED
  BY <1>1, <1>2

LEMMA SpillBound ==
  ASSUME NEW idx \in Nat, NEW n \in Nat, NEW c \in Nat, NEW len \in Nat \ {0}
  PROVE  spill(idx, n, c, len) \in 0 .. len
<1> DEFINE All == {0} \cup {Min({len, c - count}) : count \in outside(idx, n, c, len)}
<1>1. \A k \in outside(idx, n, c, len) : Min({len, c - k}) \in 0 .. len
  <2> SUFFICES ASSUME NEW k \in outside(idx, n, c, len) PROVE Min({len, c - k}) \in 0 .. len
    OBVIOUS
  <2>1. k \in Nat /\ c - k \in Nat
    BY DEF outside
  <2>2. Min({len, c - k}) = IF len <= c - k THEN len ELSE c - k
    BY <2>1, LesserIs
  <2> QED
    BY <2>1, <2>2
<1>2. 0 \in All /\ All \in SUBSET (0 .. len)
  <2>1. \A z \in All : z = 0 \/ \E k \in outside(idx, n, c, len) : z = Min({len, c - k})
    OBVIOUS
  <2>2. 0 \in All /\ 0 \in 0 .. len
    OBVIOUS
  <2> HIDE DEF All
  <2> QED
    BY <1>1, <2>1, <2>2
<1> HIDE DEF All
<1>3. All \in SUBSET Int /\ len \in Int /\ (\A z \in All : z <= len) /\ All # {}
  BY <1>2
<1>4. PICK m \in All : \A z \in All : z <= m
  BY <1>3, IntMaxExists
<1>5. Max(All) = m
  BY <1>3, <1>4, MaxIs
<1>6. spill(idx, n, c, len) = m
  BY <1>5 DEF spill, All
<1> QED
  BY <1>2, <1>6

Multiple(c, len) == c % len = 0

(* Before the copy at the column c, which ends before w, and after it.     *)
LEMMA SpillIs ==
  ASSUME NEW idx \in Nat, NEW N \in Nat, NEW len \in Nat \ {0},
         NEW c \in Nat, Multiple(c, len), NEW w \in Nat, c < w, w <= c + len
  PROVE  /\ spill(idx, N, c, len) \in {0, len}
         /\ idx + c < N => spill(idx, N, c, len) = 0 /\ spill(idx, N, w, len) = 0
         /\ idx + c >= N => spill(idx, N, w, len) =
                             IF spill(idx, N, c, len) = len THEN len ELSE w - c
<1> DEFINE Out(z)  == outside(idx, N, z, len)
           Part(z) == {Min({len, z - count}) : count \in Out(z)}
<1>1. \A z \in Nat : \A k \in Out(z) :
        k \in Nat /\ k < z /\ k % len = 0 /\ idx + k >= N
  BY DEF outside
<1>2. \A k \in Out(c) : k + len <= c
  BY <1>1, NextMultiple DEF Multiple
<1>3. \A k \in Out(w) : k \in Out(c) \/ k = c
  <2> SUFFICES ASSUME NEW k \in Out(w), k # c PROVE k \in Out(c)
    OBVIOUS
  <2>1. k \in Nat /\ k < w /\ k % len = 0 /\ idx + k >= N /\ w \in Nat
    BY <1>1
  <2>2. ~(c < k)
    <3> SUFFICES ASSUME c < k PROVE FALSE
      OBVIOUS
    <3>1. c + len <= k
      BY <2>1, NextMultiple DEF Multiple
    <3> QED
      BY <2>1, <3>1
  <2>3. k \in 0 .. c - 1
    BY <2>1, <2>2
  <2> QED
    BY <2>1, <2>3 DEF outside
<1>4. Out(c) \subseteq Out(w)
  <2> SUFFICES ASSUME NEW k \in Out(c) PROVE k \in Out(w)
    OBVIOUS
  <2>1. k \in Nat /\ k < c /\ k % len = 0 /\ idx + k >= N
    BY <1>1
  <2>2. k \in 0 .. w - 1
    BY <2>1
  <2> QED
    BY <2>1, <2>2 DEF outside
<1>5. idx + c >= N => c \in Out(w)
  <2>1. c \in 0 .. w - 1
    OBVIOUS
  <2> QED
    BY <2>1 DEF outside, Multiple
<1>6. idx + c < N => Out(w) = {} /\ Out(c) = {}
  <2> SUFFICES ASSUME idx + c < N, NEW k \in Out(w) PROVE FALSE
    BY <1>4
  <2>1. k \in Nat /\ idx + k >= N /\ w \in Nat
    BY <1>1
  <2>2. k < c \/ k = c
    BY <1>1, <1>3
  <2> QED
    BY <2>1, <2>2
<1> HIDE DEF Out
<1>7. \A z \in Nat : Out(z) = {} => spill(idx, N, z, len) = 0
  <2> SUFFICES ASSUME NEW z \in Nat, Out(z) = {} PROVE spill(idx, N, z, len) = 0
    OBVIOUS
  <2>1. {0} \cup Part(z) = {0}
    OBVIOUS
  <2>2. Max({0}) = 0
    BY MaxIs
  <2> QED
    BY <2>1, <2>2 DEF spill, Out
<1>8. \A z \in {c, w} : \A k \in Out(z) :
        Min({len, z - k}) = IF len <= z - k THEN len ELSE z - k
  BY <1>1, LesserIs
<1>9. \A k \in Out(c) : Min({len, c - k}) = len /\ Min({len, w - k}) = len
  BY <1>1, <1>2, <1>4, <1>8
<1>10. c \in Out(w) => Min({len, w - c}) = w - c
  BY <1>8
<1>11. Out(c) # {} => spill(idx, N, c, len) = len
  <2> SUFFICES ASSUME NEW k \in Out(c) PROVE spill(idx, N, c, len) = len
    OBVIOUS
  <2>1. {0} \cup Part(c) = {0, len}
    BY <1>9
  <2>2. Max({0, len}) = len
    BY MaxIs
  <2> QED
    BY <2>1, <2>2 DEF spill, Out
<1>12. Out(c) # {} => spill(idx, N, w, len) = len
  <2> SUFFICES ASSUME NEW k \in Out(c) PROVE spill(idx, N, w, len) = len
    OBVIOUS
  <2>1. len \in Part(w)
    BY <1>4, <1>9
  <2>2. \A z \in Part(w) : z = len \/ z = w - c
    BY <1>3, <1>9, <1>10
  <2> HIDE DEF Part
  <2>3. {0} \cup Part(w) \in SUBSET Int /\ \A z \in {0} \cup Part(w) : z <= len
    BY <2>2
  <2>4. Max({0} \cup Part(w)) = len
    BY <2>1, <2>3, MaxIs
  <2> QED
    BY <2>4 DEF spill, Out, Part
<1>13. Out(c) = {} /\ idx + c >= N => spill(idx, N, w, len) = w - c
  <2> SUFFICES ASSUME Out(c) = {}, idx + c >= N PROVE spill(idx, N, w, len) = w - c
    OBVIOUS
  <2>1. {0} \cup Part(w) = {0, w - c}
    BY <1>3, <1>5, <1>10
  <2>2. Max({0, w - c}) = w - c
    BY MaxIs
  <2> QED
    BY <2>1, <2>2 DEF spill, Out
<1> QED
  BY <1>6, <1>7, <1>11, <1>12, <1>13

(* The first n graphemes of a string.                                      *)
LEMMA FirstIs ==
  ASSUME NEW G, NEW s \in Seq(G), NEW n \in 0 .. Len(s)
  PROVE  /\ SubSeq(s, 1, n) \in Seq(G) /\ Len(SubSeq(s, 1, n)) = n
         /\ \A j \in 1 .. n : SubSeq(s, 1, n)[j] = s[j]
<1>1. Len(s) \in Nat /\ n \in Int /\ 1 \in Int /\ 0 <= n
  BY LenProperties
<1>2. \A i \in 1 .. n : s[i] \in G
  BY <1>1, ElementOfSeq
<1>3. /\ SubSeq(s, 1, n) \in Seq(G)
      /\ Len(SubSeq(s, 1, n)) = IF 1 <= n THEN n - 1 + 1 ELSE 0
      /\ \A i \in 1 .. n - 1 + 1 : SubSeq(s, 1, n)[i] = s[1 + i - 1]
  BY <1>1, <1>2, SubSeqProperties
<1>4. \A j \in 1 .. n : j \in 1 .. n - 1 + 1 /\ 1 + j - 1 = j
  BY <1>1
<1>5. \A j \in 1 .. n : SubSeq(s, 1, n)[j] = s[j]
  BY <1>3, <1>4
<1>6. Len(SubSeq(s, 1, n)) = n
  BY <1>1, <1>3
<1> QED
  BY <1>3, <1>5, <1>6

LEMMA FirstDyed ==
  ASSUME NEW G, NEW s \in Seq(G), NEW f, NEW b, NEW n \in 0 .. Len(s)
  PROVE  /\ SubSeq(s, 1, n) \in Seq(G)
         /\ Len(dyed(SubSeq(s, 1, n), f, b)) = n
         /\ \A j \in 1 .. n : dyed(SubSeq(s, 1, n), f, b)[j] = dyed(s, f, b)[j]
<1>1. Len(s) \in Nat /\ \A j \in 1 .. n : j \in 1 .. Len(s)
  BY LenProperties
<1> DEFINE t == SubSeq(s, 1, n)
<1>2. t \in Seq(G) /\ Len(t) = n /\ \A j \in 1 .. n : t[j] = s[j]
  BY FirstIs
<1> HIDE DEF t
<1>3. /\ Len(dyed(t, f, b)) = n
      /\ \A j \in 1 .. n : dyed(t, f, b)[j] = [grapheme |-> t[j], foreColor |-> f, backColor |-> b]
  BY <1>2, DyedIs
<1>4. \A j \in 1 .. n : dyed(s, f, b)[j] = [grapheme |-> s[j], foreColor |-> f, backColor |-> b]
  BY <1>1, DyedIs
<1>5. \A j \in 1 .. n : dyed(t, f, b)[j] = dyed(s, f, b)[j]
  BY <1>2, <1>3, <1>4
<1> QED
  BY <1>2, <1>3, <1>5 DEF t

(* The cell at index i once a row of c columns was drawn at idx.           *)
banded(cells, idx, n, c, g, spilled, i) ==
  IF i < spilled THEN g[i + 1]
  ELSE IF idx < n /\ i - idx \in 0 .. c - 1 THEN g[((i - idx) % Len(g)) + 1]
  ELSE cells[i]

(* A grid on which that row was drawn.                                     *)
RowIs(u, w, h, S, v, x, y, c, s, f, b) ==
  /\ u \in Grids(w, h, S)
  /\ \A i \in 0 .. w * h - 1 :
       u.cells[i] = banded(v.cells, y * w + x, w * h, c, dyed(s, f, b),
                           spill(y * w + x, w * h, c, Len(s)), i)

LEMMA RectColumnsIs ==
  ASSUME NEW w \in Nat, NEW h \in Nat, NEW S, NEW v \in Grids(w, h, S),
         NEW G, NEW s \in Seq(G), s # <<>>, NEW f, NEW b,
         Dyes(s, f, b, S),
         NEW x \in Nat, NEW y \in Nat, NEW c \in Nat
  PROVE  RowIs(rectColumns(v, x, y, c, s, f, b), w, h, S, v, x, y, c, s, f, b)
<1> DEFINE len == Len(s)
           idx == y * w + x
           n   == w * h
           g   == dyed(s, f, b)
           spilled  == spill(idx, n, c, len)
           repeated == [j \in 1 .. c |-> s[((j - 1) % len) + 1]]
           inside   == IF idx < n THEN string(v, x, y, repeated, f, b) ELSE v
           last     == string(inside, 0, 0, SubSeq(s, 1, spilled), f, b)
<1>1. len \in Nat \ {0} /\ idx \in Nat /\ n \in Nat
  BY EmptySeq, LenProperties
<1>2. spilled \in 0 .. len
  <2> HIDE DEF idx, n, len
  <2> QED
    BY <1>1, SpillBound
<1>3. rectColumns(v, x, y, c, s, f, b) = last
  <2>1. v.width = w /\ v.height = h
    BY GridIs
  <2> QED
    BY <2>1 DEF rectColumns, spill, outside
<1>4. Len(g) = len /\ \A j \in 1 .. len : g[j] \in S
  BY DyedIs DEF Dyes
<1>5. /\ repeated \in Seq(G) /\ Len(repeated) = c
      /\ \A j \in 1 .. c : dyed(repeated, f, b)[j] = g[((j - 1) % len) + 1] /\ ((j - 1) % len) + 1 \in 1 .. len
  <2>1. \A j \in 1 .. c : ((j - 1) % len) + 1 \in 1 .. len
    <3> SUFFICES ASSUME NEW j \in 1 .. c PROVE ((j - 1) % len) + 1 \in 1 .. len
      OBVIOUS
    <3>1. j - 1 \in Nat
      OBVIOUS
    <3> HIDE DEF len
    <3>2. (j - 1) % len \in 0 .. len - 1
      BY <1>1, <3>1, ModIs
    <3> QED
      BY <1>1, <3>2
  <2>2. \A j \in 1 .. len : s[j] \in G
    BY ElementOfSeq
  <2>3. repeated \in [1 .. c -> G]
    BY <2>1, <2>2
  <2>4. repeated \in Seq(G) /\ Len(repeated) = c
    BY <2>3
  <2>5. \A j \in 1 .. c : repeated[j] = s[((j - 1) % len) + 1]
    OBVIOUS
  <2> HIDE DEF repeated
  <2>6. \A j \in 1 .. c : dyed(repeated, f, b)[j] =
                            [grapheme |-> repeated[j], foreColor |-> f, backColor |-> b]
    BY <2>4, DyedIs
  <2>7. \A j \in 1 .. len : g[j] = [grapheme |-> s[j], foreColor |-> f, backColor |-> b]
    BY DyedIs
  <2> HIDE DEF g, len
  <2>8. \A j \in 1 .. c : dyed(repeated, f, b)[j] = g[((j - 1) % len) + 1]
    BY <2>1, <2>5, <2>6, <2>7
  <2> QED
    BY <2>1, <2>4, <2>8
<1> HIDE DEF repeated
<1>6. /\ inside \in Grids(w, h, S)
      /\ \A i \in 0 .. n - 1 :
           inside.cells[i] = IF idx < n /\ i - idx \in 0 .. c - 1
                             THEN g[((i - idx) % len) + 1] ELSE v.cells[i]
  <2>1. CASE idx < n
    <3>1. positionToIndex(v, x, y) = idx
      BY <2>1, IndexIs
    <3>2. Dyes(repeated, f, b, S)
      BY <1>4, <1>5 DEF Dyes
    <3> DEFINE drawn == string(v, x, y, repeated, f, b)
    <3>3. /\ drawn \in Grids(w, h, S)
          /\ \A i \in 0 .. w * h - 1 :
               drawn.cells[i] = painted(v.cells, positionToIndex(v, x, y), dyed(repeated, f, b), i)
      <4>1. Written(drawn, w, h, S, v, positionToIndex(v, x, y), repeated, f, b)
        BY <1>5, <3>2, StringIs
      <4> QED
        BY <4>1 DEF Written
    <3> HIDE DEF drawn
    <3>4. /\ inside \in Grids(w, h, S)
          /\ \A i \in 0 .. n - 1 : inside.cells[i] = painted(v.cells, idx, dyed(repeated, f, b), i)
      BY <2>1, <3>1, <3>3 DEF drawn
    <3>5. Len(dyed(repeated, f, b)) = c
      BY <1>5, DyedIs
    <3> HIDE DEF inside, g, idx, n, len
    <3>6. ASSUME NEW i \in 0 .. n - 1, i - idx \in 0 .. c - 1
          PROVE  dyed(repeated, f, b)[i - idx + 1] = g[((i - idx) % len) + 1]
      <4>1. i - idx + 1 \in 1 .. c /\ (i - idx + 1) - 1 = i - idx
        BY <1>1, <3>6
      <4> QED
        BY <1>5, <4>1
    <3> QED
      BY <2>1, <3>4, <3>5, <3>6 DEF painted
  <2>2. CASE ~(idx < n)
    BY <2>2
  <2> QED
    BY <2>1, <2>2
<1> HIDE DEF inside
<1>7. /\ last \in Grids(w, h, S)
      /\ \A i \in 0 .. n - 1 :
           last.cells[i] = painted(inside.cells, 0, dyed(SubSeq(s, 1, spilled), f, b), i)
  <2>1. positionToIndex(inside, 0, 0) = 0
    <3>1. 0 * w + 0 = 0
      OBVIOUS
    <3> HIDE DEF inside
    <3>2. positionToIndex(inside, 0, 0) = IF 0 * w + 0 < w * h THEN 0 * w + 0 ELSE 0
      BY <1>6, IndexIs
    <3> QED
      BY <3>1, <3>2
  <2>2. /\ SubSeq(s, 1, spilled) \in Seq(G) /\ Len(dyed(SubSeq(s, 1, spilled), f, b)) = spilled
        /\ \A j \in 1 .. spilled : dyed(SubSeq(s, 1, spilled), f, b)[j] = g[j]
    BY <1>2, FirstDyed
  <2> DEFINE first == SubSeq(s, 1, spilled)
  <2>3. Dyes(first, f, b, S)
    <3>1. Len(first) = spilled /\ \A j \in 1 .. spilled : j \in 1 .. len
      BY <1>2, FirstIs, LenProperties
    <3> QED
      BY <1>4, <2>2, <3>1 DEF Dyes
  <2> HIDE DEF first
  <2>4. first \in Seq(G) /\ 0 \in Nat
    BY <2>2 DEF first
  <2> HIDE DEF inside
  <2>5. /\ string(inside, 0, 0, first, f, b) \in Grids(w, h, S)
        /\ \A i \in 0 .. w * h - 1 :
             string(inside, 0, 0, first, f, b).cells[i] =
               painted(inside.cells, positionToIndex(inside, 0, 0), dyed(first, f, b), i)
    <3>1. Written(string(inside, 0, 0, first, f, b), w, h, S, inside,
                  positionToIndex(inside, 0, 0), first, f, b)
      BY <1>6, <2>3, <2>4, StringIs
    <3> QED
      BY <3>1 DEF Written
  <2> QED
    BY <2>1, <2>5 DEF first
<1>8. ASSUME NEW i \in 0 .. n - 1
      PROVE  last.cells[i] = banded(v.cells, idx, n, c, g, spilled, i)
  <2>1. /\ Len(dyed(SubSeq(s, 1, spilled), f, b)) = spilled
        /\ \A j \in 1 .. spilled : dyed(SubSeq(s, 1, spilled), f, b)[j] = g[j]
    BY <1>2, FirstDyed
  <2>2. spilled \in Nat /\ i \in Nat
    BY <1>2, <1>1
  <2> HIDE DEF last, spilled, g, idx, n, len
  <2>3. CASE i < spilled
    <3>1. i - 0 \in 0 .. spilled - 1 /\ i - 0 + 1 = i + 1 /\ i + 1 \in 1 .. spilled
      BY <2>2, <2>3
    <3> QED
      BY <1>7, <2>1, <2>3, <3>1 DEF painted, banded
  <2>4. CASE ~(i < spilled)
    <3>1. ~(i - 0 \in 0 .. spilled - 1)
      BY <2>2, <2>4
    <3> QED
      BY <1>4, <1>6, <1>7, <2>1, <2>4, <3>1 DEF painted, banded
  <2> QED
    BY <2>3, <2>4
<1> QED
  BY <1>3, <1>7, <1>8 DEF RowIs

(* One row more of a rectangle.                                            *)
nextRow(w, h, S, r, s, f, b) ==
  [p \in Grids(w, h, S) \X (1 .. r.h) |->
     rectColumns(p[1], r.x, r.y + p[2] - 1, r.w, s, f, b)]

Drawable == [x : Nat, y : Nat, w : Nat, h : Nat]

LEMMA NextRow ==
  ASSUME NEW w \in Nat, NEW h \in Nat, NEW S, NEW G, NEW s \in Seq(G), s # <<>>,
         NEW f, NEW b, Dyes(s, f, b, S), NEW r \in Drawable,
         NEW v \in Grids(w, h, S), NEW k \in 1 .. r.h
  PROVE  /\ r.y + k - 1 \in Nat
         /\ nextRow(w, h, S, r, s, f, b)[<<v, k>>] =
              rectColumns(v, r.x, r.y + k - 1, r.w, s, f, b)
         /\ nextRow(w, h, S, r, s, f, b)[<<v, k>>] \in Grids(w, h, S)
<1>1. <<v, k>> \in Grids(w, h, S) \X (1 .. r.h) /\ r.x \in Nat /\ r.w \in Nat /\ r.y \in Nat
      /\ r.y + k - 1 \in Nat
  BY DEF Drawable
<1>2. nextRow(w, h, S, r, s, f, b)[<<v, k>>] = rectColumns(v, r.x, r.y + k - 1, r.w, s, f, b)
  BY <1>1 DEF nextRow
<1>3. rectColumns(v, r.x, r.y + k - 1, r.w, s, f, b) \in Grids(w, h, S)
  <2> DEFINE y == r.y + k - 1
  <2>1. y \in Nat
    BY <1>1
  <2> HIDE DEF y
  <2>2. RowIs(rectColumns(v, r.x, y, r.w, s, f, b), w, h, S, v, r.x, y, r.w, s, f, b)
    BY <1>1, <2>1, RectColumnsIs
  <2> QED
    BY <2>2 DEF y, RowIs
<1> QED
  BY <1>1, <1>2, <1>3

(* What a rectangle is, drawn row by row.                                  *)
LEMMA RowsAre ==
  ASSUME NEW w \in Nat, NEW h \in Nat, NEW S, NEW v \in Grids(w, h, S),
         NEW G, NEW s \in Seq(G), s # <<>>, NEW f, NEW b, Dyes(s, f, b, S), NEW r \in Drawable
  PROVE  \E rows :
           /\ Recursive(rows, Grids(w, h, S), v, nextRow(w, h, S, r, s, f, b), r.h)
           /\ rect(v, r, s, f, b) = rows[r.h]
<1> DEFINE A == Grids(w, h, S)
           g == nextRow(w, h, S, r, s, f, b)
           Is(q) == q = [k \in 0 .. r.h |->
                           IF k = 0 THEN v
                           ELSE rectColumns(q[k - 1], r.x, r.y + k - 1, r.w, s, f, b)]
<1>1. r.h \in Nat /\ r.w \in Nat /\ r.x \in Nat
  BY DEF Drawable
<1>2. g \in Steps(A, r.h)
  <2>1. \A u \in A, k \in 1 .. r.h : g[<<u, k>>] \in A
    BY NextRow
  <2>2. g = [p \in A \X (1 .. r.h) |-> g[p]]
    BY DEF nextRow
  <2>3. \A p \in A \X (1 .. r.h) : p = <<p[1], p[2]>> /\ p[1] \in A /\ p[2] \in 1 .. r.h
    OBVIOUS
  <2> HIDE DEF g, A
  <2>4. \A p \in A \X (1 .. r.h) : g[p] \in A
    BY <2>1, <2>3
  <2> QED
    BY <2>2, <2>4 DEF Steps
<1>3. PICK rows : Recursive(rows, A, v, g, r.h)
  <2>1. v \in A
    OBVIOUS
  <2> HIDE DEF A, g
  <2> QED
    BY <1>1, <1>2, <2>1, Recursion
<1>4. /\ rows \in [0 .. r.h -> A] /\ rows[0] = v
      /\ \A k \in 1 .. r.h : rows[k] = g[<<rows[k - 1], k>>]
  BY <1>3 DEF Recursive
<1>5. ASSUME NEW u \in A, NEW k \in 1 .. r.h
      PROVE  g[<<u, k>>] = rectColumns(u, r.x, r.y + k - 1, r.w, s, f, b)
  BY NextRow
<1> HIDE DEF A, g
<1>6. Is(rows)
  <2>1. rows = [k \in 0 .. r.h |-> rows[k]]
    BY <1>4
  <2>2. ASSUME NEW k \in 1 .. r.h
        PROVE  rows[k] = rectColumns(rows[k - 1], r.x, r.y + k - 1, r.w, s, f, b)
    <3>1. k - 1 \in 0 .. r.h
      BY <1>1
    <3>2. rows[k - 1] \in A
      BY <1>4, <3>1
    <3> QED
      BY <1>4, <1>5, <3>1, <3>2
  <2>3. \A k \in 0 .. r.h : k # 0 => k \in 1 .. r.h
    BY <1>1
  <2> QED
    BY <1>4, <2>1, <2>2, <2>3
<1>7. ASSUME NEW q, Is(q) PROVE q[r.h] = rows[r.h]
  <2> DEFINE T == {k \in 0 .. r.h : q[k] = rows[k]}
  <2>1. 0 \in T
    <3>1. 0 \in 0 .. r.h
      BY <1>1
    <3> QED
      BY <1>4, <1>7, <3>1
  <2>2. \A k \in 1 .. r.h : k - 1 \in T => k \in T
    <3> SUFFICES ASSUME NEW k \in 1 .. r.h, k - 1 \in T PROVE k \in T
      OBVIOUS
    <3>1. k \in 0 .. r.h /\ k # 0 /\ k - 1 \in 0 .. r.h /\ q[k - 1] = rows[k - 1]
      BY <1>1
    <3>2. rows[k - 1] \in A /\ rows[k] = g[<<rows[k - 1], k>>]
      BY <1>4, <3>1
    <3>3. q[k] = rectColumns(q[k - 1], r.x, r.y + k - 1, r.w, s, f, b)
      BY <1>7, <3>1
    <3>4. q[k] = rows[k]
      BY <1>5, <3>1, <3>2, <3>3
    <3> QED
      BY <3>1, <3>4
  <2> HIDE DEF T
  <2>3. \A k \in 0 .. r.h : k \in T
    BY <1>1, <2>1, <2>2, Induction
  <2>4. r.h \in 0 .. r.h
    BY <1>1
  <2> QED
    BY <2>3, <2>4 DEF T
<1>8. rect(v, r, s, f, b) = rows[r.h]
  <2>1. rect(v, r, s, f, b) = (CHOOSE q : Is(q))[r.h]
    BY DEF rect
  <2> HIDE DEF Is
  <2>2. Is(CHOOSE q : Is(q))
    BY <1>6
  <2> QED
    BY <1>7, <2>1, <2>2
<1> QED
  BY <1>3, <1>8 DEF A, g

(* Cells of the same grid: their rows do not overlap.                      *)
LEMMA RowsApart ==
  ASSUME NEW w \in Nat, NEW a \in Nat, NEW b \in Nat, a < b
  PROVE  a * w + w <= b * w
<1>1. w * a + w <= w * b \/ w = 0
  BY Below
<1>2. w * a = a * w /\ w * b = b * w
  OBVIOUS
<1>3. w = 0 => a * w = 0 /\ b * w = 0
  OBVIOUS
<1> DEFINE p == a * w
           q == b * w
<1>4. p \in Int /\ q \in Int /\ (p + w <= q \/ w = 0) /\ (w = 0 => p = 0 /\ q = 0)
  BY <1>1, <1>2, <1>3
<1> HIDE DEF p, q
<1>5. p + w <= q
  BY <1>4
<1> QED
  BY <1>5 DEF p, q

LEMMA CellIndex ==
  ASSUME NEW w \in Nat, NEW h \in Nat, NEW x \in 0 .. w - 1, NEW y \in 0 .. h - 1
  PROVE  y * w + x \in 0 .. w * h - 1
<1>1. y * w + w <= h * w
  BY RowsApart
<1>2. h * w = w * h /\ w * h \in Nat /\ y * w \in Nat
  OBVIOUS
<1> DEFINE p == y * w
           q == h * w
           n == w * h
<1>3. p \in Nat /\ q = n /\ n \in Nat /\ p + w <= q
  BY <1>1, <1>2
<1> HIDE DEF p, q, n
<1>4. p + x \in 0 .. n - 1
  BY <1>3
<1> QED
  BY <1>4 DEF p, n

LEMMA SameRow ==
  ASSUME NEW w \in Nat, NEW x \in 0 .. w - 1, NEW y \in Nat,
         NEW x0 \in Nat, NEW y0 \in Nat, NEW c \in Nat, x0 + c <= w
  PROVE  (y * w + x) - (y0 * w + x0) \in 0 .. c - 1 <=> (y = y0 /\ x \in x0 .. x0 + c - 1)
<1>1. y < y0 => y * w + w <= y0 * w
  BY RowsApart
<1>2. y0 < y => y0 * w + w <= y * w
  BY RowsApart
<1> DEFINE p == y * w
           q == y0 * w
<1>3. /\ p \in Nat /\ q \in Nat /\ (y = y0 => p = q)
      /\ y < y0 => p + w <= q
      /\ y0 < y => q + w <= p
  BY <1>1, <1>2
<1> HIDE DEF p, q
<1>4. (p + x) - (q + x0) \in 0 .. c - 1 <=> (y = y0 /\ x \in x0 .. x0 + c - 1)
  <2>1. CASE y = y0
    BY <1>3, <2>1
  <2>2. CASE y < y0
    BY <1>3, <2>2
  <2>3. CASE y0 < y
    BY <1>3, <2>3
  <2> QED
    BY <2>1, <2>2, <2>3
<1> QED
  BY <1>4 DEF p, q

(* A row that fits in the grid changes its own cells.                      *)
RowMarked(u, v, w, h, x0, y0, c, b) ==
  \A x \in 0 .. w - 1, y \in 0 .. h - 1 :
    /\ y = y0 /\ x \in x0 .. x0 + c - 1 => cellAt(u, x, y).backColor = b
    /\ ~(y = y0 /\ x \in x0 .. x0 + c - 1) => cellAt(u, x, y) = cellAt(v, x, y)

LEMMA RowExact ==
  ASSUME NEW w \in Nat, NEW h \in Nat, NEW S, NEW v \in Grids(w, h, S),
         NEW G, NEW s \in Seq(G), s # <<>>, NEW f, NEW b,
         NEW x0 \in Nat, NEW y0 \in 0 .. h - 1, NEW c \in Nat, x0 + c <= w,
         NEW u, RowIs(u, w, h, S, v, x0, y0, c, s, f, b)
  PROVE  RowMarked(u, v, w, h, x0, y0, c, b)
<1> SUFFICES ASSUME NEW x \in 0 .. w - 1, NEW y \in 0 .. h - 1
             PROVE  /\ y = y0 /\ x \in x0 .. x0 + c - 1 => cellAt(u, x, y).backColor = b
                    /\ ~(y = y0 /\ x \in x0 .. x0 + c - 1) => cellAt(u, x, y) = cellAt(v, x, y)
  BY DEF RowMarked
<1> DEFINE len == Len(s)
           idx == y0 * w + x0
           n   == w * h
           i   == y * w + x
           g   == dyed(s, f, b)
<1>1. len \in Nat \ {0} /\ idx \in Nat /\ n \in Nat /\ i \in 0 .. n - 1
  BY EmptySeq, CellIndex
<1>2. i - idx \in 0 .. c - 1 <=> (y = y0 /\ x \in x0 .. x0 + c - 1)
  BY SameRow
<1>3. idx + c <= n
  <2>1. y0 * w + w <= h * w
    BY RowsApart
  <2>2. h * w = w * h /\ y0 * w \in Nat
    OBVIOUS
  <2> DEFINE p == y0 * w
             q == h * w
  <2>3. q = n /\ p + w <= q /\ p \in Nat /\ idx = p + x0
    BY <2>1, <2>2
  <2> HIDE DEF p, q, n, idx
  <2> QED
    BY <1>1, <2>3
<1>4. spill(idx, n, c, len) = 0
  <2> HIDE DEF idx, n, len
  <2>1. outside(idx, n, c, len) = {}
    BY <1>1, <1>3 DEF outside
  <2> QED
    BY <2>1, NoSpill
<1>5. u \in Grids(w, h, S) /\ u.cells[i] = banded(v.cells, idx, n, c, g, 0, i)
  <2>1. u \in Grids(w, h, S) /\ \A z \in 0 .. n - 1 : u.cells[z] = banded(v.cells, idx, n, c, g, spill(idx, n, c, len), z)
    BY DEF RowIs
  <2> HIDE DEF i, idx, n, len, g
  <2> QED
    BY <1>1, <1>4, <2>1
<1>6. cellAt(u, x, y) = u.cells[i] /\ cellAt(v, x, y) = v.cells[i]
  <2>1. u.width = w /\ v.width = w
    BY <1>5 DEF Grids
  <2> QED
    BY <2>1 DEF cellAt
<1>7. Len(g) = len /\ \A j \in 1 .. len : g[j].backColor = b
  <2>1. /\ Len(g) = len
        /\ \A j \in 1 .. len : g[j] = [grapheme |-> s[j], foreColor |-> f, backColor |-> b]
    BY DyedIs
  <2> HIDE DEF g, len
  <2> QED
    BY <2>1
<1> HIDE DEF i, idx, n, len, g
<1>8. CASE i - idx \in 0 .. c - 1
  <2>1. idx < n /\ ~(i < 0) /\ i - idx \in Nat
    BY <1>1, <1>3, <1>8
  <2>2. ((i - idx) % len) + 1 \in 1 .. len
    <3> DEFINE k == i - idx
    <3>1. k \in Nat
      BY <2>1
    <3> HIDE DEF k
    <3>2. k % len \in 0 .. len - 1
      BY <1>1, <3>1, ModIs
    <3>3. (k % len) + 1 \in 1 .. len
      BY <1>1, <3>2
    <3> QED
      BY <3>3 DEF k
  <2>3. u.cells[i].backColor = b
    BY <1>5, <1>7, <1>8, <2>1, <2>2 DEF banded
  <2> QED
    BY <1>2, <1>6, <1>8, <2>3
<1>9. CASE ~(i - idx \in 0 .. c - 1)
  <2>1. ~(i < 0)
    BY <1>1
  <2>2. u.cells[i] = v.cells[i]
    BY <1>5, <1>9, <2>1 DEF banded
  <2> QED
    BY <1>2, <1>6, <1>9, <2>2
<1> QED
  BY <1>8, <1>9

(* A rectangle that fits in the grid changes its own cells and no others.  *)
LEMMA RectIs ==
  ASSUME NEW w \in Nat, NEW h \in Nat, NEW S, NEW v \in Grids(w, h, S),
         NEW G, NEW s \in Seq(G), s # <<>>, NEW f, NEW b, Dyes(s, f, b, S), NEW r \in Drawable,
         r.x + r.w <= w, r.y + r.h <= h,
         NEW x \in 0 .. w - 1, NEW y \in 0 .. h - 1
  PROVE  IF x \in r.x .. r.x + r.w - 1 /\ y \in r.y .. r.y + r.h - 1
         THEN cellAt(rect(v, r, s, f, b), x, y).backColor = b
         ELSE cellAt(rect(v, r, s, f, b), x, y) = cellAt(v, x, y)
<1> DEFINE A == Grids(w, h, S)
           g == nextRow(w, h, S, r, s, f, b)
           wide == x \in r.x .. r.x + r.w - 1
           Exact(u, k) == IF wide /\ y \in r.y .. r.y + k - 1
                          THEN cellAt(u, x, y).backColor = b
                          ELSE cellAt(u, x, y) = cellAt(v, x, y)
<1>1. r.x \in Nat /\ r.y \in Nat /\ r.w \in Nat /\ r.h \in Nat
  BY DEF Drawable
<1>2. PICK rows : Recursive(rows, A, v, g, r.h) /\ rect(v, r, s, f, b) = rows[r.h]
  BY RowsAre
<1>3. /\ rows \in [0 .. r.h -> A] /\ rows[0] = v
      /\ \A k \in 1 .. r.h : rows[k] = g[<<rows[k - 1], k>>]
  BY <1>2 DEF Recursive
<1> DEFINE T == {k \in 0 .. r.h : Exact(rows[k], k)}
<1>4. 0 \in T
  <2>1. ~(y \in r.y .. r.y + 0 - 1) /\ 0 \in 0 .. r.h
    BY <1>1
  <2> QED
    BY <1>3, <2>1
<1>5. \A k \in 1 .. r.h : k - 1 \in T => k \in T
  <2> SUFFICES ASSUME NEW k \in 1 .. r.h, k - 1 \in T PROVE k \in T
    OBVIOUS
  <2> DEFINE last == r.y + k - 1
             u    == rows[k - 1]
             next == rectColumns(u, r.x, last, r.w, s, f, b)
  <2>1. Exact(u, k - 1)
    OBVIOUS
  <2> HIDE DEF T, Exact
  <2>2. k - 1 \in 0 .. r.h /\ k \in 0 .. r.h /\ last \in 0 .. h - 1 /\ last \in Nat
    <3>1. /\ k \in Nat /\ 1 <= k /\ k <= r.h /\ r.y \in Nat /\ r.h \in Nat
          /\ r.y + r.h <= h /\ h \in Nat
      BY <1>1
    <3> QED
      BY <3>1
  <2>3. u \in A
    BY <1>3, <2>2
  <2>4. rows[k] = next
    <3>1. g[<<u, k>>] = next
      BY <2>3, NextRow
    <3> HIDE DEF next, g
    <3> QED
      BY <1>3, <3>1
  <2>5. RowIs(next, w, h, S, u, r.x, last, r.w, s, f, b)
    <3> HIDE DEF last, u
    <3> QED
      BY <1>1, <2>2, <2>3, RectColumnsIs
  <2>6. /\ y = last /\ wide => cellAt(next, x, y).backColor = b
        /\ ~(y = last /\ wide) => cellAt(next, x, y) = cellAt(u, x, y)
    <3> HIDE DEF last, u, next
    <3>1. r.x \in Nat /\ r.w \in Nat /\ r.x + r.w <= w /\ last \in 0 .. h - 1 /\ u \in Grids(w, h, S)
      BY <1>1, <2>2, <2>3
    <3>2. RowMarked(next, u, w, h, r.x, last, r.w, b)
      BY <2>5, <3>1, RowExact
    <3> QED
      BY <3>2 DEF RowMarked
  <2>7. /\ y \in r.y .. r.y + k - 1 <=> y = last \/ y \in r.y .. r.y + (k - 1) - 1
        /\ y = last => ~(y \in r.y .. r.y + (k - 1) - 1)
    <3>1. y \in Int /\ k \in Nat \ {0} /\ r.y \in Int
      BY <1>1
    <3> QED
      BY <3>1
  <2>8. Exact(next, k)
    <3> HIDE DEF last, u, next, wide
    <3> QED
      BY <2>1, <2>6, <2>7 DEF Exact
  <2> HIDE DEF next
  <2> QED
    BY <2>2, <2>4, <2>8 DEF T
<1> HIDE DEF T
<1>6. \A k \in 0 .. r.h : k \in T
  BY <1>1, <1>4, <1>5, Induction
<1>7. Exact(rows[r.h], r.h)
  <2>1. r.h \in 0 .. r.h
    BY <1>1
  <2> QED
    BY <1>6, <2>1 DEF T
<1> QED
  BY <1>2, <1>7
-----------------------------------------------------------------------------
(* Induction and recursion over the subsets of a finite set, one element   *)
(* less at a time.                                                         *)

LEMMA SetInduction ==
  ASSUME NEW T, IsFiniteSet(T), NEW Q, {} \in Q,
         \A s \in SUBSET T : s # {} => \E x \in s : s \ {x} \in Q => s \in Q
  PROVE  \A s \in SUBSET T : s \in Q
<1> DEFINE Missing == {s \in SUBSET T : s \notin Q}
           Sizes   == {Cardinality(s) : s \in Missing}
<1> SUFFICES ASSUME Missing # {} PROVE FALSE
  OBVIOUS
<1>1. \A s \in SUBSET T : IsFiniteSet(s) /\ Cardinality(s) \in Nat
  BY FS_Subset, FS_CardinalityType
<1>2. Sizes \in SUBSET Nat /\ Sizes # {}
  BY <1>1
<1> HIDE DEF Sizes
<1>3. PICK n \in Sizes : \A k \in Sizes : n <= k
  BY <1>2, NatMinExists
<1>4. PICK s \in Missing : n = Cardinality(s)
  BY <1>3 DEF Sizes
<1>5. PICK x \in s : s \ {x} \in Q => s \in Q
  BY <1>4
<1>6. s \ {x} \in Missing /\ IsFiniteSet(s)
  BY <1>1, <1>4, <1>5
<1>7. Cardinality(s \ {x}) = n - 1 /\ n \in Nat
  BY <1>1, <1>4, <1>5, <1>6, FS_RemoveElement
<1>8. Cardinality(s \ {x}) \in Sizes
  BY <1>6 DEF Sizes
<1> QED
  BY <1>3, <1>7, <1>8

(* pick takes an element of every subset.                                  *)
Picks(pick, T) == \A s \in SUBSET T : s # {} => pick[s] \in s

Rest(pick, s) == s \ {pick[s]}

SetRecursive(f, T, A, a, g, pick) ==
  /\ f \in [SUBSET T -> A] /\ f[{}] = a
  /\ \A s \in SUBSET T : s # {} => f[s] = g[<<pick[s], f[Rest(pick, s)]>>]

LEMMA RestIs ==
  ASSUME NEW T, IsFiniteSet(T), NEW pick, Picks(pick, T), NEW s \in SUBSET T, s # {}
  PROVE  /\ Rest(pick, s) \in SUBSET T /\ pick[s] \in s /\ pick[s] \in T
         /\ Cardinality(Rest(pick, s)) = Cardinality(s) - 1
         /\ Cardinality(s) \in Nat \ {0}
<1>1. IsFiniteSet(s) /\ Cardinality(s) \in Nat
  BY FS_Subset, FS_CardinalityType
<1>2. pick[s] \in s
  BY DEF Picks
<1>3. Cardinality(Rest(pick, s)) = Cardinality(s) - 1 /\ Cardinality(s) # 0
  BY <1>1, <1>2, FS_RemoveElement, FS_EmptySet DEF Rest
<1> QED
  BY <1>1, <1>2, <1>3 DEF Rest

LEMMA SetRecursion ==
  ASSUME NEW T, IsFiniteSet(T), NEW A, NEW a \in A, NEW g \in [T \X A -> A],
         NEW pick, Picks(pick, T)
  PROVE  \E f : SetRecursive(f, T, A, a, g, pick)
<1> DEFINE n == Cardinality(T)
           Small(m) == {s \in SUBSET T : Cardinality(s) <= m}
           next(f, s) == IF s = {} THEN a ELSE g[<<pick[s], f[Rest(pick, s)]>>]
           Is(f, m) == f \in [Small(m) -> A] /\ \A s \in Small(m) : f[s] = next(f, s)
           Defined  == {m \in Nat : \E f : Is(f, m)}
<1>1. n \in Nat /\ \A s \in SUBSET T : Cardinality(s) \in Nat /\ Cardinality(s) <= n
  BY FS_Subset, FS_CardinalityType
<1>2. 0 \in Defined
  <2>1. \A s \in Small(0) : s = {}
    BY RestIs
  <2> DEFINE f == [s \in Small(0) |-> a]
  <2>2. Is(f, 0)
    BY <2>1
  <2> HIDE DEF Is, f
  <2> QED
    BY <2>2
<1>3. ASSUME NEW m \in 1 .. n, m - 1 \in Defined PROVE m \in Defined
  <2>1. PICK f : Is(f, m - 1)
    BY <1>3
  <2>2. m \in Nat /\ m - 1 \in Nat
    BY <1>1
  <2> DEFINE h == [s \in Small(m) |-> next(f, s)]
  <2>3. ASSUME NEW s \in Small(m), s # {}
        PROVE  Rest(pick, s) \in Small(m - 1) /\ pick[s] \in T
    <3>1. /\ Rest(pick, s) \in SUBSET T /\ pick[s] \in T
          /\ Cardinality(Rest(pick, s)) = Cardinality(s) - 1
          /\ Cardinality(s) \in Nat /\ Cardinality(s) <= m
      BY <2>3, RestIs
    <3> QED
      BY <2>2, <3>1
  <2>4. \A s \in Small(m - 1) : s \in Small(m)
    BY <1>1, <2>2
  <2>5. ASSUME NEW s \in Small(m) PROVE next(f, s) \in A
    <3>1. CASE s = {}
      BY <3>1
    <3>2. CASE s # {}
      <4>1. <<pick[s], f[Rest(pick, s)]>> \in T \X A
        BY <2>1, <2>3, <3>2
      <4> QED
        BY <3>2, <4>1
    <3> QED
      BY <3>1, <3>2
  <2> HIDE DEF Small
  <2>6. h \in [Small(m) -> A]
    BY <2>5
  <2>7. \A s \in Small(m - 1) : h[s] = f[s]
    BY <2>1, <2>4
  <2>8. ASSUME NEW s \in Small(m) PROVE h[s] = next(h, s)
    <3>1. s # {} => h[Rest(pick, s)] = f[Rest(pick, s)]
      BY <2>3, <2>7
    <3>2. h[s] = next(f, s)
      OBVIOUS
    <3> HIDE DEF h
    <3> QED
      BY <3>1, <3>2
  <2> HIDE DEF h, next
  <2>9. Is(h, m)
    BY <2>6, <2>8
  <2> HIDE DEF Is
  <2> QED
    BY <2>2, <2>9
<1> HIDE DEF Defined
<1>4. \A k \in 0 .. n : k \in Defined
  <2> HIDE DEF n
  <2> QED
    BY <1>1, <1>2, <1>3, Induction
<1>5. n \in Defined
  BY <1>1, <1>4
<1>6. PICK f : Is(f, n)
  BY <1>5 DEF Defined
<1>7. Small(n) = SUBSET T /\ {} \in SUBSET T
  BY <1>1
<1> QED
  BY <1>6, <1>7 DEF SetRecursive
-----------------------------------------------------------------------------
(* Recursion over the digits of a number: what a function makes of a       *)
(* number it makes of its tenth, and one more symbol.                      *)

tensOf(f, a, n) == IF n < 10 THEN <<a[n]>> ELSE Append(f[n \div 10], a[n % 10])

(* The function up to n.                                                   *)
TensTo(f, S, a, n) ==
  f \in [0 .. n -> Seq(S)] /\ \A k \in 0 .. n : f[k] = tensOf(f, a, k)

LEMMA TensIs ==
  ASSUME NEW S, NEW a \in [0 .. 9 -> S], NEW n \in Nat
  PROVE  /\ n < 10 => <<a[n]>> \in Seq(S)
         /\ n >= 10 => n \div 10 \in 0 .. n - 1
         /\ n < 10 \/ n >= 10
         /\ n \div 10 \in Nat /\ n % 10 \in 0 .. 9 /\ n = 10 * (n \div 10) + (n % 10)
         /\ \A s \in Seq(S) : Append(s, a[n % 10]) \in Seq(S)
<1>1. n \div 10 \in Nat /\ n % 10 \in 0 .. 9 /\ n = 10 * (n \div 10) + (n % 10)
  BY ModIs
<1>2. n >= 10 => n \div 10 \in 0 .. n - 1
  BY <1>1
<1>3. n < 10 => a[n] \in S
  OBVIOUS
<1>4. a[n % 10] \in S
  BY <1>1
<1> QED
  BY <1>1, <1>2, <1>3, <1>4, AppendProperties

LEMMA TensExist ==
  ASSUME NEW S, NEW a \in [0 .. 9 -> S], NEW n \in Nat
  PROVE  \E f : TensTo(f, S, a, n)
<1> DEFINE T == {k \in Nat : \E f : TensTo(f, S, a, k)}
<1>1. 0 \in T
  <2> DEFINE f == [k \in 0 .. 0 |-> <<a[k]>>]
  <2>1. <<a[0]>> \in Seq(S)
    OBVIOUS
  <2>2. TensTo(f, S, a, 0)
    BY <2>1 DEF TensTo, tensOf
  <2> QED
    BY <2>2
<1>2. ASSUME NEW k \in 1 .. n, k - 1 \in T PROVE k \in T
  <2>1. PICK f : TensTo(f, S, a, k - 1)
    BY <1>2
  <2> DEFINE new == tensOf(f, a, k)
             g   == [i \in 0 .. k |-> IF i = k THEN new ELSE f[i]]
  <2>2. f \in [0 .. k - 1 -> Seq(S)] /\ \A i \in 0 .. k - 1 : f[i] = tensOf(f, a, i)
    BY <2>1 DEF TensTo
  <2>3. new \in Seq(S)
    <3>1. k \in Nat /\ (k >= 10 => k \div 10 \in 0 .. k - 1)
      BY TensIs
    <3>2. k >= 10 => f[k \div 10] \in Seq(S)
      BY <2>2, <3>1
    <3> QED
      BY <3>1, <3>2, TensIs DEF tensOf
  <2>4. (\A i \in 0 .. k - 1 : i \in 0 .. k /\ i # k) /\ (\A i \in 0 .. k : i \in 0 .. k - 1 \/ i = k)
    OBVIOUS
  <2>6. (\A i \in 0 .. k - 1 : g[i] = f[i]) /\ (g[k] = new)
    <3>1. k \in 0 .. k
      OBVIOUS
    <3> QED
      BY <2>4, <3>1
  <2>7. g \in [0 .. k -> Seq(S)]
    BY <2>2, <2>3, <2>4
  <2>8. ASSUME NEW i \in 0 .. k PROVE g[i] = tensOf(g, a, i)
    <3>1. i \in Nat /\ (i >= 10 => i \div 10 \in 0 .. i - 1) /\ (i < 10 \/ i >= 10)
      BY TensIs
    <3>2. i >= 10 => i \div 10 \in 0 .. k - 1
      BY <3>1
    <3>3. i >= 10 => g[i \div 10] = f[i \div 10]
      BY <2>6, <3>2
    <3>5. g[i] = tensOf(f, a, i)
      <4> HIDE DEF g
      <4> QED
        BY <2>2, <2>4, <2>6
    <3> HIDE DEF g, new
    <3> QED
      BY <3>1, <3>3, <3>5 DEF tensOf
  <2>9. TensTo(g, S, a, k)
    BY <2>7, <2>8 DEF TensTo
  <2> QED
    BY <2>9
<1> HIDE DEF T
<1>3. \A k \in 0 .. n : k \in T
  BY <1>1, <1>2, Induction
<1>4. n \in T
  BY <1>3
<1> QED
  BY <1>4 DEF T

LEMMA TensAgree ==
  ASSUME NEW S, NEW a \in [0 .. 9 -> S], NEW m \in Nat, NEW n \in Nat, NEW f, NEW g,
         TensTo(f, S, a, m), TensTo(g, S, a, n)
  PROVE  \A k \in Nat : k <= m /\ k <= n => f[k] = g[k]
<1> DEFINE Bad == {k \in Nat : k <= m /\ k <= n /\ f[k] # g[k]}
<1> SUFFICES ASSUME Bad # {} PROVE FALSE
  OBVIOUS
<1>1. PICK k \in Bad : \A i \in Bad : k <= i
  BY NatMinExists
<1>2. /\ k \in Nat /\ k \in 0 .. m /\ k \in 0 .. n /\ f[k] # g[k]
      /\ \A i \in 0 .. k - 1 : f[i] = g[i]
  BY <1>1
<1>3. k < 10 \/ k >= 10
  BY <1>2
<1>4. k >= 10 => f[k \div 10] = g[k \div 10]
  BY <1>2, TensIs
<1>5. f[k] = g[k]
  BY <1>2, <1>3, <1>4 DEF TensTo, tensOf
<1> QED
  BY <1>2, <1>5

LEMMA TensRecursion ==
  ASSUME NEW S, NEW a \in [0 .. 9 -> S]
  PROVE  \E d \in [Nat -> Seq(S)] : \A n \in Nat : d[n] = tensOf(d, a, n)
<1> DEFINE one(k) == CHOOSE f : TensTo(f, S, a, k)
           d      == [k \in Nat |-> one(k)[k]]
<1>1. \A k \in Nat : TensTo(one(k), S, a, k)
  BY TensExist
<1> HIDE DEF one
<1>2. ASSUME NEW k \in Nat PROVE d[k] = tensOf(d, a, k) /\ d[k] \in Seq(S)
  <2>1. k \in 0 .. k /\ (k < 10 \/ k >= 10)
    OBVIOUS
  <2>2. one(k)[k] = tensOf(one(k), a, k) /\ one(k)[k] \in Seq(S)
    BY <1>1, <2>1 DEF TensTo
  <2>3. ASSUME k >= 10 PROVE one(k)[k \div 10] = d[k \div 10]
    <3>1. k \div 10 \in Nat /\ k \div 10 <= k
      BY <2>3, TensIs
    <3> DEFINE q == k \div 10
    <3>2. TensTo(one(k), S, a, k) /\ TensTo(one(q), S, a, q) /\ q \in Nat /\ q <= k /\ q <= q
      BY <1>1, <3>1
    <3> HIDE DEF q
    <3>3. one(k)[q] = one(q)[q]
      BY <3>2, TensAgree
    <3>4. d[q] = one(q)[q]
      BY <3>2
    <3> QED
      BY <3>3, <3>4 DEF q
  <2> QED
    BY <2>1, <2>2, <2>3 DEF tensOf
<1> QED
  BY <1>2

-----------------------------------------------------------------------------
(* Texts, points and backgrounds, cell by cell.                            *)

(* A view to which a text was added that fits into its row.                *)
Texted(u, v, w, h, S, x0, y0, s, f, b) ==
  /\ u \in Grids(w, h, S)
  /\ \A x \in 0 .. w - 1, y \in 0 .. h - 1 :
       cellAt(u, x, y) =
         IF y = y0 /\ x \in x0 .. x0 + Len(s) - 1
         THEN [grapheme |-> s[x - x0 + 1], foreColor |-> f, backColor |-> b]
         ELSE cellAt(v, x, y)

LEMMA CellIs ==
  ASSUME NEW w \in Nat, NEW h \in Nat, NEW S, NEW v \in Grids(w, h, S),
         NEW x \in 0 .. w - 1, NEW y \in 0 .. h - 1
  PROVE  cellAt(v, x, y) = v.cells[y * w + x] /\ y * w + x \in 0 .. w * h - 1
                         /\ cellAt(v, x, y) \in S
<1>1. y * w + x \in 0 .. w * h - 1
  BY CellIndex
<1>2. v.width = w /\ v.cells \in [0 .. w * h - 1 -> S]
  BY GridIs
<1> DEFINE i == y * w + x
<1>3. cellAt(v, x, y) = v.cells[i]
  BY <1>2 DEF cellAt
<1>4. i \in 0 .. w * h - 1
  BY <1>1
<1> HIDE DEF i
<1>5. v.cells[i] \in S
  BY <1>2, <1>4
<1> QED
  BY <1>3, <1>4, <1>5 DEF i

LEMMA TextIs ==
  ASSUME NEW w \in Nat, NEW h \in Nat, NEW S, NEW v \in Grids(w, h, S),
         NEW G, NEW s \in Seq(G), NEW f, NEW b, Dyes(s, f, b, S),
         NEW x0 \in 0 .. w - 1, NEW y0 \in 0 .. h - 1, x0 + Len(s) <= w
  PROVE  Texted(string(v, x0, y0, s, f, b), v, w, h, S, x0, y0, s, f, b)
<1> DEFINE u  == string(v, x0, y0, s, f, b)
           at == y0 * w + x0
           g  == dyed(s, f, b)
<1>1. positionToIndex(v, x0, y0) = at
  <2>1. at \in 0 .. w * h - 1
    BY CellIndex
  <2>2. at < w * h
    <3> DEFINE n == w * h
    <3>1. n \in Nat /\ at \in 0 .. n - 1
      BY <2>1
    <3> HIDE DEF n, at
    <3> QED
      BY <3>1 DEF n
  <2> QED
    BY <2>2, IndexIs
<1>2. u \in Grids(w, h, S) /\ \A i \in 0 .. w * h - 1 : u.cells[i] = painted(v.cells, at, g, i)
  <2>1. Written(u, w, h, S, v, positionToIndex(v, x0, y0), s, f, b)
    BY StringIs
  <2> QED
    BY <1>1, <2>1 DEF Written
<1>3. /\ Len(g) = Len(s) /\ Len(s) \in Nat
      /\ \A j \in 1 .. Len(s) : g[j] = [grapheme |-> s[j], foreColor |-> f, backColor |-> b]
  BY DyedIs
<1>4. ASSUME NEW x \in 0 .. w - 1, NEW y \in 0 .. h - 1
      PROVE  cellAt(u, x, y) =
               IF y = y0 /\ x \in x0 .. x0 + Len(s) - 1
               THEN [grapheme |-> s[x - x0 + 1], foreColor |-> f, backColor |-> b]
               ELSE cellAt(v, x, y)
  <2> DEFINE i == y * w + x
             n == w * h
  <2>0. ASSUME NEW e \in Grids(w, h, S) PROVE cellAt(e, x, y) = e.cells[i] /\ i \in 0 .. n - 1
    <3> HIDE DEF u, at, g
    <3>1. cellAt(e, x, y) = e.cells[y * w + x]
      BY CellIs
    <3>2. y * w + x \in 0 .. w * h - 1
      BY CellIndex
    <3> QED
      BY <3>1, <3>2
  <2>1. cellAt(u, x, y) = u.cells[i] /\ cellAt(v, x, y) = v.cells[i] /\ i \in 0 .. n - 1
    <3> HIDE DEF u, i, n
    <3> QED
      BY <1>2, <2>0
  <2>2. i - at \in 0 .. Len(s) - 1 <=> (y = y0 /\ x \in x0 .. x0 + Len(s) - 1)
    BY <1>3, SameRow
  <2>3. y = y0 => i - at = x - x0
    <3> DEFINE p == y0 * w
    <3>1. p \in Int /\ at = p + x0 /\ (y = y0 => i = p + x)
      OBVIOUS
    <3> HIDE DEF p, i, at
    <3> QED
      BY <3>1
  <2>4. u.cells[i] = painted(v.cells, at, g, i)
    <3> HIDE DEF u, at, i, g
    <3> QED
      BY <1>2, <2>1
  <2> HIDE DEF u, at, i, g, n
  <2>5. CASE y = y0 /\ x \in x0 .. x0 + Len(s) - 1
    <3>1. x - x0 + 1 \in 1 .. Len(s)
      BY <1>3, <2>5
    <3>2. u.cells[i] = g[x - x0 + 1]
      BY <1>3, <2>2, <2>3, <2>4, <2>5 DEF painted
    <3> QED
      BY <1>3, <2>1, <2>5, <3>1, <3>2
  <2>6. CASE ~(y = y0 /\ x \in x0 .. x0 + Len(s) - 1)
    BY <1>3, <2>1, <2>2, <2>4, <2>6 DEF painted
  <2> QED
    BY <2>5, <2>6
<1> HIDE DEF u
<1>5. Texted(u, v, w, h, S, x0, y0, s, f, b)
  BY <1>2, <1>4 DEF Texted
<1> QED
  BY <1>5 DEF u

(* Every cell of a string is the cell c.                                   *)
Plain(s, f, b, c) ==
  \A j \in 1 .. Len(s) : [grapheme |-> s[j], foreColor |-> f, backColor |-> b] = c

(* A view on which strings of n cells c were written at points.            *)
Marked(u, v, w, h, S, T, n, c) ==
  /\ u \in Grids(w, h, S)
  /\ \A x \in 0 .. w - 1, y \in 0 .. h - 1 :
       cellAt(u, x, y) = IF \E p \in T : y = p.y /\ x \in p.x .. p.x + n - 1
                         THEN c ELSE cellAt(v, x, y)

(* Strings at these points fit into their rows.                            *)
Fit(T, w, h, n) == \A p \in T : p.x \in 0 .. w - 1 /\ p.y \in 0 .. h - 1 /\ p.x + n <= w

LEMMA MarkOne ==
  ASSUME NEW w \in Nat, NEW h \in Nat, NEW S, NEW v, NEW u0,
         NEW G, NEW s \in Seq(G), NEW f, NEW b, NEW c, Dyes(s, f, b, S), Plain(s, f, b, c),
         NEW T, Fit(T, w, h, Len(s)), NEW p \in T,
         Marked(u0, v, w, h, S, T \ {p}, Len(s), c)
  PROVE  Marked(string(u0, p.x, p.y, s, f, b), v, w, h, S, T, Len(s), c)
<1> DEFINE u == string(u0, p.x, p.y, s, f, b)
           n == Len(s)
<1>1. p.x \in 0 .. w - 1 /\ p.y \in 0 .. h - 1 /\ p.x + n <= w /\ n \in Nat
  BY LenProperties DEF Fit
<1>2. u0 \in Grids(w, h, S)
  BY DEF Marked
<1>3. Texted(u, u0, w, h, S, p.x, p.y, s, f, b)
  BY <1>1, <1>2, TextIs
<1> HIDE DEF u
<1>4. ASSUME NEW x \in 0 .. w - 1, NEW y \in 0 .. h - 1
      PROVE  cellAt(u, x, y) = IF \E q \in T : y = q.y /\ x \in q.x .. q.x + n - 1
                               THEN c ELSE cellAt(v, x, y)
  <2>1. CASE y = p.y /\ x \in p.x .. p.x + n - 1
    <3>1. x - p.x + 1 \in 1 .. n
      BY <1>1, <2>1
    <3>2. cellAt(u, x, y) = c
      BY <1>3, <2>1, <3>1 DEF Texted, Plain
    <3> QED
      BY <2>1, <3>2
  <2>2. CASE ~(y = p.y /\ x \in p.x .. p.x + n - 1)
    <3>1. cellAt(u, x, y) = cellAt(u0, x, y)
      BY <1>3, <2>2 DEF Texted
    <3>2. (\E q \in T : y = q.y /\ x \in q.x .. q.x + n - 1)
            <=> (\E q \in T \ {p} : y = q.y /\ x \in q.x .. q.x + n - 1)
      BY <2>2
    <3>3. cellAt(u0, x, y) = IF \E q \in T \ {p} : y = q.y /\ x \in q.x .. q.x + n - 1
                             THEN c ELSE cellAt(v, x, y)
      BY DEF Marked
    <3> QED
      BY <3>1, <3>2, <3>3
  <2> QED
    BY <2>1, <2>2
<1>5. Marked(u, v, w, h, S, T, n, c)
  BY <1>3, <1>4 DEF Marked, Texted
<1> QED
  BY <1>5 DEF u

LEMMA PointsAre ==
  ASSUME NEW w \in Nat, NEW h \in Nat, NEW S, NEW v \in Grids(w, h, S),
         NEW G, NEW s \in Seq(G), NEW f, NEW b, NEW c, Dyes(s, f, b, S), Plain(s, f, b, c),
         NEW T, IsFiniteSet(T), Fit(T, w, h, Len(s))
  PROVE  Marked(points(v, s, f, b, T), v, w, h, S, T, Len(s), c)
<1> DEFINE A == Grids(w, h, S)
           drawn(p, u) == string(u, p.x, p.y, s, f, b)
           g == [q \in T \X A |-> drawn(q[1], q[2])]
           pick == [t \in SUBSET T |-> CHOOSE p \in t : TRUE]
           Is(it) == it = [t \in SUBSET T |->
                             IF t = {} THEN v
                             ELSE drawn(CHOOSE p \in t : TRUE,
                                        it[t \ {CHOOSE p \in t : TRUE}])]
<1>1. Picks(pick, T)
  BY DEF Picks
<1>2. \A p \in T : \A u \in A : drawn(p, u) \in A
  <2> SUFFICES ASSUME NEW p \in T, NEW u \in A PROVE drawn(p, u) \in A
    OBVIOUS
  <2>1. p.x \in 0 .. w - 1 /\ p.y \in 0 .. h - 1 /\ p.x + Len(s) <= w
    BY DEF Fit
  <2>2. Texted(drawn(p, u), u, w, h, S, p.x, p.y, s, f, b)
    BY <2>1, TextIs
  <2> QED
    BY <2>2 DEF Texted
<1>3. points(v, s, f, b, T) = (CHOOSE it : Is(it))[T]
  BY DEF points, FoldSet, MapThenFoldSet
<1> HIDE DEF A, drawn
<1>4. g \in [T \X A -> A] /\ \A p \in T : \A u \in A : g[<<p, u>>] = drawn(p, u)
  BY <1>2
<1>5. v \in A
  BY DEF A
<1>6. PICK it : SetRecursive(it, T, A, v, g, pick)
  <2> HIDE DEF pick, g
  <2> QED
    BY <1>1, <1>4, <1>5, SetRecursion
<1>7. Is(it)
  <2>1. it \in [SUBSET T -> A] /\ it[{}] = v
    BY <1>6 DEF SetRecursive
  <2>2. ASSUME NEW t \in SUBSET T, t # {} PROVE it[t] = drawn(pick[t], it[t \ {pick[t]}])
    <3>1. pick[t] \in T /\ t \ {pick[t]} \in SUBSET T
      BY <2>2
    <3>2. it[t \ {pick[t]}] \in A
      BY <2>1, <3>1
    <3>3. it[t] = g[<<pick[t], it[t \ {pick[t]}]>>]
      BY <1>6, <2>2 DEF SetRecursive, Rest
    <3> HIDE DEF pick, g
    <3> QED
      BY <1>4, <3>1, <3>2, <3>3
  <2> HIDE DEF g
  <2> QED
    BY <2>1, <2>2
<1> DEFINE all == CHOOSE e : Is(e)
<1>8. Is(all)
  <2> HIDE DEF Is
  <2> QED
    BY <1>7
<1>9. /\ all[{}] = v
      /\ \A t \in SUBSET T : t # {} => pick[t] \in t /\ all[t] = drawn(pick[t], all[t \ {pick[t]}])
  <2> HIDE DEF all
  <2> QED
    BY <1>8
<1> HIDE DEF all, pick, g, Is
<1> DEFINE n == Len(s)
           Q == {t \in SUBSET T : Marked(all[t], v, w, h, S, t, n, c)}
<1>10. {} \in Q
  BY <1>5, <1>9 DEF Marked, A
<1>11. \A t \in SUBSET T : t # {} => \E p \in t : t \ {p} \in Q => t \in Q
  <2> SUFFICES ASSUME NEW t \in SUBSET T, t # {}, t \ {pick[t]} \in Q PROVE t \in Q
    BY <1>9
  <2>1. pick[t] \in t /\ all[t] = drawn(pick[t], all[t \ {pick[t]}]) /\ Fit(t, w, h, n)
    BY <1>9 DEF Fit
  <2>2. Marked(all[t \ {pick[t]}], v, w, h, S, t \ {pick[t]}, n, c)
    OBVIOUS
  <2>3. Marked(all[t], v, w, h, S, t, n, c)
    BY <2>1, <2>2, MarkOne DEF drawn
  <2> QED
    BY <2>3
<1> HIDE DEF Q
<1>12. T \in Q
  <2>1. \A t \in SUBSET T : t \in Q
    BY <1>10, <1>11, SetInduction, Zenon
  <2> QED
    BY <2>1
<1>13. points(v, s, f, b, T) = all[T]
  BY <1>3 DEF all
<1> QED
  BY <1>12, <1>13 DEF Q

(* The cell i is none of m cells from a position on, which fit.            *)
Away(w, h, x0, y0, m, i) ==
  y0 * w + x0 + m <= w * h /\ ~(i - (y0 * w + x0) \in 0 .. m - 1)

(* A rectangle of one cell c leaves every other cell as it is, wherever    *)
(* its rows run on to.                                                     *)
LEMMA RowPlain ==
  ASSUME NEW w \in Nat, NEW h \in Nat, NEW S, NEW v \in Grids(w, h, S),
         NEW G, NEW s \in Seq(G), s # <<>>, NEW f, NEW b, NEW c, Plain(s, f, b, c),
         NEW x0 \in Nat, NEW y0 \in Nat, NEW m \in Nat,
         NEW u, RowIs(u, w, h, S, v, x0, y0, m, s, f, b), NEW i \in 0 .. w * h - 1
  PROVE  /\ u.cells[i] \in {v.cells[i], c}
         /\ Away(w, h, x0, y0, m, i) => u.cells[i] = v.cells[i]
<1> DEFINE len == Len(s)
           idx == y0 * w + x0
           n   == w * h
           g   == dyed(s, f, b)
           k   == spill(idx, n, m, len)
<1>1. len \in Nat \ {0} /\ idx \in Nat /\ n \in Nat /\ i \in 0 .. n - 1
  BY EmptySeq
<1>2. Len(g) = len /\ \A j \in 1 .. len : g[j] = c
  <2>1. /\ Len(g) = len
        /\ \A j \in 1 .. len : g[j] = [grapheme |-> s[j], foreColor |-> f, backColor |-> b]
    BY DyedIs
  <2> HIDE DEF g
  <2> QED
    BY <2>1 DEF Plain
<1>3. u.cells[i] = banded(v.cells, idx, n, m, g, k, i)
  BY DEF RowIs
<1> HIDE DEF idx, n, g
<1>4. k \in 0 .. len
  <2> HIDE DEF len
  <2> QED
    BY <1>1, SpillBound
<1>5. idx + m <= n => k = 0
  <2> SUFFICES ASSUME idx + m <= n PROVE k = 0
    OBVIOUS
  <2> HIDE DEF len
  <2>1. outside(idx, n, m, len) = {}
    BY <1>1 DEF outside
  <2> QED
    BY <2>1, NoSpill
<1> HIDE DEF len, k
<1>6. i < k => i + 1 \in 1 .. len
  BY <1>1, <1>4
<1>7. i - idx \in 0 .. m - 1 => ((i - idx) % len) + 1 \in 1 .. len
  <2> SUFFICES ASSUME i - idx \in 0 .. m - 1 PROVE ((i - idx) % len) + 1 \in 1 .. len
    OBVIOUS
  <2> DEFINE q == i - idx
  <2>1. q \in Nat
    BY <1>1
  <2> HIDE DEF q
  <2>2. q % len \in 0 .. len - 1
    BY <1>1, <2>1, ModIs
  <2>3. (q % len) + 1 \in 1 .. len
    BY <1>1, <2>2
  <2> QED
    BY <2>3 DEF q
<1>8. u.cells[i] \in {v.cells[i], c}
  BY <1>2, <1>3, <1>6, <1>7 DEF banded
<1>9. idx + m <= n /\ ~(i - idx \in 0 .. m - 1) => u.cells[i] = v.cells[i]
  BY <1>1, <1>3, <1>5 DEF banded
<1> QED
  BY <1>8, <1>9 DEF idx, n, Away

LEMMA BackgroundIs ==
  ASSUME NEW w \in Nat, NEW h \in Nat, NEW S, NEW v \in Grids(w, h, S),
         NEW G, NEW s \in Seq(G), s # <<>>, NEW f, NEW b, NEW c,
         Dyes(s, f, b, S), Plain(s, f, b, c), NEW r \in Drawable
  PROVE  /\ rect(v, r, s, f, b) \in Grids(w, h, S)
         /\ \A i \in 0 .. w * h - 1 : rect(v, r, s, f, b).cells[i] \in {v.cells[i], c}
<1> DEFINE A == Grids(w, h, S)
           g == nextRow(w, h, S, r, s, f, b)
           all == 0 .. w * h - 1
<1>1. r.x \in Nat /\ r.y \in Nat /\ r.w \in Nat /\ r.h \in Nat
  BY DEF Drawable
<1>2. PICK rows : Recursive(rows, A, v, g, r.h) /\ rect(v, r, s, f, b) = rows[r.h]
  BY RowsAre
<1>3. /\ rows \in [0 .. r.h -> A] /\ rows[0] = v
      /\ \A k \in 1 .. r.h : rows[k] = g[<<rows[k - 1], k>>]
  BY <1>2 DEF Recursive
<1> DEFINE T == {k \in 0 .. r.h : \A i \in all : rows[k].cells[i] \in {v.cells[i], c}}
<1>4. 0 \in T
  <2>1. 0 \in 0 .. r.h
    BY <1>1
  <2> QED
    BY <1>3, <2>1
<1>5. ASSUME NEW k \in 1 .. r.h, k - 1 \in T PROVE k \in T
  <2> DEFINE u    == rows[k - 1]
             last == r.y + k - 1
             next == rectColumns(u, r.x, last, r.w, s, f, b)
  <2>1. \A i \in all : u.cells[i] \in {v.cells[i], c}
    BY <1>5
  <2> HIDE DEF T
  <2>2. k - 1 \in 0 .. r.h /\ k \in 0 .. r.h /\ last \in Nat
    BY <1>1
  <2>3. u \in A
    BY <1>3, <2>2
  <2>4. rows[k] = next
    <3>1. g[<<u, k>>] = next
      BY <2>3, NextRow
    <3> HIDE DEF next, g
    <3> QED
      BY <1>3, <3>1
  <2>5. RowIs(next, w, h, S, u, r.x, last, r.w, s, f, b)
    <3> HIDE DEF last, u
    <3> QED
      BY <1>1, <2>2, <2>3, RectColumnsIs
  <2> HIDE DEF u, last, next
  <2>6. \A i \in all : next.cells[i] \in {u.cells[i], c}
    <3> SUFFICES ASSUME NEW i \in all PROVE next.cells[i] \in {u.cells[i], c}
      OBVIOUS
    <3>1. u \in Grids(w, h, S) /\ r.x \in Nat /\ r.w \in Nat /\ last \in Nat /\ i \in 0 .. w * h - 1
      BY <1>1, <2>2, <2>3
    <3> HIDE DEF g, A, all
    <3> QED
      BY <2>5, <3>1, RowPlain
  <2> QED
    BY <2>1, <2>2, <2>4, <2>6 DEF T
<1>6. r.h \in T
  <2> HIDE DEF T
  <2>1. \A k \in 0 .. r.h : k \in T
    BY <1>1, <1>4, <1>5, Induction
  <2> QED
    BY <1>1, <2>1
<1> QED
  BY <1>1, <1>2, <1>3, <1>6

(* The cell x, y is in none of the rows of a rectangle that reaches d      *)
(* cells into the next row at most, and not one of the first d of its row. *)
Beyond(r, w, h, d, x, y) ==
  /\ d \in 0 .. w /\ r.x + r.w <= w + d /\ r.y + r.h < h
  /\ x \in d .. w - 1 /\ y \in 0 .. h - 1 /\ y \notin r.y .. r.y + r.h - 1

LEMMA BackgroundStays ==
  ASSUME NEW w \in Nat, NEW h \in Nat, NEW S, NEW v \in Grids(w, h, S),
         NEW G, NEW s \in Seq(G), s # <<>>, NEW f, NEW b, NEW c,
         Dyes(s, f, b, S), Plain(s, f, b, c), NEW r \in Drawable,
         NEW d, NEW x, NEW y, Beyond(r, w, h, d, x, y)
  PROVE  cellAt(rect(v, r, s, f, b), x, y) = cellAt(v, x, y)
<1>1. /\ d \in 0 .. w /\ r.x + r.w <= w + d /\ r.y + r.h < h
       /\ x \in d .. w - 1 /\ y \in 0 .. h - 1 /\ y \notin r.y .. r.y + r.h - 1
  BY DEF Beyond
<1> USE <1>1
<1> DEFINE A == Grids(w, h, S)
           g == nextRow(w, h, S, r, s, f, b)
           i == y * w + x
<1>2. r.x \in Nat /\ r.y \in Nat /\ r.w \in Nat /\ r.h \in Nat
  BY DEF Drawable
<1>3. PICK rows : Recursive(rows, A, v, g, r.h) /\ rect(v, r, s, f, b) = rows[r.h]
  BY RowsAre
<1>4. /\ rows \in [0 .. r.h -> A] /\ rows[0] = v
      /\ \A k \in 1 .. r.h : rows[k] = g[<<rows[k - 1], k>>]
  BY <1>3 DEF Recursive
<1>5. x \in 0 .. w - 1
  OBVIOUS
<1>6. i \in 0 .. w * h - 1 /\ \A u \in A : cellAt(u, x, y) = u.cells[i]
  <2>1. y * w + x \in 0 .. w * h - 1
    BY <1>5, CellIs
  <2>2. ASSUME NEW u \in A PROVE cellAt(u, x, y) = u.cells[y * w + x]
    BY <1>5, CellIs
  <2> QED
    BY <2>1, <2>2
<1> DEFINE T == {k \in 0 .. r.h : rows[k].cells[i] = v.cells[i]}
<1>7. 0 \in T
  <2>1. 0 \in 0 .. r.h
    BY <1>2
  <2> QED
    BY <1>4, <2>1
<1>8. ASSUME NEW k \in 1 .. r.h, k - 1 \in T PROVE k \in T
  <2> DEFINE u    == rows[k - 1]
             last == r.y + k - 1
             next == rectColumns(u, r.x, last, r.w, s, f, b)
  <2>1. u.cells[i] = v.cells[i]
    BY <1>8
  <2> HIDE DEF T
  <2>2. k - 1 \in 0 .. r.h /\ k \in 0 .. r.h /\ last \in Nat /\ last + 2 <= h /\ y # last
    <3> DEFINE top == r.y
               tall == r.h
    <3>1. top \in Nat /\ tall \in Nat /\ top + tall < h /\ y \notin top .. top + tall - 1
            /\ k \in 1 .. tall /\ y \in Int
      BY <1>2
    <3> HIDE DEF top, tall
    <3>2. k - 1 \in 0 .. tall /\ k \in 0 .. tall /\ top + k - 1 \in Nat /\ top + k - 1 + 2 <= h
            /\ y # top + k - 1
      BY <3>1
    <3> QED
      BY <3>2 DEF top, tall
  <2>3. u \in A
    BY <1>4, <2>2
  <2>4. rows[k] = next
    <3>1. g[<<u, k>>] = next
      BY <2>3, NextRow
    <3> HIDE DEF next, g
    <3> QED
      BY <1>4, <3>1
  <2>5. RowIs(next, w, h, S, u, r.x, last, r.w, s, f, b)
    <3> HIDE DEF last, u
    <3> QED
      BY <1>2, <2>2, <2>3, RectColumnsIs
  <2> HIDE DEF u, last, next
  <2>6. Away(w, h, r.x, last, r.w, i)
    <3> DEFINE p == last * w
               q == y * w
               z == (last + 1) * w
               n == w * h
    <3>1. p + w = z /\ p \in Nat /\ q \in Nat /\ z \in Nat /\ n \in Nat
      BY <2>2
    <3>2. z + w <= n
      <4>1. (last + 1) * w + w <= h * w
        <5> DEFINE e == last + 1
        <5>1. e \in Nat /\ e < h
          BY <2>2
        <5> HIDE DEF e
        <5>2. e * w + w <= h * w
          BY <5>1, RowsApart
        <5> QED
          BY <5>2 DEF e
      <4>2. h * w = n
        OBVIOUS
      <4> QED
        BY <4>1, <4>2
    <3>3. y < last => q + w <= p
      BY <2>2, RowsApart
    <3>4. y = last + 1 => q = z
      OBVIOUS
    <3>5. last + 1 < y => z + w <= q
      <4> DEFINE e == last + 1
      <4>1. e \in Nat
        BY <2>2
      <4> HIDE DEF e
      <4>2. e < y => e * w + w <= y * w
        BY <4>1, RowsApart
      <4> QED
        BY <4>2 DEF e
    <3>6. y < last \/ y = last + 1 \/ last + 1 < y
      BY <2>2
    <3>7. i = q + x
      OBVIOUS
    <3> HIDE DEF p, q, z, n, i
    <3>8. p + r.x + r.w <= n /\ ~(i - (p + r.x) \in 0 .. r.w - 1)
      <4> DEFINE a == r.x
                 m == r.w
      <4>1. a \in Nat /\ m \in Nat /\ a + m <= w + d /\ d \in Nat /\ d <= w
              /\ x \in Nat /\ d <= x /\ x < w
        BY <1>2
      <4> HIDE DEF a, m
      <4>2. p + a + m <= n
        BY <3>1, <3>2, <4>1
      <4>3. y < last => i < p + a
        BY <3>1, <3>3, <3>7, <4>1
      <4>4. y = last + 1 => i >= p + a + m
        BY <3>1, <3>4, <3>7, <4>1
      <4>5. last + 1 < y => i >= p + a + m
        BY <3>1, <3>5, <3>7, <4>1
      <4>6. i \in Int /\ (i < p + a \/ i >= p + a + m)
        BY <3>1, <3>6, <3>7, <4>1, <4>3, <4>4, <4>5
      <4>7. ~(i - (p + a) \in 0 .. m - 1)
        BY <3>1, <4>1, <4>6
      <4> QED
        BY <4>2, <4>7 DEF a, m
    <3> QED
      BY <3>8 DEF p, n, Away
  <2>7. next.cells[i] = u.cells[i]
    <3> HIDE DEF i
    <3> DEFINE a == r.x
               m == r.w
    <3>1. u \in Grids(w, h, S) /\ a \in Nat /\ m \in Nat /\ last \in Nat /\ i \in 0 .. w * h - 1
      BY <1>2, <1>6, <2>2, <2>3
    <3>2. RowIs(next, w, h, S, u, a, last, m, s, f, b) /\ Away(w, h, a, last, m, i)
      BY <2>5, <2>6
    <3> HIDE DEF g, A, T, a, m
    <3> QED
      BY <3>1, <3>2, RowPlain, SMTT(60)
  <2> QED
    BY <2>1, <2>2, <2>4, <2>7 DEF T
<1>9. r.h \in T
  <2> HIDE DEF T
  <2>1. \A k \in 0 .. r.h : k \in T
    BY <1>2, <1>7, <1>8, Induction
  <2> QED
    BY <1>2, <2>1
<1>10. rows[r.h] \in A /\ v \in A /\ rows[r.h].cells[i] = v.cells[i]
  BY <1>2, <1>4, <1>9
<1> QED
  BY <1>3, <1>6, <1>10
=============================================================================
