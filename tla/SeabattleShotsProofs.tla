------------------------ MODULE SeabattleShotsProofs ------------------------
(* Theorems about SeabattleShots, for fields of any size and any fleets.     *)
(* First the geometry of SeabattleField: a walk over killed cells stays on   *)
(* one ship, and from any cell of a ship the four walks reach all of it.     *)
(* Then what one shot does to a field and to a sound view of it.             *)
EXTENDS SeabattleShots, FiniteSetTheorems, WellFoundedInduction, TLAPS

Cells == Coords \X Coords

(* The k-th cell from c in the direction d.                                  *)
Along(c, d, k) == <<c[1] + k * d[1], c[2] + k * d[2]>>

At(f, c) == Get(f, c[1], c[2])

-----------------------------------------------------------------------------
(* Numbers and positions *)

LEMMA Least ==
    ASSUME NEW T \in SUBSET Nat, T # {}
    PROVE  \E n \in T : \A m \in T : n <= m
<1>1. PICK n \in T : \A m \in T : ~(<<m, n>> \in OpToRel(<, Nat))
  BY WFMin, NatLessThanWellFounded
<1>2. \A m \in T : ~(m < n)
  BY <1>1 DEF OpToRel
<1>. QED
  BY <1>2

LEMMA CoordsAreNat ==
    /\ Coords \subseteq Nat
    /\ \A x \in Int : x \in Coords <=> 0 <= x /\ x < FieldSize
BY FieldSizeAssumption DEF Coords

LEMMA CellIsPair ==
    ASSUME NEW c \in Cells
    PROVE  c[1] \in Coords /\ c[2] \in Coords /\ c = <<c[1], c[2]>>
BY DEF Cells

LEMMA IndexInRange ==
    ASSUME NEW x \in Coords, NEW y \in Coords
    PROVE  Index(x, y) \in Indices
<1>1. FieldSize \in Nat /\ x \in Nat /\ y \in Nat /\ x <= FieldSize - 1 /\ y + 1 <= FieldSize
  BY FieldSizeAssumption DEF Coords
<1>2. (y + 1) * FieldSize <= FieldSize * FieldSize
  BY <1>1
<1>3. (y + 1) * FieldSize = y * FieldSize + FieldSize /\ y * FieldSize \in Nat
  BY <1>1
<1>. QED
  BY <1>1, <1>2, <1>3 DEF Index, Indices

(* No two cells of the field share a position in the array.                  *)
LEMMA IndexIsInjective ==
    ASSUME NEW c \in Cells, NEW e \in Cells, Index(c[1], c[2]) = Index(e[1], e[2])
    PROVE  c = e
<1>1. ASSUME NEW x \in Coords, NEW y \in Coords, NEW u \in Coords, NEW v \in Coords,
             Index(x, y) = Index(u, v)
      PROVE  ~(y < v)
  <2> SUFFICES ASSUME y < v PROVE FALSE
    OBVIOUS
  <2>1. FieldSize \in Nat /\ x \in Nat /\ y \in Nat /\ u \in Nat /\ v \in Nat
        /\ x < FieldSize /\ v - y >= 1 /\ v - y \in Nat
    BY FieldSizeAssumption DEF Coords
  <2>2. (v - y) * FieldSize >= FieldSize
    BY <2>1
  <2>3. (v - y) * FieldSize = v * FieldSize - y * FieldSize
    BY <2>1
  <2>4. x + y * FieldSize = u + v * FieldSize
    BY <1>1 DEF Index
  <2>5. x = u + (v - y) * FieldSize
    BY <2>1, <2>3, <2>4
  <2>. QED
    BY <2>1, <2>2, <2>5
<1>2. ASSUME NEW x \in Coords, NEW y \in Coords, NEW u \in Coords, NEW v \in Coords,
             Index(x, y) = Index(u, v)
      PROVE  x = u /\ y = v
  <2>1. ~(y < v) /\ ~(v < y)
    BY <1>1, <1>2
  <2>2. x \in Int /\ y \in Int /\ u \in Int /\ v \in Int /\ y * FieldSize \in Int
    BY FieldSizeAssumption DEF Coords
  <2>3. y = v
    BY <2>1, <2>2
  <2>. QED
    BY <1>2, <2>2, <2>3 DEF Index
<1>3. c[1] \in Coords /\ c[2] \in Coords /\ e[1] \in Coords /\ e[2] \in Coords
  BY CellIsPair
<1>4. c[1] = e[1] /\ c[2] = e[2]
  BY <1>2, <1>3
<1>. QED
  BY <1>4, CellIsPair

-----------------------------------------------------------------------------
(* Directions *)

LEMMA Opposite ==
    ASSUME NEW d \in Directions
    PROVE  <<-d[1], -d[2]>> \in Directions
BY DEF Directions

LEMMA DirectionOfShip ==
    ASSUME NEW dir \in 0..3
    PROVE  DxDy(dir) \in Directions
BY DEF DxDy, Directions

(* A step along a direction leads to a neighbour.                            *)
LEMMA AlongSteps ==
    ASSUME NEW c \in Cells, NEW d \in Directions, NEW k \in Nat
    PROVE  /\ Along(c, d, 0) = c
           /\ Along(c, d, k + 1) \in Near(Along(c, d, k))
<1>1. c[1] \in Int /\ c[2] \in Int /\ c = <<c[1], c[2]>>
  BY CellIsPair, CoordsAreNat
<1>2. /\ d[1] \in {-1, 0, 1} /\ d[2] \in {-1, 0, 1}
  BY DEF Directions
<1>3. /\ (k + 1) * d[1] = k * d[1] + d[1] /\ k * d[1] \in Int
      /\ (k + 1) * d[2] = k * d[2] + d[2] /\ k * d[2] \in Int
  BY DEF Directions
<1>4. Along(c, d, k + 1) = <<Along(c, d, k)[1] + d[1], Along(c, d, k)[2] + d[2]>>
  BY <1>1, <1>2, <1>3 DEF Along
<1>. QED
  BY <1>1, <1>2, <1>4 DEF Along, Near

-----------------------------------------------------------------------------
(* Ships *)

(* From one cell of a ship one direction leads to any other, over cells of   *)
(* the ship.                                                                 *)
LEMMA ShipIsStraight ==
    ASSUME NEW fleet, IsFleet(fleet), NEW s \in fleet, NEW c \in s, NEW e \in s
    PROVE  \E d \in Directions, k \in 0..FieldSize :
               e = Along(c, d, k) /\ \A j \in 0..k : Along(c, d, j) \in s
<1>1. PICK x \in Coords, y \in Coords, dir \in 0..3, length \in 1..FieldSize :
          s = ShipCells(x, y, dir, length)
  BY DEF IsFleet
<1> DEFINE d == DxDy(dir)
<1>2. d \in Directions
  BY DirectionOfShip
<1>3. x \in Int /\ y \in Int /\ length \in Nat /\ FieldSize \in Nat /\ length <= FieldSize
  BY <1>1, CoordsAreNat, FieldSizeAssumption
<1>4. s = {Along(<<x, y>>, d, i) : i \in 0..(length - 1)}
  BY <1>1 DEF ShipCells, Along
<1>5. PICK a \in 0..(length - 1), b \in 0..(length - 1) :
          c = Along(<<x, y>>, d, a) /\ e = Along(<<x, y>>, d, b)
  BY <1>4
<1> HIDE DEF d
<1>6. \A i, j \in Int : /\ Along(Along(<<x, y>>, d, i), d, j) = Along(<<x, y>>, d, i + j)
                        /\ Along(Along(<<x, y>>, d, i), <<-d[1], -d[2]>>, j)
                              = Along(<<x, y>>, d, i - j)
  BY <1>2, <1>3 DEF Along, Directions
<1> DEFINE from(i) == Along(<<x, y>>, d, i)
           o == <<-d[1], -d[2]>>
<1>7. /\ a \in Int /\ b \in Int /\ c = from(a) /\ e = from(b)
      /\ \A i \in Int : 0 <= i /\ i < length => from(i) \in s
      /\ 0 <= a /\ a < length /\ 0 <= b /\ b < length
  BY <1>3, <1>4, <1>5
<1>8. \A j \in Int : Along(c, d, j) = from(a + j) /\ Along(c, o, j) = from(a - j)
  BY <1>6, <1>7
<1> HIDE DEF from, o
<1>9. CASE a <= b
  <2>1. b - a \in 0..FieldSize /\ a + (b - a) = b /\ b - a \in Int
    BY <1>3, <1>7, <1>9
  <2>2. e = Along(c, d, b - a)
    BY <1>7, <1>8, <2>1
  <2>3. ASSUME NEW j \in 0..(b - a)
        PROVE  Along(c, d, j) \in s
    <3>1. j \in Int /\ 0 <= a + j /\ a + j < length /\ a + j \in Int
      BY <1>3, <1>7
    <3>. QED
      BY <1>7, <1>8, <3>1
  <2>. QED
    BY <1>2, <2>1, <2>2, <2>3
<1>10. CASE b < a
  <2>1. a - b \in 0..FieldSize /\ a - (a - b) = b /\ a - b \in Int
    BY <1>3, <1>7, <1>10
  <2>2. e = Along(c, o, a - b)
    BY <1>7, <1>8, <2>1
  <2>3. ASSUME NEW j \in 0..(a - b)
        PROVE  Along(c, o, j) \in s
    <3>1. j \in Int /\ 0 <= a - j /\ a - j < length /\ a - j \in Int
      BY <1>3, <1>7
    <3>. QED
      BY <1>7, <1>8, <3>1
  <2>4. o \in Directions
    BY <1>2, Opposite DEF o
  <2>. QED
    BY <2>1, <2>2, <2>3, <2>4
<1>. QED
  BY <1>7, <1>9, <1>10

(* A ship cell beside a ship is a cell of that ship.                         *)
LEMMA NearIsSameShip ==
    ASSUME NEW fleet, IsFleet(fleet), NEW s \in fleet, NEW c \in s,
           NEW n \in UNION fleet, n \in Near(c)
    PROVE  n \in s
BY DEF IsFleet, Apart

LEMMA ShipCellsAreCells ==
    ASSUME NEW fleet, IsFleet(fleet), NEW s \in fleet
    PROVE  s \subseteq Cells
BY DEF IsFleet, Cells

(* f shows the fleet: it is empty exactly where no ship lies.                *)
Carries(f, fleet) ==
    /\ f.cell \in [Indices -> {"EMPTY", "SHIP", "KILLED"}]
    /\ Occupied(f) = CellsOf(fleet)

LEMMA CarriedCell ==
    ASSUME NEW fleet, IsFleet(fleet), NEW f, Carries(f, fleet), NEW c \in Cells
    PROVE  /\ At(f, c) \in {"EMPTY", "SHIP", "KILLED"}
           /\ At(f, c) # "EMPTY" <=> c \in UNION fleet
<1>1. Index(c[1], c[2]) \in Indices
  BY CellIsPair, IndexInRange
<1>2. At(f, c) # "EMPTY" <=> Index(c[1], c[2]) \in CellsOf(fleet)
  BY <1>1 DEF Carries, Occupied, At, Get
<1>3. Index(c[1], c[2]) \in CellsOf(fleet) <=> c \in UNION fleet
  BY IndexIsInjective, ShipCellsAreCells DEF CellsOf
<1>. QED
  BY <1>1, <1>2, <1>3 DEF Carries, At, Get

(* A walk over cells that are hit does not leave the ship it starts on,      *)
(* except for its last step.                                                 *)
LEMMA WalkStaysOnShip ==
    ASSUME NEW fleet, IsFleet(fleet), NEW s \in fleet, NEW c \in s, NEW d \in Directions,
           NEW g, \A e \in Cells : At(g, e) = "KILLED" => e \in UNION fleet,
           NEW k \in Walk(g, c[1], c[2], d)
    PROVE  /\ \A j \in 0..k : Along(c, d, j) \in Cells
           /\ \A j \in 0..(k - 1) : Along(c, d, j) \in s
<1>1. k \in Nat /\ c \in Cells
  BY ShipCellsAreCells, FieldSizeAssumption DEF Walk
<1>2. \A j \in 0..k : Along(c, d, j) \in Cells
  BY DEF Walk, InField, Along, Cells
<1>3. \A j \in 0..(k - 1) : At(g, Along(c, d, j)) = "KILLED"
  BY DEF Walk, Along, At
<1> DEFINE left == {j \in 0..(k - 1) : Along(c, d, j) \notin s}
<1>4. ASSUME left # {}
      PROVE  FALSE
  <2>1. left \in SUBSET Nat
    BY <1>1
  <2>2. PICK m \in left : \A j \in left : m <= j
    BY <1>4, <2>1, Least
  <2>3. m \in 0..(k - 1) /\ Along(c, d, m) \notin s
    OBVIOUS
  <2>4. m # 0
    BY <1>1, <2>3, AlongSteps
  <2>5. m - 1 \in Nat /\ m - 1 \in 0..(k - 1) /\ (m - 1) + 1 = m /\ ~(m <= m - 1)
    BY <1>1, <2>3, <2>4
  <2>6. Along(c, d, m - 1) \in s
    BY <2>2, <2>5
  <2>7. Along(c, d, m) \in Near(Along(c, d, m - 1))
    BY <1>1, <2>5, AlongSteps
  <2>8. Along(c, d, m) \in UNION fleet
    BY <1>1, <1>2, <1>3, <2>3
  <2>. QED
    BY <2>3, <2>6, <2>7, <2>8, NearIsSameShip
<1>. QED
  BY <1>2, <1>4

(* IsKilled looks at the whole ship, wherever on it the walks begin.         *)
LEMMA KilledIsSunk ==
    ASSUME NEW fleet, IsFleet(fleet), NEW f, Carries(f, fleet), NEW s \in fleet, NEW c \in s,
           At(f, c) = "KILLED"
    PROVE  IsKilled(f, c[1], c[2]) <=> \A e \in s : At(f, e) = "KILLED"
<1>1. s \subseteq Cells /\ c \in Cells
  BY ShipCellsAreCells
<1>2. ASSUME IsKilled(f, c[1], c[2]), NEW e \in s
      PROVE  At(f, e) = "KILLED"
  <2>1. PICK d \in Directions, k \in 0..FieldSize :
            e = Along(c, d, k) /\ \A j \in 0..k : Along(c, d, j) \in s
    BY ShipIsStraight
  <2> DEFINE afloat == {j \in 0..k : At(f, Along(c, d, j)) # "KILLED"}
  <2>2. ASSUME afloat # {}
        PROVE  FALSE
    <3>1. afloat \in SUBSET Nat
      BY FieldSizeAssumption
    <3>2. PICK m \in afloat : \A j \in afloat : m <= j
      BY <2>2, <3>1, Least
    <3>3. m \in 0..k /\ m \in 0..FieldSize /\ k \in Nat /\ At(f, Along(c, d, m)) # "KILLED"
      BY FieldSizeAssumption
    <3>4. \A j \in 0..(m - 1) : j \in 0..k /\ ~(m <= j)
      BY <3>3
    <3>5. \A j \in 0..(m - 1) : At(f, Along(c, d, j)) = "KILLED"
      BY <3>2, <3>4
    <3>6. \A j \in 0..m : Along(c, d, j) \in Cells
      BY <1>1, <2>1, <3>3
    <3>7. m \in Walk(f, c[1], c[2], d)
      BY <3>3, <3>5, <3>6 DEF Walk, InField, Along, At, Cells
    <3>8. At(f, Along(c, d, m)) \in {"KILLED", "EMPTY"}
      BY <1>2, <3>7 DEF IsKilled, Along, At
    <3>9. At(f, Along(c, d, m)) # "EMPTY"
      BY <1>1, <2>1, <3>3, CarriedCell
    <3>. QED
      BY <3>3, <3>8, <3>9
  <2>3. k \in 0..k
    BY FieldSizeAssumption
  <2>. QED
    BY <2>1, <2>2, <2>3
<1>3. ASSUME \A e \in s : At(f, e) = "KILLED",
             NEW d \in Directions, NEW k \in Walk(f, c[1], c[2], d)
      PROVE  At(f, Along(c, d, k)) \in {"KILLED", "EMPTY"}
  <2>1. k \in Nat
    BY FieldSizeAssumption DEF Walk
  <2>2. \A e \in Cells : At(f, e) = "KILLED" => e \in UNION fleet
    BY CarriedCell
  <2>3. Along(c, d, k) \in Cells /\ \A j \in 0..(k - 1) : Along(c, d, j) \in s
    BY <2>1, <2>2, WalkStaysOnShip
  <2>4. CASE Along(c, d, k) \in UNION fleet
    <3>1. CASE k = 0
      BY <1>1, <1>3, <3>1, AlongSteps
    <3>2. CASE k # 0
      <4>1. k - 1 \in Nat /\ k - 1 \in 0..(k - 1) /\ (k - 1) + 1 = k
        BY <2>1, <3>2
      <4>2. Along(c, d, k) \in Near(Along(c, d, k - 1)) /\ Along(c, d, k - 1) \in s
        BY <1>1, <2>3, <4>1, AlongSteps
      <4>. QED
        BY <1>3, <2>4, <4>2, NearIsSameShip
    <3>. QED
      BY <3>1, <3>2
  <2>5. CASE Along(c, d, k) \notin UNION fleet
    BY <2>3, <2>5, CarriedCell
  <2>. QED
    BY <2>4, <2>5
<1>. QED
  BY <1>2, <1>3 DEF IsKilled, Along, At

-----------------------------------------------------------------------------
(* The shore of a ship *)

(* The cells on either side of the k-th step.                                *)
Side(c, d, k, s) == <<c[1] + k * d[1] + s * d[2], c[2] + k * d[2] + s * d[1]>>

IsSide(a, c, d, k) == \E s \in {-1, 0, 1} : a = Side(c, d, k, s)

LEMMA AroundIsSides ==
    ASSUME NEW g, NEW c, NEW a
    PROVE  a \in Around(g, c[1], c[2]) <=>
               \E d \in Directions : \E k \in Walk(g, c[1], c[2], d) : IsSide(a, c, d, k)
<1> DEFINE sides(d, k) == {Side(c, d, k, s) : s \in {-1, 0, 1}}
           along(d) == UNION {sides(d, k) : k \in Walk(g, c[1], c[2], d)}
<1>1. Around(g, c[1], c[2]) = UNION {along(d) : d \in Directions}
  BY DEF Around, Side
<1>2. \A d \in Directions : a \in along(d) <=> \E k \in Walk(g, c[1], c[2], d) : a \in sides(d, k)
  OBVIOUS
<1>3. \A d, k : a \in sides(d, k) <=> IsSide(a, c, d, k)
  BY DEF IsSide
<1> HIDE DEF sides, along
<1>. QED
  BY <1>1, <1>2, <1>3

LEMMA SideIsNear ==
    ASSUME NEW c \in Cells, NEW d \in Directions, NEW k \in Nat, NEW s \in {-1, 0, 1}
    PROVE  /\ Side(c, d, k, s) \in Near(Along(c, d, k))
           /\ Side(c, d, k + 1, s) \in Near(Along(c, d, k))
<1>1. c[1] \in Int /\ c[2] \in Int
  BY CellIsPair, CoordsAreNat
<1>2. \A p \in {<<0, s>>, <<1, s>>} :
          /\ Side(c, d, k + p[1], s) = <<Along(c, d, k)[1] + (p[1] * d[1] + s * d[2]),
                                         Along(c, d, k)[2] + (p[1] * d[2] + s * d[1])>>
          /\ p[1] * d[1] + s * d[2] \in {-1, 0, 1} /\ p[1] * d[2] + s * d[1] \in {-1, 0, 1}
  BY <1>1 DEF Side, Along, Directions
<1>. QED
  BY <1>2 DEF Near

LEMMA NearIsSide ==
    ASSUME NEW c \in Cells, NEW d \in Directions, NEW k \in Nat,
           NEW n \in Near(Along(c, d, k))
    PROVE  \E t, s \in {-1, 0, 1} : n = Side(c, d, k + t, s)
<1>1. PICK dx \in {-1, 0, 1}, dy \in {-1, 0, 1} :
          n = <<Along(c, d, k)[1] + dx, Along(c, d, k)[2] + dy>>
  BY DEF Near
<1>2. c[1] \in Int /\ c[2] \in Int
  BY CellIsPair, CoordsAreNat
<1> DEFINE t == dx * d[1] + dy * d[2]
           s == dx * d[2] + dy * d[1]
<1>3. t \in {-1, 0, 1} /\ s \in {-1, 0, 1}
  <2>1. CASE d = <<1, 0>>
    BY <2>1
  <2>2. CASE d = <<-1, 0>>
    BY <2>2
  <2>3. CASE d = <<0, 1>>
    BY <2>3
  <2>4. CASE d = <<0, -1>>
    BY <2>4
  <2>. QED
    BY <2>1, <2>2, <2>3, <2>4 DEF Directions
<1>4. n = Side(c, d, k + t, s)
  BY <1>1, <1>2 DEF Directions, Along, Side
<1>. QED
  BY <1>3, <1>4

LEMMA BackwardSide ==
    ASSUME NEW c \in Cells, NEW d \in Directions, NEW s \in {-1, 0, 1}
    PROVE  Side(c, d, -1, s) = Side(c, <<-d[1], -d[2]>>, 1, -s) /\ -s \in {-1, 0, 1}
<1>1. c[1] \in Int /\ c[2] \in Int
  BY CellIsPair, CoordsAreNat
<1>. QED
  BY <1>1 DEF Side, Directions

(* A step whose side is in the field is in the field itself.                 *)
LEMMA StepOfSide ==
    ASSUME NEW c \in Cells, NEW d \in Directions, NEW k \in Nat, NEW s \in {-1, 0, 1},
           Side(c, d, k, s) \in Cells
    PROVE  Along(c, d, k) \in Cells /\ k \in 0..FieldSize
<1>1. c[1] \in Coords /\ c[2] \in Coords
  BY CellIsPair
<1>2. Side(c, d, k, s)[1] \in Coords /\ Side(c, d, k, s)[2] \in Coords
  BY CellIsPair
<1>3. c[1] + k * d[1] + s * d[2] \in Coords /\ c[2] + k * d[2] + s * d[1] \in Coords
  BY <1>2 DEF Side
<1>4. c[1] + k * d[1] \in Coords /\ c[2] + k * d[2] \in Coords /\ k \in 0..FieldSize
  BY <1>1, <1>3, FieldSizeAssumption DEF Directions, Coords
<1>. QED
  BY <1>4 DEF Along, Cells

(* MarkKill touches nothing but the ship and what lies near it ...           *)
LEMMA AroundIsNear ==
    ASSUME NEW fleet, IsFleet(fleet), NEW s \in fleet, NEW c \in s,
           NEW g, \A e \in Cells : At(g, e) = "KILLED" => e \in UNION fleet,
           NEW a \in Around(g, c[1], c[2])
    PROVE  \E e \in s : a \in Near(e)
<1>1. PICK d \in Directions : \E k \in Walk(g, c[1], c[2], d) : IsSide(a, c, d, k)
  BY AroundIsSides
<1>2. PICK k \in Walk(g, c[1], c[2], d), t \in {-1, 0, 1} : a = Side(c, d, k, t)
  BY <1>1 DEF IsSide
<1>3. c \in Cells /\ k \in Nat
  BY ShipCellsAreCells, FieldSizeAssumption DEF Walk
<1>4. CASE k = 0
  BY <1>2, <1>3, <1>4, SideIsNear, AlongSteps
<1>5. CASE k # 0
  <2>1. k - 1 \in Nat /\ k - 1 \in 0..(k - 1) /\ (k - 1) + 1 = k
    BY <1>3, <1>5
  <2>2. Along(c, d, k - 1) \in s
    BY <2>1, WalkStaysOnShip
  <2>3. a \in Near(Along(c, d, k - 1))
    BY <1>2, <1>3, <2>1, SideIsNear
  <2>. QED
    BY <2>2, <2>3
<1>. QED
  BY <1>4, <1>5

(* ... and, once every cell of the ship is hit, all of that.                 *)
LEMMA NearIsAround ==
    ASSUME NEW fleet, IsFleet(fleet), NEW s \in fleet, NEW c \in s,
           NEW g, \A e \in s : At(g, e) = "KILLED",
           NEW e \in s, NEW n \in Near(e), n \in Cells
    PROVE  n \in Around(g, c[1], c[2])
<1>1. c \in Cells /\ s \subseteq Cells
  BY ShipCellsAreCells
<1>2. PICK d \in Directions, k \in 0..FieldSize :
          e = Along(c, d, k) /\ \A j \in 0..k : Along(c, d, j) \in s
  BY ShipIsStraight
<1>3. k \in Nat
  BY FieldSizeAssumption
<1>4. PICK t \in {-1, 0, 1}, w \in {-1, 0, 1} : n = Side(c, d, k + t, w)
  BY <1>1, <1>2, <1>3, NearIsSide
<1>5. ASSUME NEW o \in Directions, NEW m \in Nat, NEW v \in {-1, 0, 1}, n = Side(c, o, m, v),
             \A j \in 0..(m - 1) : Along(c, o, j) \in s
      PROVE  n \in Around(g, c[1], c[2])
  <2>1. Along(c, o, m) \in Cells /\ m \in 0..FieldSize
    BY <1>1, <1>5, StepOfSide
  <2>2. \A j \in 0..m : j = m \/ j \in 0..(m - 1)
    OBVIOUS
  <2>3. \A j \in 0..m : Along(c, o, j) \in Cells
    BY <1>1, <1>5, <2>1, <2>2
  <2>4. m \in Walk(g, c[1], c[2], o)
    BY <1>5, <2>1, <2>3 DEF Walk, InField, Along, At, Cells
  <2>. QED
    BY <1>5, <2>4, AroundIsSides DEF IsSide
<1>6. CASE k + t \in Nat
  <2>1. \A j \in 0..(k + t - 1) : j \in 0..k
    BY <1>3
  <2>. QED
    BY <1>2, <1>4, <1>5, <1>6, <2>1
<1>7. CASE k + t \notin Nat
  <2> DEFINE o == <<-d[1], -d[2]>>
  <2>1. k + t = -1
    BY <1>3, <1>7
  <2>2. n = Side(c, o, 1, -w) /\ -w \in {-1, 0, 1} /\ o \in Directions
    BY <1>1, <1>4, <2>1, BackwardSide, Opposite
  <2>3. \A j \in 0..(1 - 1) : j = 0
    OBVIOUS
  <2>4. Along(c, o, 0) \in s
    BY <1>1, <2>2, AlongSteps
  <2> HIDE DEF o
  <2>. QED
    BY <1>5, <2>2, <2>3, <2>4
<1>. QED
  BY <1>6, <1>7

-----------------------------------------------------------------------------
(* One shot and its mark *)

Afloat(f) == {i \in Indices : f.cell[i] = "SHIP"}

(* The view g shows nothing of f that is not so.                             *)
Agree(f, g) ==
    \A i \in Indices :
        /\ g.cell[i] = "KILLED" <=> f.cell[i] = "KILLED"
        /\ g.cell[i] = "EMPTY" => f.cell[i] = "EMPTY"
        /\ g.cell[i] # "SHIP"

Sound(f, g, fleet) ==
    /\ f \in Fields /\ g \in Fields
    /\ Carries(f, fleet)
    /\ Agree(f, g)
    /\ g.weight = f.weight /\ f.weight = Cardinality(Afloat(f))

IsSunk(f, ship) == \A c \in ship : At(f, c) = "KILLED"

(* Of every ship that is sunk the shore is shown.                            *)
Shore(f, g, fleet) ==
    \A ship \in fleet : IsSunk(f, ship) =>
        \A c \in ship : \A n \in Near(c) \ ship : n \in Cells => At(g, n) = "EMPTY"

LEMMA IndicesFinite == IsFiniteSet(Indices)
<1>1. 0 \in Int /\ FieldSize * FieldSize - 1 \in Int
  BY FieldSizeAssumption
<1>. QED
  BY <1>1, FS_Interval DEF Indices

LEMMA PutCell ==
    ASSUME NEW f \in Fields, NEW i \in Indices, NEW s \in States
    PROVE  /\ Put(f, i, s) \in Fields
           /\ Put(f, i, s).weight = f.weight
           /\ Put(f, i, s).cell = [f.cell EXCEPT ![i] = s]
BY DEF Put, Fields

LEMMA PutAndCount ==
    ASSUME NEW f \in Fields, NEW i \in Indices
    PROVE  LET g == [Put(f, i, "KILLED") EXCEPT !.weight = @ - 1] IN
               /\ g \in Fields /\ g.weight = f.weight - 1
               /\ g.cell = [f.cell EXCEPT ![i] = "KILLED"]
<1>1. "KILLED" \in States
  BY DEF States
<1>. QED
  BY <1>1, PutCell DEF Fields

(* A ship cell that is shot at is hit and taken off the count.               *)
LEMMA ShotHits ==
    ASSUME NEW fleet, NEW f \in Fields, Carries(f, fleet), f.weight = Cardinality(Afloat(f)),
           NEW x, NEW y, Index(x, y) \in Indices, Get(f, x, y) = "SHIP"
    PROVE  LET g == Shoot(f, x, y) IN
               /\ g \in Fields /\ g.weight = f.weight - 1 /\ g.weight = Cardinality(Afloat(g))
               /\ g.cell = [f.cell EXCEPT ![Index(x, y)] = "KILLED"]
               /\ Carries(g, fleet)
<1> DEFINE i == Index(x, y)
           g == Shoot(f, x, y)
<1>1. g = [Put(f, i, "KILLED") EXCEPT !.weight = @ - 1]
  BY DEF Shoot
<1>2. /\ g \in Fields /\ g.weight = f.weight - 1
      /\ g.cell = [f.cell EXCEPT ![i] = "KILLED"]
  BY <1>1, PutAndCount
<1>3. f.cell[i] = "SHIP" /\ f.cell \in [Indices -> States]
  BY DEF Get, Fields
<1> HIDE DEF g, i
<1>4. i \in Indices
  BY DEF i
<1>5. Afloat(g) = Afloat(f) \ {i} /\ i \in Afloat(f)
  BY <1>2, <1>3, <1>4 DEF Afloat
<1>6. IsFiniteSet(Afloat(f))
  BY IndicesFinite, FS_Subset DEF Afloat
<1>7. Cardinality(Afloat(g)) = Cardinality(Afloat(f)) - 1
  BY <1>5, <1>6, FS_RemoveElement
<1>8. Carries(g, fleet)
  BY <1>2, <1>3, <1>4 DEF Carries, Occupied
<1>. QED
  BY <1>2, <1>7, <1>8 DEF g, i

(* No cell around (x, y) is unknown once MarkKill is done.                   *)
AroundIsKnown(g, x, y) ==
    \A a \in Around(MarkHit(g, x, y), x, y) \cap Cells : At(MarkKill(g, x, y), a) # "UNKNOWN"

(* What MarkKill does to an unknown cell: the hit, and the shore.            *)
LEMMA KillMarksShore ==
    ASSUME NEW g \in Fields, NEW x, NEW y, Index(x, y) \in Indices, Get(g, x, y) = "UNKNOWN"
    PROVE  LET h == MarkHit(g, x, y)
               k == MarkKill(g, x, y)
           IN  /\ h \in Fields /\ h.weight = g.weight - 1
               /\ h.cell = [g.cell EXCEPT ![Index(x, y)] = "KILLED"]
               /\ k \in Fields /\ k.weight = h.weight
               /\ \A i \in Indices :
                      \/ k.cell[i] = h.cell[i]
                      \/ /\ h.cell[i] = "UNKNOWN" /\ k.cell[i] = "EMPTY"
                         /\ \E a \in Around(h, x, y) : InField(a[1], a[2]) /\ i = Index(a[1], a[2])
               /\ AroundIsKnown(g, x, y)
<1> DEFINE h == MarkHit(g, x, y)
           shore == {Index(c[1], c[2]) : c \in {a \in Around(h, x, y) : InField(a[1], a[2])}}
           cells == [i \in Indices |-> IF i \in shore /\ h.cell[i] = "UNKNOWN"
                                       THEN "EMPTY" ELSE h.cell[i]]
           k == [h EXCEPT !.cell = cells]
<1>1. h = [Put(g, Index(x, y), "KILLED") EXCEPT !.weight = @ - 1]
  BY DEF MarkHit
<1>2. /\ h \in Fields /\ h.weight = g.weight - 1
      /\ h.cell = [g.cell EXCEPT ![Index(x, y)] = "KILLED"]
  BY <1>1, PutAndCount
<1>3. MarkKill(g, x, y) = k
  BY DEF MarkKill
<1>4. \A i : i \in shore <=> \E a \in Around(h, x, y) : InField(a[1], a[2]) /\ i = Index(a[1], a[2])
  OBVIOUS
<1>5. \A a \in Around(h, x, y) \cap Cells : Index(a[1], a[2]) \in shore \cap Indices
  BY CellIsPair, IndexInRange DEF InField
<1> HIDE DEF h, shore
<1>6. k \in Fields /\ k.weight = h.weight /\ k.cell = cells
  BY <1>2 DEF Fields, States
<1> HIDE DEF k
<1>7. \A a \in Around(h, x, y) \cap Cells : At(k, a) # "UNKNOWN"
  BY <1>5, <1>6 DEF At, Get
<1>8. \A i \in Indices : k.cell[i] = h.cell[i] \/ (h.cell[i] = "UNKNOWN" /\ k.cell[i] = "EMPTY" /\ i \in shore)
  BY <1>6
<1>. QED
  BY <1>2, <1>3, <1>4, <1>6, <1>7, <1>8 DEF h, AroundIsKnown

(* A shot at (x, y) that misses, with f the field and g the view of it.      *)
LEMMA FireMisses ==
    ASSUME NEW fleet, NEW f, NEW g, Sound(f, g, fleet),
           NEW x, NEW y, Index(x, y) \in Indices, Get(f, x, y) # "SHIP"
    PROVE  /\ Shoot(f, x, y) = f
           /\ Sound(f, Mark(g, ShotResult(f, x, y), x, y), fleet)
           /\ \A j \in Indices :
                  g.cell[j] = "EMPTY" => Mark(g, ShotResult(f, x, y), x, y).cell[j] = "EMPTY"
<1> DEFINE i  == Index(x, y)
           g2 == Mark(g, ShotResult(f, x, y), x, y)
<1>1. /\ f \in Fields /\ g \in Fields /\ i \in Indices
      /\ f.cell \in [Indices -> {"EMPTY", "SHIP", "KILLED"}] /\ g.cell \in [Indices -> States]
  BY DEF Sound, Carries, Fields
<1>2. Shoot(f, x, y) = f
  BY DEF Shoot
<1>3. g2 = MarkMiss(g, x, y)
  BY DEF Mark, ShotResult
<1>4. CASE Get(g, x, y) # "UNKNOWN"
  <2>1. g2 = g
    BY <1>3, <1>4 DEF MarkMiss
  <2>. QED
    BY <1>2, <2>1
<1>5. CASE Get(g, x, y) = "UNKNOWN"
  <2>1. g2 = Put(g, i, "EMPTY") /\ "EMPTY" \in States
    BY <1>3, <1>5 DEF MarkMiss, States
  <2> HIDE DEF g2, i
  <2>2. g2 \in Fields /\ g2.weight = g.weight /\ g2.cell = [g.cell EXCEPT ![i] = "EMPTY"]
    BY <1>1, <2>1, PutCell
  <2>3. g.cell[i] = "UNKNOWN" /\ f.cell[i] # "SHIP" /\ f.cell[i] \in {"EMPTY", "SHIP", "KILLED"}
    BY <1>1, <1>5 DEF Get, i
  <2>4. f.cell[i] = "EMPTY"
    BY <1>1, <2>3 DEF Sound, Agree
  <2>5. Agree(f, g2)
    BY <1>1, <2>2, <2>4 DEF Sound, Agree
  <2>6. Sound(f, g2, fleet)
    BY <2>2, <2>5 DEF Sound
  <2>7. \A j \in Indices : g.cell[j] = "EMPTY" => g2.cell[j] = "EMPTY"
    BY <1>1, <2>2
  <2>. QED
    BY <1>2, <2>6, <2>7 DEF g2
<1>. QED
  BY <1>4, <1>5

(* A shot at (x, y) that hits, before the shore is marked.                   *)
HitIsMarked(f, g, fleet, x, y) ==
    LET f2 == Shoot(f, x, y)
        h  == MarkHit(g, x, y)
    IN  /\ Get(g, x, y) = "UNKNOWN"
        /\ f2.cell = [f.cell EXCEPT ![Index(x, y)] = "KILLED"]
        /\ Sound(f2, h, fleet)
        /\ \A j \in Indices : g.cell[j] = "EMPTY" => h.cell[j] = "EMPTY"
        /\ IsKilled(f2, x, y) =>
               /\ ShotResult(f, x, y) = "KILL"
               /\ Mark(g, ShotResult(f, x, y), x, y) = MarkKill(g, x, y)
        /\ ~IsKilled(f2, x, y) =>
               /\ ShotResult(f, x, y) = "HIT"
               /\ Mark(g, ShotResult(f, x, y), x, y) = h

LEMMA FireHits ==
    ASSUME NEW fleet, NEW f, NEW g, Sound(f, g, fleet),
           NEW x, NEW y, Index(x, y) \in Indices, Get(f, x, y) = "SHIP"
    PROVE  HitIsMarked(f, g, fleet, x, y)
<1> DEFINE i  == Index(x, y)
           r  == ShotResult(f, x, y)
           f2 == Shoot(f, x, y)
           g2 == Mark(g, r, x, y)
           h  == MarkHit(g, x, y)
<1>1. /\ f \in Fields /\ g \in Fields /\ i \in Indices
      /\ f.cell \in [Indices -> {"EMPTY", "SHIP", "KILLED"}] /\ g.cell \in [Indices -> States]
      /\ f.weight \in Int /\ g.weight = f.weight
  BY DEF Sound, Carries, Fields
<1>2. /\ f2 \in Fields /\ f2.weight = f.weight - 1 /\ f2.weight = Cardinality(Afloat(f2))
      /\ f2.cell = [f.cell EXCEPT ![i] = "KILLED"]
      /\ Carries(f2, fleet)
  BY <1>1, ShotHits DEF Sound
<1>3. (IsKilled(f2, x, y) => r = "KILL") /\ (~IsKilled(f2, x, y) => r = "HIT")
  BY DEF ShotResult
<1>4. Get(g, x, y) = "UNKNOWN"
  BY <1>1 DEF Get, Sound, Agree, States
<1>5. (r = "KILL" => g2 = MarkKill(g, x, y)) /\ (r = "HIT" => g2 = h)
  BY DEF Mark
<1>6. h \in Fields /\ h.weight = g.weight - 1 /\ h.cell = [g.cell EXCEPT ![i] = "KILLED"]
  BY <1>1, <1>4, KillMarksShore
<1> HIDE DEF r, f2, g2, h, i
<1>7. Agree(f2, h)
  BY <1>1, <1>2, <1>6 DEF Sound, Agree
<1>8. Sound(f2, h, fleet)
  BY <1>1, <1>2, <1>6, <1>7 DEF Sound
<1>9. \A j \in Indices : g.cell[j] = "EMPTY" => h.cell[j] = "EMPTY"
  BY <1>1, <1>4, <1>6 DEF Get, i
<1>. QED
  BY <1>2, <1>3, <1>4, <1>5, <1>8, <1>9 DEF r, f2, g2, h, i, HitIsMarked

(* A ship cell that has been shot at belongs to a ship; beside it lie the    *)
(* cells of that ship and water.                                             *)
LEMMA HitShip ==
    ASSUME NEW fleet, IsFleet(fleet), NEW f, Carries(f, fleet), NEW h, Agree(f, h),
           NEW c \in Cells, At(f, c) = "KILLED"
    PROVE  /\ \E s \in fleet : c \in s
           /\ \A e \in Cells : At(h, e) = "KILLED" => At(f, e) = "KILLED" /\ e \in UNION fleet
           /\ \A e \in Cells : At(f, e) = "KILLED" => At(h, e) = "KILLED"
<1>1. \A e \in Cells : Index(e[1], e[2]) \in Indices
  BY CellIsPair, IndexInRange
<1>2. \A e \in Cells : At(h, e) = "KILLED" <=> At(f, e) = "KILLED"
  BY <1>1 DEF Agree, At, Get
<1>. QED
  BY <1>2, CarriedCell

(* After a shot the view is as sound as it was before.                       *)
LEMMA FireIsSound ==
    ASSUME NEW fleet, IsFleet(fleet), NEW f, NEW g, Sound(f, g, fleet),
           NEW x \in Nat, NEW y \in Coords, Index(x, y) \in Indices
    PROVE  /\ Sound(Shoot(f, x, y), Mark(g, ShotResult(f, x, y), x, y), fleet)
           /\ \A j \in Indices :
                  g.cell[j] = "EMPTY" => Mark(g, ShotResult(f, x, y), x, y).cell[j] = "EMPTY"
<1> DEFINE i  == Index(x, y)
           f2 == Shoot(f, x, y)
           g2 == Mark(g, ShotResult(f, x, y), x, y)
           h  == MarkHit(g, x, y)
           k  == MarkKill(g, x, y)
<1>1. CASE Get(f, x, y) # "SHIP"
  BY <1>1, FireMisses
<1>2. Get(f, x, y) = "SHIP" => HitIsMarked(f, g, fleet, x, y)
  BY FireHits
<1>3. CASE Get(f, x, y) = "SHIP" /\ ~IsKilled(f2, x, y)
  <2>1. g2 = h /\ Sound(f2, h, fleet) /\ \A j \in Indices : g.cell[j] = "EMPTY" => h.cell[j] = "EMPTY"
    BY <1>3, <1>2 DEF HitIsMarked
  <2>. QED
    BY <2>1
<1>4. CASE Get(f, x, y) = "SHIP" /\ IsKilled(f2, x, y)
  <2>1. /\ Get(g, x, y) = "UNKNOWN" /\ g2 = k /\ Sound(f2, h, fleet)
        /\ f2.cell = [f.cell EXCEPT ![i] = "KILLED"]
        /\ \A j \in Indices : g.cell[j] = "EMPTY" => h.cell[j] = "EMPTY"
    BY <1>4, <1>2 DEF HitIsMarked
  <2>2. g \in Fields /\ f.cell \in [Indices -> {"EMPTY", "SHIP", "KILLED"}]
    BY DEF Sound, Carries
  <2>3. /\ k \in Fields /\ k.weight = h.weight
        /\ \A j \in Indices :
               \/ k.cell[j] = h.cell[j]
               \/ /\ h.cell[j] = "UNKNOWN" /\ k.cell[j] = "EMPTY"
                  /\ \E a \in Around(h, x, y) : InField(a[1], a[2]) /\ j = Index(a[1], a[2])
    BY <2>1, <2>2, KillMarksShore
  <2>4. Get(f2, x, y) = "KILLED"
    BY <2>1, <2>2 DEF Get
  <2> HIDE DEF f2, g2, h, k, i
  <2>5. ASSUME NEW a \in Around(h, x, y), InField(a[1], a[2]), Get(h, a[1], a[2]) = "UNKNOWN"
        PROVE  Get(f2, a[1], a[2]) = "EMPTY"
    <3> DEFINE c == <<x, y>>
               n == <<a[1], a[2]>>
    <3>1. x \in Coords
      <4>1. PICK d \in Directions : \E m \in Walk(h, c[1], c[2], d) : IsSide(a, c, d, m)
        BY <2>5, AroundIsSides
      <4>2. PICK m \in Walk(h, c[1], c[2], d) : TRUE
        BY <4>1
      <4>3. m \in Nat /\ InField(x + 0 * d[1], y + 0 * d[2]) /\ 0 * d[1] = 0 /\ x + 0 = x
        BY <4>2, FieldSizeAssumption DEF Walk, Directions
      <4>. QED
        BY <4>3 DEF InField
    <3>2. c \in Cells /\ n \in Cells /\ At(f2, c) = "KILLED" /\ At(h, n) = "UNKNOWN"
      BY <2>4, <2>5, <3>1 DEF Cells, InField, At
    <3>3. Carries(f2, fleet) /\ Agree(f2, h)
      BY <2>1 DEF Sound
    <3>4. PICK s \in fleet : c \in s
      BY <3>2, <3>3, HitShip
    <3>5. \A e \in Cells : At(h, e) = "KILLED" => e \in UNION fleet
      BY <3>2, <3>3, HitShip
    <3>6. a \in Around(h, c[1], c[2]) /\ IsKilled(f2, c[1], c[2])
      BY <1>4, <2>5 DEF f2
    <3> HIDE DEF c
    <3>7. PICK e \in s : a \in Near(e)
      BY <3>4, <3>5, <3>6, AroundIsNear
    <3>8. a = n
      BY <3>7 DEF Near
    <3>9. ASSUME n \in UNION fleet
          PROVE  FALSE
      <4>1. n \in s
        BY <3>7, <3>8, <3>9, NearIsSameShip
      <4>2. At(f2, n) = "KILLED"
        BY <3>2, <3>3, <3>4, <3>6, <4>1, KilledIsSunk
      <4>. QED
        BY <3>2, <3>3, <4>2, HitShip
    <3>10. At(f2, n) = "EMPTY"
      BY <3>2, <3>3, <3>9, CarriedCell
    <3>. QED
      BY <3>10 DEF At
  <2>6. Agree(f2, k)
    BY <2>1, <2>3, <2>5 DEF Sound, Agree, Get
  <2>7. Sound(f2, k, fleet)
    BY <2>1, <2>3, <2>6 DEF Sound
  <2>8. \A j \in Indices : g.cell[j] = "EMPTY" => k.cell[j] = "EMPTY"
    BY <2>1, <2>3
  <2>. QED
    BY <2>1, <2>7, <2>8 DEF f2, g2
<1>. QED
  BY <1>1, <1>3, <1>4

(* A shot hits the last cell of a ship or leaves every ship as it was.       *)
LEMMA SunkByShot ==
    ASSUME NEW fleet, IsFleet(fleet), NEW f, NEW g, Sound(f, g, fleet),
           NEW x \in Coords, NEW y \in Coords, Get(f, x, y) = "SHIP",
           NEW ship \in fleet
    PROVE  /\ ~(<<x, y>> \in ship) => (IsSunk(Shoot(f, x, y), ship) <=> IsSunk(f, ship))
           /\ <<x, y>> \in ship =>
                 /\ ~IsSunk(f, ship)
                 /\ IsSunk(Shoot(f, x, y), ship) <=> IsKilled(Shoot(f, x, y), x, y)
<1> DEFINE c == <<x, y>>
           f2 == Shoot(f, x, y)
<1>1. c \in Cells /\ Index(x, y) \in Indices /\ c[1] = x /\ c[2] = y
  BY IndexInRange DEF Cells
<1>2. HitIsMarked(f, g, fleet, x, y)
  BY <1>1, FireHits
<1>3. f2.cell = [f.cell EXCEPT ![Index(x, y)] = "KILLED"] /\ Carries(f2, fleet)
  BY <1>2 DEF HitIsMarked, Sound
<1>4. f.cell \in [Indices -> {"EMPTY", "SHIP", "KILLED"}] /\ f.cell[Index(x, y)] = "SHIP"
  BY DEF Sound, Carries, Get
<1> HIDE DEF f2
<1>5. ship \subseteq Cells
  BY ShipCellsAreCells
<1>6. ASSUME NEW e \in Cells
      PROVE  /\ e # c => At(f2, e) = At(f, e)
             /\ e = c => At(f2, e) = "KILLED" /\ At(f, e) = "SHIP"
  <2>1. Index(e[1], e[2]) \in Indices
    BY CellIsPair, IndexInRange
  <2>2. e # c => Index(e[1], e[2]) # Index(c[1], c[2])
    BY <1>1, IndexIsInjective
  <2>. QED
    BY <1>1, <1>3, <1>4, <2>1, <2>2 DEF At, Get
<1>7. c \notin ship => (IsSunk(f2, ship) <=> IsSunk(f, ship))
  BY <1>5, <1>6 DEF IsSunk
<1>8. ASSUME c \in ship
      PROVE  ~IsSunk(f, ship) /\ (IsSunk(f2, ship) <=> IsKilled(f2, x, y))
  <2>1. At(f2, c) = "KILLED" /\ At(f, c) = "SHIP"
    BY <1>1, <1>6
  <2>2. IsKilled(f2, c[1], c[2]) <=> \A e \in ship : At(f2, e) = "KILLED"
    BY <1>3, <1>8, <2>1, KilledIsSunk
  <2>. QED
    BY <1>1, <1>8, <2>1, <2>2 DEF IsSunk
<1>. QED
  BY <1>7, <1>8 DEF f2

(* KILL is the answer exactly to the shot that sinks a ship.                 *)
LEMMA KillSinks ==
    ASSUME NEW fleet, IsFleet(fleet), NEW f, NEW g, Sound(f, g, fleet),
           NEW x \in Coords, NEW y \in Coords, Get(f, x, y) = "SHIP"
    PROVE  ShotResult(f, x, y) = "KILL" <=>
               \E ship \in fleet : IsSunk(Shoot(f, x, y), ship) /\ ~IsSunk(f, ship)
<1>1. /\ <<x, y>> \in Cells /\ Index(x, y) \in Indices
      /\ <<x, y>>[1] = x /\ <<x, y>>[2] = y
  BY IndexInRange DEF Cells
<1>2. <<x, y>> \in UNION fleet
  BY <1>1, CarriedCell DEF Sound, At
<1>3. PICK ship \in fleet : <<x, y>> \in ship
  BY <1>2
<1>4. HitIsMarked(f, g, fleet, x, y)
  BY <1>1, FireHits
<1>5. ShotResult(f, x, y) = "KILL" <=> IsKilled(Shoot(f, x, y), x, y)
  BY <1>4 DEF HitIsMarked
<1>. QED
  BY <1>3, <1>5, SunkByShot

(* The shore of a ship sunk before stays visible, and that of a ship sunk    *)
(* now becomes visible.                                                      *)
LEMMA FireShowsShore ==
    ASSUME NEW fleet, IsFleet(fleet), NEW f, NEW g, Sound(f, g, fleet), Shore(f, g, fleet),
           NEW x \in Coords, NEW y \in Coords
    PROVE  Shore(Shoot(f, x, y), Mark(g, ShotResult(f, x, y), x, y), fleet)
<1> DEFINE c  == <<x, y>>
           f2 == Shoot(f, x, y)
           g2 == Mark(g, ShotResult(f, x, y), x, y)
           h  == MarkHit(g, x, y)
<1>1. /\ c \in Cells /\ Index(x, y) \in Indices /\ x \in Nat
      /\ c[1] = x /\ c[2] = y
  BY IndexInRange, CoordsAreNat DEF Cells
<1>2. Sound(f2, g2, fleet) /\ \A j \in Indices : g.cell[j] = "EMPTY" => g2.cell[j] = "EMPTY"
  BY <1>1, FireIsSound
<1>3. \A e \in Cells : At(g, e) = "EMPTY" => At(g2, e) = "EMPTY"
  <2> HIDE DEF g2
  <2>. QED
    BY <1>2, CellIsPair, IndexInRange DEF At, Get
<1>4. Get(f, x, y) # "SHIP" => f2 = f
  BY DEF Shoot
<1>5. Get(f, x, y) = "SHIP" => HitIsMarked(f, g, fleet, x, y)
  BY <1>1, FireHits
<1>6. ASSUME NEW ship \in fleet, IsSunk(f2, ship), NEW e \in ship, NEW n \in Near(e) \ ship, n \in Cells
      PROVE  At(g2, n) = "EMPTY"
  <2>1. CASE IsSunk(f, ship)
    BY <1>3, <1>6, <2>1 DEF Shore
  <2>2. CASE ~IsSunk(f, ship)
    <3>1. Get(f, x, y) = "SHIP"
      BY <1>4, <1>6, <2>2
    <3>2. c \in ship /\ IsKilled(f2, x, y)
      BY <1>6, <2>2, <3>1, SunkByShot
    <3>3. g2 = MarkKill(g, x, y) /\ Sound(f2, h, fleet) /\ Get(g, x, y) = "UNKNOWN"
      BY <1>5, <3>1, <3>2 DEF HitIsMarked
    <3>4. \A a \in Around(h, x, y) \cap Cells : At(g2, a) # "UNKNOWN"
      <4>1. g \in Fields
        BY DEF Sound
      <4>2. AroundIsKnown(g, x, y)
        BY <1>1, <3>3, <4>1, KillMarksShore
      <4>. QED
        BY <3>3, <4>2 DEF AroundIsKnown
    <3> HIDE DEF f2, g2, h, c
    <3>5. \A a \in ship : At(f2, a) = "KILLED" /\ a \in Cells
      BY <1>6, ShipCellsAreCells DEF IsSunk
    <3>6. Carries(f2, fleet) /\ Agree(f2, h) /\ Agree(f2, g2) /\ g2 \in Fields
      BY <1>2, <3>3 DEF Sound
    <3>7. \A a \in ship : At(h, a) = "KILLED"
      BY <3>5, <3>6, HitShip
    <3>8. n \in Around(h, c[1], c[2])
      BY <1>6, <3>2, <3>7, NearIsAround
    <3>9. At(g2, n) # "UNKNOWN"
      BY <1>1, <1>6, <3>4, <3>8
    <3>10. n \notin UNION fleet
      BY <1>6, NearIsSameShip
    <3>11. At(g2, n) # "KILLED"
      BY <1>6, <3>2, <3>5, <3>6, <3>10, HitShip
    <3>12. At(g2, n) \in States /\ At(g2, n) # "SHIP"
      BY <1>6, <3>6, CellIsPair, IndexInRange DEF At, Get, Agree, Fields
    <3>. QED
      BY <3>9, <3>11, <3>12 DEF States
  <2>. QED
    BY <2>1, <2>2
<1>. QED
  BY <1>6 DEF Shore

(* Water that a shot newly shows, but for its own cell, is near a ship that  *)
(* it sinks.                                                                 *)
LEMMA FireShowsOnlyShore ==
    ASSUME NEW fleet, IsFleet(fleet), NEW f, NEW g, Sound(f, g, fleet),
           NEW x \in Coords, NEW y \in Coords, NEW n \in Cells, n # <<x, y>>,
           At(Mark(g, ShotResult(f, x, y), x, y), n) = "EMPTY", At(g, n) # "EMPTY"
    PROVE  \E ship \in fleet : /\ IsSunk(Shoot(f, x, y), ship) /\ ~IsSunk(f, ship)
                              /\ \E e \in ship : n \in Near(e)
<1> DEFINE c  == <<x, y>>
           i  == Index(x, y)
           j  == Index(n[1], n[2])
           f2 == Shoot(f, x, y)
           g2 == Mark(g, ShotResult(f, x, y), x, y)
           h  == MarkHit(g, x, y)
           k  == MarkKill(g, x, y)
<1>1. /\ c \in Cells /\ i \in Indices /\ j \in Indices /\ c[1] = x /\ c[2] = y
  BY CellIsPair, IndexInRange DEF Cells
<1>2. i # j
  BY <1>1, IndexIsInjective
<1>3. g \in Fields /\ g.cell \in [Indices -> States] /\ g.cell[j] # "EMPTY" /\ g2.cell[j] = "EMPTY"
  BY DEF Sound, Fields, At, Get
<1>4. Get(f, x, y) = "SHIP"
  <2>1. SUFFICES ASSUME Get(f, x, y) # "SHIP" PROVE FALSE
    OBVIOUS
  <2>2. g2 = MarkMiss(g, x, y)
    BY <2>1 DEF Mark, ShotResult
  <2>3. g2 = g \/ g2 = Put(g, i, "EMPTY")
    BY <2>2 DEF MarkMiss
  <2>4. "EMPTY" \in States
    BY DEF States
  <2>5. Put(g, i, "EMPTY").cell = [g.cell EXCEPT ![i] = "EMPTY"]
    BY <1>1, <1>3, <2>4, PutCell
  <2> HIDE DEF g2, i, j
  <2>6. g2.cell[j] = g.cell[j]
    BY <1>1, <1>2, <1>3, <2>3, <2>5
  <2>. QED
    BY <1>3, <2>6
<1>5. HitIsMarked(f, g, fleet, x, y)
  BY <1>1, <1>4, FireHits
<1>6. /\ Get(g, x, y) = "UNKNOWN" /\ Sound(f2, h, fleet)
      /\ IsKilled(f2, x, y) => g2 = k
      /\ ~IsKilled(f2, x, y) => g2 = h
  BY <1>5 DEF HitIsMarked
<1>7. /\ h.cell = [g.cell EXCEPT ![i] = "KILLED"]
      /\ \/ k.cell[j] = h.cell[j]
         \/ \E a \in Around(h, x, y) : InField(a[1], a[2]) /\ j = Index(a[1], a[2])
  BY <1>1, <1>3, <1>6, KillMarksShore
<1> HIDE DEF c, i, j, f2, g2, h, k
<1>8. h.cell[j] = g.cell[j]
  BY <1>1, <1>2, <1>3, <1>7
<1>9. IsKilled(f2, x, y)
  BY <1>3, <1>6, <1>8
<1>10. PICK a \in Around(h, x, y) : InField(a[1], a[2]) /\ j = Index(a[1], a[2])
  BY <1>3, <1>6, <1>7, <1>8, <1>9
<1>11. a = n
  <2>1. a \in Around(h, c[1], c[2])
    BY <1>1, <1>10
  <2>2. PICK d \in Directions : \E m \in Walk(h, c[1], c[2], d) : IsSide(a, c, d, m)
    BY <2>1, AroundIsSides
  <2>3. a = <<a[1], a[2]>>
    BY <2>2 DEF IsSide, Side
  <2>4. a \in Cells
    BY <1>10, <2>3 DEF InField, Cells
  <2>. QED
    BY <1>10, <2>4, IndexIsInjective DEF j
<1>12. c \in UNION fleet
  BY <1>1, <1>4, CarriedCell DEF Sound, At
<1>13. PICK ship \in fleet : c \in ship
  BY <1>12
<1>14. ~IsSunk(f, ship) /\ IsSunk(f2, ship)
  BY <1>4, <1>9, <1>13, SunkByShot DEF c, f2
<1>15. \A e \in Cells : At(h, e) = "KILLED" => e \in UNION fleet
  <2>1. \A e \in Cells : At(h, e) = "KILLED" => At(f2, e) = "KILLED"
    BY <1>6, CellIsPair, IndexInRange DEF Sound, Agree, At, Get
  <2>2. \A e \in Cells : At(f2, e) = "KILLED" => e \in UNION fleet
    BY <1>6, CarriedCell DEF Sound
  <2>. QED
    BY <2>1, <2>2
<1>16. a \in Around(h, c[1], c[2])
  BY <1>1, <1>10
<1>17. \E e \in ship : a \in Near(e)
  BY <1>13, <1>15, <1>16, AroundIsNear
<1>. QED
  BY <1>11, <1>14, <1>17 DEF f2

(* The shot that takes the last cell afloat is answered with KILL.           *)
LEMMA LastHitKills ==
    ASSUME NEW fleet, IsFleet(fleet), NEW f, NEW g, Sound(f, g, fleet), ~IsLoser(f),
           NEW x \in Coords, NEW y \in Coords, ShotResult(f, x, y) # "KILL"
    PROVE  ~IsLoser(Shoot(f, x, y))
<1> DEFINE f2 == Shoot(f, x, y)
           h  == MarkHit(g, x, y)
           c  == <<x, y>>
<1>1. CASE Get(f, x, y) # "SHIP"
  BY <1>1 DEF Shoot
<1>2. CASE Get(f, x, y) = "SHIP"
  <2>1. c \in Cells /\ c[1] = x /\ c[2] = y /\ Index(x, y) \in Indices
    BY IndexInRange DEF Cells
  <2>2. HitIsMarked(f, g, fleet, x, y)
    BY <1>2, <2>1, FireHits
  <2>3. /\ Sound(f2, h, fleet) /\ ~IsKilled(f2, c[1], c[2])
        /\ f2.cell = [f.cell EXCEPT ![Index(x, y)] = "KILLED"]
    BY <2>1, <2>2 DEF HitIsMarked
  <2>4. f.cell \in [Indices -> States]
    BY DEF Sound, Fields
  <2>5. At(f2, c) = "KILLED"
    BY <2>1, <2>3, <2>4 DEF At, Get
  <2> HIDE DEF f2, h, c
  <2>6. Carries(f2, fleet) /\ Agree(f2, h) /\ f2.weight = Cardinality(Afloat(f2))
    BY <2>3 DEF Sound
  <2>7. PICK s \in fleet : c \in s
    BY <2>1, <2>5, <2>6, HitShip
  <2>8. PICK e \in s : At(f2, e) # "KILLED"
    BY <2>3, <2>5, <2>6, <2>7, KilledIsSunk
  <2>9. e \in Cells /\ e \in UNION fleet
    BY <2>7, <2>8, ShipCellsAreCells
  <2>10. At(f2, e) = "SHIP" /\ Index(e[1], e[2]) \in Indices
    BY <2>6, <2>8, <2>9, CarriedCell, CellIsPair, IndexInRange
  <2>11. Afloat(f2) # {}
    BY <2>10 DEF Afloat, At, Get
  <2>12. IsFiniteSet(Afloat(f2))
    BY IndicesFinite, FS_Subset DEF Afloat
  <2>13. Cardinality(Afloat(f2)) # 0
    BY <2>11, <2>12, FS_EmptySet
  <2>. QED
    BY <2>6, <2>13 DEF IsLoser, f2
<1>. QED
  BY <1>1, <1>2

-----------------------------------------------------------------------------
(* The invariant *)

SoundInv == FleetOf \in Fleets /\ Sound(own, view, FleetOf)

ShoreInv == SoundInv /\ Shore(own, view, FleetOf)

LEMMA FleetsAreFleets ==
    ASSUME NEW fleet \in Fleets
    PROVE  /\ IsFleet(fleet) /\ CellsOf(fleet) \subseteq Indices
           /\ FieldOf(fleet).weight = Weight
<1>1. IsFleet(fleet) /\ FieldOf(fleet).weight = Weight
  BY ShotsAssumption
<1>2. \A c \in UNION fleet : Index(c[1], c[2]) \in Indices
  BY <1>1, ShipCellsAreCells, CellIsPair, IndexInRange
<1>. QED
  BY <1>1, <1>2 DEF CellsOf

(* Of the fleets with the same cells FleetWith names one, always the same.   *)
LEMMA FleetIsNamed ==
    ASSUME NEW fleet \in Fleets
    PROVE  /\ FleetWith(CellsOf(fleet)) \in Fleets
           /\ CellsOf(FleetWith(CellsOf(fleet))) = CellsOf(fleet)
BY DEF FleetWith

(* A field just made and a view that shows nothing yet.                      *)
LEMMA SoundAtFirst ==
    ASSUME NEW fleet \in Fleets,
           NEW f, f = [FieldOf(fleet) EXCEPT !.weight = Weight],
           NEW g, g = Filled("UNKNOWN", Weight)
    PROVE  /\ Sound(f, g, fleet)
           /\ \A i \in Indices : f.cell[i] # "KILLED"
<1>1. IsFleet(fleet) /\ CellsOf(fleet) \subseteq Indices /\ FieldOf(fleet).weight = Weight
  BY FleetsAreFleets
<1>2. IsFiniteSet(CellsOf(fleet)) /\ Cardinality(CellsOf(fleet)) \in Nat
  BY <1>1, IndicesFinite, FS_Subset, FS_CardinalityType
<1>3. /\ f.cell = [i \in Indices |-> IF i \in CellsOf(fleet) THEN "SHIP" ELSE "EMPTY"]
      /\ f.weight = Cardinality(CellsOf(fleet)) /\ f.weight = Weight /\ f \in Fields
  <2> DEFINE made == FieldOf(fleet)
  <2>1. /\ made.cell = [i \in Indices |-> IF i \in CellsOf(fleet) THEN "SHIP" ELSE "EMPTY"]
        /\ made.weight = Cardinality(CellsOf(fleet)) /\ made \in Fields
    BY <1>2 DEF FieldOf, Fields, States
  <2>2. made.weight = Weight
    BY <1>1
  <2> HIDE DEF made
  <2>3. f = [made EXCEPT !.weight = Weight]
    BY DEF made
  <2>4. f = made
    BY <2>1, <2>2, <2>3 DEF Fields
  <2>. QED
    BY <2>1, <2>2, <2>4
<1>4. g.cell = [i \in Indices |-> "UNKNOWN"] /\ g.weight = Weight /\ g \in Fields
  BY <1>2, <1>3 DEF Filled, Fields, States
<1>5. Occupied(f) = CellsOf(fleet) /\ Afloat(f) = CellsOf(fleet)
  BY <1>1, <1>3 DEF Occupied, Afloat
<1>6. Carries(f, fleet)
  BY <1>3, <1>5 DEF Carries
<1>7. Agree(f, g)
  BY <1>3, <1>4 DEF Agree
<1>8. Sound(f, g, fleet)
  BY <1>3, <1>4, <1>5, <1>6, <1>7 DEF Sound
<1>9. \A i \in Indices : f.cell[i] # "KILLED"
  BY <1>3
<1>. QED
  BY <1>8, <1>9

LEMMA SoundAtStart == Init => ShoreInv
<1> SUFFICES ASSUME Init PROVE ShoreInv
    OBVIOUS
<1>1. PICK fleet \in Fleets : own = [FieldOf(fleet) EXCEPT !.weight = Weight]
  BY DEF Init
<1>2. view = Filled("UNKNOWN", Weight)
  BY DEF Init
<1>3. Sound(own, view, fleet) /\ \A i \in Indices : own.cell[i] # "KILLED"
  BY <1>1, <1>2, SoundAtFirst
<1>4. FleetOf \in Fleets /\ CellsOf(FleetOf) = CellsOf(fleet)
  BY <1>3, FleetIsNamed DEF FleetOf, Sound, Carries
<1>5. Sound(own, view, FleetOf)
  BY <1>3, <1>4 DEF Sound, Carries
<1>6. ASSUME NEW ship \in FleetOf
      PROVE  ~IsSunk(own, ship)
  <2>1. IsFleet(FleetOf)
    BY <1>4, FleetsAreFleets
  <2>2. PICK x \in Coords, y \in Coords, dir \in 0..3, length \in 1..FieldSize :
            ship = ShipCells(x, y, dir, length) /\ ship \subseteq Cells
    BY <2>1 DEF IsFleet, Cells
  <2>3. 0 \in 0..(length - 1)
    BY FieldSizeAssumption
  <2>4. PICK c \in ship : c \in Cells
    BY <2>2, <2>3 DEF ShipCells
  <2>5. Index(c[1], c[2]) \in Indices
    BY <2>4, CellIsPair, IndexInRange
  <2>. QED
    BY <1>3, <2>4, <2>5 DEF IsSunk, At, Get
<1>7. Shore(own, view, FleetOf)
  BY <1>6 DEF Shore
<1>. QED
  BY <1>4, <1>5, <1>7 DEF ShoreInv, SoundInv

LEMMA SoundStep ==
    ASSUME SoundInv, [Next]_vars
    PROVE  /\ SoundInv' /\ FleetOf' = FleetOf
           /\ MaxColumn < FieldSize /\ Shore(own, view, FleetOf) => Shore(own, view, FleetOf)'
<1>1. CASE UNCHANGED vars
  <2>1. own' = own /\ view' = view
    BY <1>1 DEF vars
  <2>2. FleetOf' = FleetOf
    BY <2>1 DEF FleetOf
  <2>. QED
    BY <2>1, <2>2 DEF SoundInv
<1>2. CASE Next
  <2>1. PICK x \in 0..MaxColumn, y \in Coords : Fire(x, y)
    BY <1>2 DEF Next
  <2>2. /\ x \in Nat /\ Index(x, y) \in Indices /\ own' = Shoot(own, x, y)
        /\ view' = Mark(view, ShotResult(own, x, y), x, y)
    BY <2>1, ShotsAssumption DEF Fire
  <2>3. IsFleet(FleetOf) /\ Sound(own, view, FleetOf) /\ FleetOf \in Fleets
    BY FleetsAreFleets DEF SoundInv
  <2>4. Sound(Shoot(own, x, y), Mark(view, ShotResult(own, x, y), x, y), FleetOf)
    BY <2>2, <2>3, FireIsSound
  <2>5. Sound(own', view', FleetOf)
    BY <2>2, <2>4
  <2>6. Occupied(own') = Occupied(own)
    BY <2>3, <2>5 DEF Sound, Carries
  <2>7. FleetOf' = FleetOf
    BY <2>6 DEF FleetOf
  <2>8. ASSUME MaxColumn < FieldSize, Shore(own, view, FleetOf)
        PROVE  Shore(own, view, FleetOf)'
    <3>1. x \in Coords
      BY <2>8, ShotsAssumption, FieldSizeAssumption DEF Coords
    <3>2. Shore(Shoot(own, x, y), Mark(view, ShotResult(own, x, y), x, y), FleetOf)
      BY <2>3, <2>8, <3>1, FireShowsShore
    <3>3. Shore(own', view', FleetOf)
      BY <2>2, <3>2
    <3>. QED
      BY <2>7, <3>3
  <2>. QED
    BY <2>3, <2>5, <2>7, <2>8 DEF SoundInv
<1>. QED
  BY <1>1, <1>2

LEMMA SoundInvariance == Spec => []SoundInv
<1>1. Init => SoundInv
  BY SoundAtStart DEF ShoreInv
<1>2. SoundInv /\ [Next]_vars => SoundInv'
  BY SoundStep
<1>. QED
  BY <1>1, <1>2, PTL DEF Spec

-----------------------------------------------------------------------------
(* Theorems *)

(* Shoot on one side and MarkMiss, MarkHit and MarkKill on the other keep    *)
(* the shooter's picture right, even for a column one beyond the last.       *)
THEOREM ViewIsSound == Spec => []ViewSound
<1>1. SoundInv => ViewSound
  BY DEF SoundInv, Sound, Agree, Afloat, ViewSound
<1>. QED
  BY <1>1, SoundInvariance, PTL

(* When a ship is sunk the shooter sees all the water around it, if every    *)
(* shot is at a cell of the field (MarkKill walks in all four directions).   *)
THEOREM ShoresAreRevealed ==
    ASSUME MaxColumn < FieldSize
    PROVE  Spec => []ShoreRevealed
<1>1. Init => ShoreInv
  BY SoundAtStart
<1>2. ShoreInv /\ [Next]_vars => ShoreInv'
  BY SoundStep DEF ShoreInv
<1>3. ShoreInv => ShoreRevealed
  <2> SUFFICES ASSUME ShoreInv, NEW ship \in FleetOf, Sunk(ship),
                      NEW c \in ship, NEW n \in Near(c) \ ship, InField(n[1], n[2])
               PROVE  Get(view, n[1], n[2]) = "EMPTY"
    BY DEF ShoreRevealed
  <2>1. IsSunk(own, ship)
    BY DEF Sunk, IsSunk, At
  <2>2. n \in Cells
    BY DEF Near, InField, Cells
  <2>. QED
    BY <2>1, <2>2 DEF ShoreInv, Shore, At
<1>. QED
  BY <1>1, <1>2, <1>3, PTL DEF Spec

(* A shot at a cell of the field gives no more water away than that cell and *)
(* the shore of the ship it sinks (MarkMiss, MarkHit and MarkKill).          *)
THEOREM OnlyShoresAreGivenAway ==
    ASSUME MaxColumn < FieldSize
    PROVE  Spec => OnlyShoresGivenAway
<1> DEFINE Shown(x, y, n) ==
               /\ Fire(x, y)
               /\ Get(view', n[1], n[2]) = "EMPTY" /\ Get(view, n[1], n[2]) # "EMPTY"
               => \/ n = <<x, y>>
                  \/ \E ship \in FleetOf :
                         Sunk(ship)' /\ ~Sunk(ship) /\ \E c \in ship : n \in Near(c)
<1>1. ASSUME SoundInv, NEW x \in 0..MaxColumn, NEW y \in Coords, NEW n \in Coords \X Coords,
             Fire(x, y), Get(view', n[1], n[2]) = "EMPTY", Get(view, n[1], n[2]) # "EMPTY",
             n # <<x, y>>
      PROVE  \E ship \in FleetOf : Sunk(ship)' /\ ~Sunk(ship) /\ \E c \in ship : n \in Near(c)
  <2>1. x \in Coords /\ n \in Cells
    BY ShotsAssumption, FieldSizeAssumption DEF Coords, Cells
  <2>2. own' = Shoot(own, x, y) /\ view' = Mark(view, ShotResult(own, x, y), x, y)
    BY <1>1 DEF Fire
  <2>3. IsFleet(FleetOf) /\ Sound(own, view, FleetOf)
    BY <1>1, FleetsAreFleets DEF SoundInv
  <2>4. At(Mark(view, ShotResult(own, x, y), x, y), n) = "EMPTY" /\ At(view, n) # "EMPTY"
    BY <1>1, <2>2 DEF At
  <2>5. PICK ship \in FleetOf : /\ IsSunk(Shoot(own, x, y), ship) /\ ~IsSunk(own, ship)
                                /\ \E e \in ship : n \in Near(e)
    BY <1>1, <2>1, <2>3, <2>4, FireShowsOnlyShore
  <2>6. Sunk(ship) <=> IsSunk(own, ship)
    BY DEF Sunk, IsSunk, At
  <2>7. Sunk(ship)' <=> IsSunk(own', ship)
    BY DEF Sunk, IsSunk, At
  <2>. QED
    BY <2>2, <2>5, <2>6, <2>7
<1>2. SoundInv => \A x \in 0..MaxColumn, y \in Coords, n \in Coords \X Coords : Shown(x, y, n)
  BY <1>1
<1> HIDE DEF Shown
<1>3. Spec => [][\A x \in 0..MaxColumn, y \in Coords, n \in Coords \X Coords : Shown(x, y, n)]_vars
  BY <1>2, SoundInvariance, PTL
<1>. QED
  BY <1>3 DEF OnlyShoresGivenAway, Shown

(* Shoot answers KILL exactly to the shot that sinks a ship, wherever on it  *)
(* the walks of IsKilled begin, if every shot is at a cell of the field.     *)
THEOREM KillIsSinking ==
    ASSUME MaxColumn < FieldSize
    PROVE  Spec => KillMeansSunk
<1> DEFINE Answered(x, y) ==
               Fire(x, y) /\ own' # own =>
                   (ShotResult(own, x, y) = "KILL" <=>
                       \E ship \in FleetOf : Sunk(ship)' /\ ~Sunk(ship))
<1>1. ASSUME SoundInv, NEW x \in 0..MaxColumn, NEW y \in Coords, Fire(x, y), own' # own
      PROVE  ShotResult(own, x, y) = "KILL" <=>
                 \E ship \in FleetOf : Sunk(ship)' /\ ~Sunk(ship)
  <2>1. x \in Coords
    BY ShotsAssumption, FieldSizeAssumption DEF Coords
  <2>2. own' = Shoot(own, x, y)
    BY <1>1 DEF Fire
  <2>3. Get(own, x, y) = "SHIP"
    BY <1>1, <2>2 DEF Shoot
  <2>4. IsFleet(FleetOf) /\ Sound(own, view, FleetOf)
    BY <1>1, FleetsAreFleets DEF SoundInv
  <2>5. ShotResult(own, x, y) = "KILL" <=>
            \E ship \in FleetOf : IsSunk(Shoot(own, x, y), ship) /\ ~IsSunk(own, ship)
    BY <2>1, <2>3, <2>4, KillSinks
  <2>6. \A ship : Sunk(ship) <=> IsSunk(own, ship)
    BY DEF Sunk, IsSunk, At
  <2>7. \A ship : Sunk(ship)' <=> IsSunk(own', ship)
    BY DEF Sunk, IsSunk, At
  <2>. QED
    BY <2>2, <2>5, <2>6, <2>7
<1>2. SoundInv => \A x \in 0..MaxColumn, y \in Coords : Answered(x, y)
  BY <1>1
<1> HIDE DEF Answered
<1>3. Spec => [][\A x \in 0..MaxColumn, y \in Coords : Answered(x, y)]_vars
  BY <1>2, SoundInvariance, PTL
<1>. QED
  BY <1>3 DEF KillMeansSunk, Answered
=============================================================================
