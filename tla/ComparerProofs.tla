--------------------------- MODULE ComparerProofs ---------------------------
(***************************************************************************)
(* The image comparer, for pictures of any size, any colours, any settings  *)
(* and any number of threads: its operations are the new picture at any     *)
(* time, they make it out of the old one, they draw no pixel twice, and the *)
(* threads that share the count of misses give up where they should.        *)
(*                                                                          *)
(* First what its parts do: how a rectangle is cut into tiles, a region     *)
(* given by rectangles and these united (which are loops, hence inductions  *)
(* over numbers), what differs, what a search finds, whatever is in the     *)
(* fingerprints, and how operations are joined.  Then the invariant: what   *)
(* has changed is still to be looked at or drawn, and nothing is in two     *)
(* places.  Each action keeps it.                                           *)
(***************************************************************************)
EXTENDS Comparer, FiniteSetTheorems, SequenceTheorems, WellFoundedInduction, TLAPS

Rectangle == [x : Int, y : Int, w : Nat, h : Nat]

-----------------------------------------------------------------------------
(* Smallest and largest *)

\* A set of naturals that is not empty has a smallest one.
LEMMA MinOfNaturals ==
    ASSUME NEW S \in SUBSET Nat, S # {}
    PROVE  Min(S) \in S /\ \A n \in S : Min(S) <= n
<1>1. \E n \in S : \A m \in S : ~(<<m, n>> \in OpToRel(<, Nat))
  <2> DEFINE Less == OpToRel(<, Nat)
  <2>1. IsWellFoundedOn(Less, Nat)
    BY NatLessThanWellFounded
  <2> HIDE DEF Less
  <2>2. \E n \in S : \A m \in S : ~(<<m, n>> \in Less)
    BY <2>1, WFMin
  <2>3. QED
    BY <2>2 DEF Less
<1>2. \E n \in S : \A m \in S : n <= m
  <2>1. PICK n \in S : \A m \in S : ~(<<m, n>> \in OpToRel(<, Nat))
    BY <1>1
  <2>2. ASSUME NEW m \in S PROVE n <= m
    <3>1. <<m, n>> \in Nat \X Nat /\ ~(m < n)
      BY <2>1 DEF OpToRel
    <3>2. QED
      BY <3>1
  <2>3. QED
    BY <2>2
<1>3. QED
  BY <1>2 DEF Min

\* The smaller and the larger of two numbers.
LEMMA MinAndMaxOfTwo ==
    ASSUME NEW m \in Int, NEW n \in Int
    PROVE  /\ Min({m, n}) = (IF m <= n THEN m ELSE n)
           /\ Max({m, n}) = (IF m >= n THEN m ELSE n)
BY DEF Min, Max

\* What holds for the first number and is kept from each to the next holds for all.
LEMMA UpTo ==
    ASSUME NEW N \in Nat, NEW S, 0 \in S, \A n \in 0..N : n \in S /\ n < N => n + 1 \in S
    PROVE  \A n \in 0..N : n \in S
<1> SUFFICES ASSUME NEW m \in 0..N, m \notin S PROVE FALSE
  OBVIOUS
<1> DEFINE Bad == {n \in 0..N : n \notin S}
<1>1. Bad \in SUBSET Nat /\ Bad # {}
  OBVIOUS
<1>2. Min(Bad) \in Bad /\ \A n \in Bad : Min(Bad) <= n
  BY <1>1, MinOfNaturals
<1> DEFINE k == Min(Bad)
<1>3. k \in 0..N /\ k \notin S /\ \A n \in 0..N : n \notin S => k <= n
  BY <1>2
<1> HIDE DEF k
<1>4. k - 1 \in 0..N /\ k - 1 < N /\ ~(k <= k - 1)
  BY <1>3
<1>5. k - 1 \in S
  BY <1>3, <1>4
<1>6. (k - 1) + 1 \in S
  BY <1>4, <1>5
<1>7. QED
  BY <1>3, <1>6

\* A function with a first value and steps to the next ones.
Recursive(f, N, X, base, F) ==
    f \in [0..N -> X] /\ f[0] = base /\ \A n \in 1..N : f[n] = F[<<f[n - 1], n>>]

\* There is one if each step leads from a value to a value.
LEMMA Recursion ==
    ASSUME NEW N \in Nat, NEW X, NEW base \in X, NEW F \in [X \X (1..N) -> X]
    PROVE  \E f : Recursive(f, N, X, base, F)
<1> DEFINE Is(f, m) == f[0] = base /\ \A n \in 1..m : f[n] = F[<<f[n - 1], n>>]
           S == {m \in 0..N : \E f \in [0..m -> X] : Is(f, m)}
<1>1. 0 \in S
  <2> DEFINE f == [n \in 0..0 |-> base]
  <2>1. f \in [0..0 -> X]
    OBVIOUS
  <2>2. Is(f, 0)
    OBVIOUS
  <2> HIDE DEF f, Is
  <2>3. \E e \in [0..0 -> X] : Is(e, 0)
    BY <2>1, <2>2
  <2>4. QED
    BY <2>3
<1>2. ASSUME NEW m \in 0..N, m \in S, m < N PROVE m + 1 \in S
  <2>1. PICK f \in [0..m -> X] : Is(f, m)
    BY <1>2
  <2> DEFINE g == [n \in 0..(m + 1) |-> IF n = m + 1 THEN F[<<f[m], m + 1>>] ELSE f[n]]
  <2>2. F[<<f[m], m + 1>>] \in X
    <3>1. f[m] \in X /\ m + 1 \in 1..N
      BY <1>2, <2>1
    <3>2. QED
      BY <3>1
  <2>3. g \in [0..(m + 1) -> X]
    BY <2>2
  <2>4. g[0] = base
    <3>1. 0 \in 0..(m + 1) /\ 0 # m + 1
      OBVIOUS
    <3>2. QED
      BY <2>1, <3>1
  <2>5. ASSUME NEW n \in 1..(m + 1) PROVE g[n] = F[<<g[n - 1], n>>]
    <3>1. n - 1 \in 0..m /\ n - 1 # m + 1 /\ n \in 0..(m + 1) /\ n - 1 \in 0..(m + 1)
      OBVIOUS
    <3>2. g[n - 1] = f[n - 1]
      BY <3>1
    <3>3. CASE n = m + 1
      BY <3>1, <3>2, <3>3
    <3>4. CASE n # m + 1
      <4>1. n \in 1..m /\ g[n] = f[n]
        BY <3>1, <3>4
      <4>2. QED
        BY <2>1, <3>2, <4>1
    <3>5. QED
      BY <3>3, <3>4
  <2>6. m + 1 \in 0..N
    BY <1>2
  <2> HIDE DEF g
  <2>7. Is(g, m + 1)
    BY <2>4, <2>5
  <2> HIDE DEF Is
  <2>8. QED
    BY <2>3, <2>6, <2>7
<1> HIDE DEF S
<1>3. \A n \in 0..N : n \in S
  BY <1>1, <1>2, UpTo
<1>4. N \in S
  BY <1>3
<1>5. QED
  BY <1>4 DEF S, Recursive

\* A set of integers that are not less than some number has a smallest one, and one of
\* integers that are not larger than some number a largest one.
LEMMA MinFrom ==
    ASSUME NEW S \in SUBSET Int, S # {}, NEW low \in Int, \A n \in S : low <= n
    PROVE  Min(S) \in S /\ \A n \in S : Min(S) <= n
<1> DEFINE T == {n - low : n \in S}
<1>1. T \in SUBSET Nat
  OBVIOUS
<1>2. T # {}
  OBVIOUS
<1>3. PICK m \in T : \A n \in T : m <= n
  BY <1>1, <1>2, MinOfNaturals
<1>4. PICK k \in S : m = k - low
  BY <1>3
<1>5. \A n \in S : k <= n
  <2> SUFFICES ASSUME NEW n \in S PROVE k <= n
    OBVIOUS
  <2>1. n - low \in T
    OBVIOUS
  <2>2. m <= n - low
    BY <1>3, <2>1
  <2>3. QED
    BY <1>4, <2>2
<1>6. QED
  BY <1>4, <1>5 DEF Min

\* A set of integers with a bound has a largest one.
LEMMA LargestUpTo ==
    ASSUME NEW S \in SUBSET Int, S # {}, NEW high \in Int, \A n \in S : n <= high
    PROVE  \E m \in S : \A n \in S : n <= m
<1> DEFINE T == {high - n : n \in S}
<1>1. T \in SUBSET Nat
  OBVIOUS
<1>2. T # {}
  OBVIOUS
<1>3. PICK k \in T : \A n \in T : k <= n
  BY <1>1, <1>2, MinOfNaturals
<1>4. PICK m \in S : k = high - m
  BY <1>3
<1>5. ASSUME NEW n \in S PROVE n <= m
  <2>1. high - n \in T
    OBVIOUS
  <2>2. k <= high - n
    BY <1>3, <2>1
  <2>3. QED
    BY <1>4, <2>2
<1>6. QED
  BY <1>4, <1>5

-----------------------------------------------------------------------------
(* Tiles *)

\* Quotient and remainder.
LEMMA Division ==
    ASSUME NEW n \in Nat, NEW d \in Nat \ {0}
    PROVE  /\ n \div d \in Nat /\ n % d \in 0..(d - 1)
           /\ n = (n \div d) * d + (n % d)
OBVIOUS

\* Between the multiples of two numbers lies at least one d.
LEMMA LessByOneFactor ==
    ASSUME NEW m \in Nat, NEW n \in Nat, NEW d \in Nat \ {0}, m < n
    PROVE  m * d + d <= n * d
<1>1. (n - m - 1) * d >= 0
  OBVIOUS
<1>2. n * d = m * d + d + (n - m - 1) * d
  OBVIOUS
<1>3. QED
  BY <1>1, <1>2

\* As many tiles as it takes, and no more.
LEMMA CeilDivision ==
    ASSUME NEW n \in Nat, NEW d \in Nat \ {0}
    PROVE  /\ CeilDiv(n, d) \in Nat /\ n <= CeilDiv(n, d) * d
           /\ \A q \in Nat : q < CeilDiv(n, d) <=> q * d < n
<1> DEFINE c == CeilDiv(n, d)
<1>1. /\ c \in Nat /\ (n + d - 1) % d \in 0..(d - 1)
      /\ n + d - 1 = c * d + ((n + d - 1) % d)
  <2>1. n + d - 1 \in Nat
    OBVIOUS
  <2>2. QED
    BY <2>1, Division DEF CeilDiv
<1> HIDE DEF c
<1>2. c * d \in Nat
  BY <1>1
<1>3. n <= c * d /\ c * d <= n + d - 1
  BY <1>1, <1>2
<1>4. ASSUME NEW q \in Nat PROVE q < c <=> q * d < n
  <2>1. q * d \in Nat
    OBVIOUS
  <2>2. CASE q < c
    <3>1. q * d + d <= c * d
      BY <1>1, <2>2, LessByOneFactor
    <3>2. QED
      BY <1>2, <1>3, <2>1, <2>2, <3>1
  <2>3. CASE q = c
    BY <1>2, <1>3, <2>1, <2>3
  <2>4. CASE c < q
    <3>1. c * d + d <= q * d
      BY <1>1, <2>4, LessByOneFactor
    <3>2. QED
      BY <1>1, <1>2, <1>3, <2>1, <2>4, <3>1
  <2>5. QED
    BY <1>1, <2>2, <2>3, <2>4
<1>5. QED
  BY <1>1, <1>3, <1>4 DEF c

\* The multiple of d just below a number gives its quotient and its remainder.
LEMMA DivisionIsUnique ==
    ASSUME NEW n \in Nat, NEW d \in Nat \ {0}, NEW q \in Nat, q * d <= n, n < q * d + d
    PROVE  n \div d = q /\ n % d = n - q * d
<1> DEFINE k == n \div d
<1>1. k \in Nat /\ n % d \in 0..(d - 1) /\ n = k * d + (n % d)
  BY Division
<1> HIDE DEF k
<1>2. k * d \in Nat /\ q * d \in Nat
  BY <1>1
<1>3. ~(k < q)
  <2> SUFFICES ASSUME k < q PROVE FALSE
    OBVIOUS
  <2>1. k * d + d <= q * d
    BY <1>1, LessByOneFactor
  <2>2. QED
    BY <1>1, <1>2, <2>1
<1>4. ~(q < k)
  <2> SUFFICES ASSUME q < k PROVE FALSE
    OBVIOUS
  <2>1. q * d + d <= k * d
    BY <1>1, LessByOneFactor
  <2>2. QED
    BY <1>1, <1>2, <2>1
<1>5. k = q
  BY <1>1, <1>3, <1>4
<1>6. QED
  BY <1>1, <1>2, <1>5 DEF k

\* How many tiles there are in a row and in a column.
Columns(r, size) == CeilDiv(r.w, size)
Rows(r, size) == CeilDiv(r.h, size)

\* The number of the tile in a column and a row, and back.
LEMMA TileNumbers ==
    ASSUME NEW r \in Rectangle, NEW size \in Nat \ {0},
           NEW i \in 1..(Columns(r, size) * Rows(r, size))
    PROVE  LET column == (i - 1) % Columns(r, size)
               row == (i - 1) \div Columns(r, size)
           IN  /\ Columns(r, size) \in Nat \ {0}
               /\ column \in Nat /\ column < Columns(r, size)
               /\ row \in Nat /\ row < Rows(r, size)
               /\ i = row * Columns(r, size) + column + 1
<1> DEFINE columns == Columns(r, size)
           rows == Rows(r, size)
           row == (i - 1) \div columns
           column == (i - 1) % columns
<1>1. columns \in Nat /\ rows \in Nat
  BY CeilDivision DEF Columns, Rows, Rectangle
<1> HIDE DEF columns, rows
<1>2. i \in Nat /\ i - 1 \in Nat /\ i <= columns * rows /\ columns # 0
  BY <1>1 DEF columns, rows
<1>3. /\ row \in Nat /\ column \in 0..(columns - 1)
      /\ i - 1 = row * columns + column
  BY <1>1, <1>2, Division
<1> HIDE DEF row, column
<1>4. row < rows
  <2> SUFFICES ASSUME rows <= row PROVE FALSE
    BY <1>1, <1>3
  <2>1. rows * columns <= row * columns
    <3>1. CASE rows = row
      BY <1>1, <1>3, <3>1
    <3>2. CASE rows < row
      <4>1. rows * columns + columns <= row * columns
        BY <1>1, <1>2, <1>3, <3>2, LessByOneFactor
      <4>2. rows * columns \in Nat /\ row * columns \in Nat
        BY <1>1, <1>3
      <4>3. QED
        BY <1>1, <4>1, <4>2
    <3>3. QED
      BY <1>1, <1>3, <3>1, <3>2
  <2>2. columns * rows = rows * columns /\ rows * columns \in Nat /\ row * columns \in Nat
    BY <1>1, <1>3
  <2>3. QED
    BY <1>2, <1>3, <2>1, <2>2
<1>5. row * columns \in Nat
  BY <1>1, <1>3
<1>6. i = row * columns + column + 1 /\ column \in Nat /\ column < columns
  BY <1>1, <1>2, <1>3, <1>5
<1>7. QED
  BY <1>1, <1>2, <1>3, <1>4, <1>6 DEF columns, rows, row, column

\* The number made of a column and a row is one of a tile and leads back to them.
LEMMA TileOfNumber ==
    ASSUME NEW r \in Rectangle, NEW size \in Nat \ {0},
           NEW column \in Nat, column < Columns(r, size),
           NEW row \in Nat, row < Rows(r, size)
    PROVE  LET i == row * Columns(r, size) + column + 1
           IN  /\ i \in 1..(Columns(r, size) * Rows(r, size))
               /\ (i - 1) % Columns(r, size) = column
               /\ (i - 1) \div Columns(r, size) = row
<1> DEFINE columns == Columns(r, size)
           rows == Rows(r, size)
           i == row * columns + column + 1
<1>1. columns \in Nat \ {0} /\ rows \in Nat
  BY CeilDivision DEF Columns, Rows, Rectangle
<1>2. column < columns /\ row < rows
  OBVIOUS
<1> HIDE DEF columns, rows
<1>3. row * columns \in Nat /\ rows * columns \in Nat /\ columns * rows = rows * columns
  BY <1>1
<1>4. row * columns + columns <= rows * columns
  BY <1>1, <1>2, LessByOneFactor
<1>5. i \in 1..(columns * rows) /\ i - 1 = row * columns + column /\ i - 1 \in Nat
  BY <1>1, <1>2, <1>3, <1>4
<1>6. (i - 1) \div columns = row /\ (i - 1) % columns = (i - 1) - row * columns
  <2> HIDE DEF i
  <2>1. row * columns <= i - 1 /\ i - 1 < row * columns + columns
    BY <1>1, <1>2, <1>3, <1>5
  <2>2. QED
    BY <1>1, <1>5, <2>1, DivisionIsUnique
<1>7. QED
  BY <1>1, <1>3, <1>5, <1>6 DEF columns, rows

\* The tile in a column and a row has the pixels that fall there.
LEMMA TilePixels ==
    ASSUME NEW r \in Rectangle, NEW size \in Nat \ {0},
           NEW i \in 1..(Columns(r, size) * Rows(r, size))
    PROVE  LET tile == SplitRectIntoTiles(r, size)[i]
               column == (i - 1) % Columns(r, size)
               row == (i - 1) \div Columns(r, size)
           IN  /\ tile \in Rectangle /\ tile.w \in 1..size /\ tile.h \in 1..size
               /\ \A p : p \in PixelsOf(tile) <=>
                    /\ p \in PixelsOf(r)
                    /\ (p[1] - r.x) \div size = column
                    /\ (p[2] - r.y) \div size = row
<1> DEFINE columns == Columns(r, size)
           rows == Rows(r, size)
           row == (i - 1) \div columns
           column == (i - 1) % columns
           tile == SplitRectIntoTiles(r, size)[i]
<1>1. r.x \in Int /\ r.y \in Int /\ r.w \in Nat /\ r.h \in Nat
  BY DEF Rectangle
<1>2. /\ column \in Nat /\ column < columns
      /\ row \in Nat /\ row < rows
  BY TileNumbers
<1>3. tile = Rect(r.x + column * size, r.y + row * size,
                  Min({size, r.w - column * size}), Min({size, r.h - row * size}))
  BY DEF SplitRectIntoTiles, Columns, Rows
<1>4. column * size \in Nat /\ row * size \in Nat
  <2> HIDE DEF column, row
  <2>1. QED
    BY <1>2
<1>5. column * size < r.w /\ row * size < r.h
  <2> HIDE DEF column, row
  <2>1. QED
    BY <1>1, <1>2, CeilDivision DEF columns, rows, Columns, Rows
<1> HIDE DEF column, row, tile, columns, rows
<1>6. /\ Min({size, r.w - column * size}) =
            (IF size <= r.w - column * size THEN size ELSE r.w - column * size)
      /\ Min({size, r.h - row * size}) =
            (IF size <= r.h - row * size THEN size ELSE r.h - row * size)
  BY <1>1, <1>4, MinAndMaxOfTwo
<1>7. /\ tile.x = r.x + column * size /\ tile.y = r.y + row * size
      /\ tile.w = (IF size <= r.w - column * size THEN size ELSE r.w - column * size)
      /\ tile.h = (IF size <= r.h - row * size THEN size ELSE r.h - row * size)
      /\ tile = [x |-> tile.x, y |-> tile.y, w |-> tile.w, h |-> tile.h]
  BY <1>3, <1>6 DEF Rect
<1>8. tile \in Rectangle /\ tile.w \in 1..size /\ tile.h \in 1..size
  BY <1>1, <1>4, <1>5, <1>7 DEF Rectangle
<1>9. \A p : p \in PixelsOf(tile) <=>
                /\ p \in PixelsOf(r)
                /\ (p[1] - r.x) \div size = column
                /\ (p[2] - r.y) \div size = row
  <2> SUFFICES ASSUME NEW p
               PROVE  p \in PixelsOf(tile) <=>
                        /\ p \in PixelsOf(r)
                        /\ (p[1] - r.x) \div size = column
                        /\ (p[2] - r.y) \div size = row
    OBVIOUS
  <2> DEFINE x == p[1] - r.x
             y == p[2] - r.y
  <2>1. ASSUME p \in PixelsOf(r)
        PROVE  x \in Nat /\ x < r.w /\ y \in Nat /\ y < r.h
    BY <1>1, <2>1 DEF PixelsOf, Right, Bottom
  <2>2. ASSUME p \in PixelsOf(tile)
        PROVE  /\ p \in PixelsOf(r)
               /\ column * size <= x /\ x < column * size + size
               /\ row * size <= y /\ y < row * size + size
    BY <1>1, <1>4, <1>5, <1>7, <2>2 DEF PixelsOf, Right, Bottom
  <2>3. ASSUME p \in PixelsOf(r),
               column * size <= x, x < column * size + size,
               row * size <= y, y < row * size + size
        PROVE  p \in PixelsOf(tile)
    BY <1>1, <1>4, <1>5, <1>7, <2>3 DEF PixelsOf, Right, Bottom
  <2> HIDE DEF x, y
  <2>4. ASSUME p \in PixelsOf(r), x \div size = column, y \div size = row
        PROVE  /\ column * size <= x /\ x < column * size + size
               /\ row * size <= y /\ y < row * size + size
    <3>1. /\ x % size \in 0..(size - 1) /\ x = (x \div size) * size + (x % size)
          /\ y % size \in 0..(size - 1) /\ y = (y \div size) * size + (y % size)
      BY <2>1, <2>4, Division
    <3>2. QED
      BY <1>4, <2>4, <3>1
  <2>5. ASSUME p \in PixelsOf(tile)
        PROVE  x \div size = column /\ y \div size = row
    BY <1>2, <2>1, <2>2, <2>5, DivisionIsUnique
  <2>6. QED
    BY <2>2, <2>3, <2>4, <2>5 DEF x, y
<1>10. QED
  BY <1>8, <1>9 DEF tile, column, row, columns

\* The tiles of a rectangle, however large it is and whatever is left at the right
\* and at the bottom, are not larger than asked for, have all of its pixels, and
\* no two of them have a pixel in common (TileOperations::splitRectIntoTiles).
THEOREM TilesPartitionRect ==
    ASSUME NEW r \in Rectangle, NEW size \in Nat \ {0}
    PROVE  LET cut == SplitRectIntoTiles(r, size)
           IN  /\ cut \in Seq(Rectangle)
               /\ \A i \in DOMAIN cut : cut[i].w \in 1..size /\ cut[i].h \in 1..size
               /\ UNION {PixelsOf(cut[i]) : i \in DOMAIN cut} = PixelsOf(r)
               /\ \A i, j \in DOMAIN cut :
                    i # j => PixelsOf(cut[i]) \cap PixelsOf(cut[j]) = {}
<1> DEFINE cut == SplitRectIntoTiles(r, size)
           columns == Columns(r, size)
           rows == Rows(r, size)
           column(i) == (i - 1) % columns
           row(i) == (i - 1) \div columns
<1>1. columns \in Nat /\ rows \in Nat /\ columns * rows \in Nat
  BY CeilDivision DEF Columns, Rows, Rectangle
<1>2. DOMAIN cut = 1..(columns * rows)
  BY DEF SplitRectIntoTiles, Columns, Rows
<1>3. \A i \in DOMAIN cut :
        /\ cut[i] \in Rectangle /\ cut[i].w \in 1..size /\ cut[i].h \in 1..size
        /\ \A p : p \in PixelsOf(cut[i]) <=>
                    /\ p \in PixelsOf(r)
                    /\ (p[1] - r.x) \div size = column(i)
                    /\ (p[2] - r.y) \div size = row(i)
  BY <1>2, TilePixels
<1>4. \A i \in DOMAIN cut : i = row(i) * columns + column(i) + 1
  BY <1>2, TileNumbers
<1>5. ASSUME NEW p \in PixelsOf(r) PROVE \E i \in DOMAIN cut : p \in PixelsOf(cut[i])
  <2> DEFINE x == p[1] - r.x
             y == p[2] - r.y
             c == x \div size
             d == y \div size
             i == d * columns + c + 1
  <2>1. /\ x \in Nat /\ x < r.w /\ y \in Nat /\ y < r.h /\ r.w \in Nat /\ r.h \in Nat
    BY DEF PixelsOf, Right, Bottom, Rectangle
  <2> HIDE DEF x, y
  <2>2. /\ c \in Nat /\ c * size <= x /\ d \in Nat /\ d * size <= y
        /\ c * size \in Nat /\ d * size \in Nat
    <3>1. c \in Nat /\ x % size \in 0..(size - 1) /\ x = c * size + (x % size)
      BY <2>1, Division
    <3>2. d \in Nat /\ y % size \in 0..(size - 1) /\ y = d * size + (y % size)
      BY <2>1, Division
    <3> HIDE DEF c, d
    <3>3. c * size \in Nat /\ d * size \in Nat
      BY <3>1, <3>2
    <3>4. QED
      BY <2>1, <3>1, <3>2, <3>3
  <2> HIDE DEF c, d
  <2>3. c < columns /\ d < rows
    <3>1. c * size < r.w /\ d * size < r.h
      BY <2>1, <2>2
    <3>2. QED
      BY <2>1, <2>2, <3>1, CeilDivision DEF columns, rows, Columns, Rows
  <2>4. i \in 1..(columns * rows) /\ column(i) = c /\ row(i) = d
    BY <2>2, <2>3, TileOfNumber
  <2> HIDE DEF i
  <2>5. p \in PixelsOf(cut[i])
    BY <1>2, <1>3, <2>4 DEF x, y, c, d
  <2>6. QED
    BY <1>2, <2>4, <2>5
<1> HIDE DEF cut, columns, rows, column, row
<1>6. cut \in Seq(Rectangle)
  <2>1. cut = [i \in 1..(columns * rows) |-> cut[i]]
    BY <1>2 DEF cut, SplitRectIntoTiles
  <2>2. QED
    BY <1>1, <1>2, <1>3, <2>1
<1>7. UNION {PixelsOf(cut[i]) : i \in DOMAIN cut} = PixelsOf(r)
  BY <1>3, <1>5
<1>8. \A i, j \in DOMAIN cut :
        i # j => PixelsOf(cut[i]) \cap PixelsOf(cut[j]) = {}
  BY <1>3, <1>4
<1>9. QED
  BY <1>3, <1>6, <1>7, <1>8 DEF cut

-----------------------------------------------------------------------------
(* Regions and the rectangles that make them *)

\* A rectangle that is not empty.
Block == {r \in Rectangle : r.w > 0 /\ r.h > 0}

\* A region within some square, as all are.
Bounded(region) == \E n \in Nat : region \subseteq ((-n)..n) \X ((-n)..n)

\* The pixels of the rectangles of a sequence, and whether no pixel is in two of them.
PixelsIn(sequence) == UNION {PixelsOf(sequence[i]) : i \in DOMAIN sequence}

Disjoint(sequence) ==
    \A i, j \in DOMAIN sequence :
        i # j => PixelsOf(sequence[i]) \cap PixelsOf(sequence[j]) = {}

\* The rectangles have the pixels of the region, each once.
Partition(sequence, region) ==
    sequence \in Seq(Block) /\ Disjoint(sequence) /\ PixelsIn(sequence) = region

\* The pixels of a rectangle by their coordinates.
LEMMA PixelsByEdges ==
    ASSUME NEW r \in Rectangle
    PROVE  /\ \A p : p \in PixelsOf(r) <=>
                /\ p = <<p[1], p[2]>> /\ p[1] \in Int /\ p[2] \in Int
                /\ r.x <= p[1] /\ p[1] < r.x + r.w /\ r.y <= p[2] /\ p[2] < r.y + r.h
           /\ r \in Block => <<r.x, r.y>> \in PixelsOf(r)
<1>1. r.x \in Int /\ r.y \in Int /\ r.w \in Nat /\ r.h \in Nat
  BY DEF Rectangle
<1>2. ASSUME NEW p
      PROVE  p \in PixelsOf(r) <=>
                /\ p = <<p[1], p[2]>> /\ p[1] \in Int /\ p[2] \in Int
                /\ r.x <= p[1] /\ p[1] < r.x + r.w /\ r.y <= p[2] /\ p[2] < r.y + r.h
  BY <1>1 DEF PixelsOf, Right, Bottom
<1>3. r \in Block => <<r.x, r.y>> \in PixelsOf(r)
  BY <1>1 DEF PixelsOf, Right, Bottom, Block
<1>4. QED
  BY <1>2, <1>3

\* A region that is bounded is finite, and its pixels are pairs of integers.
LEMMA BoundedIsFinite ==
    ASSUME NEW region, Bounded(region)
    PROVE  /\ IsFiniteSet(region)
           /\ \A p \in region : p = <<p[1], p[2]>> /\ p[1] \in Int /\ p[2] \in Int
<1>1. PICK n \in Nat : region \subseteq ((-n)..n) \X ((-n)..n)
  BY DEF Bounded
<1>2. IsFiniteSet((-n)..n)
  BY FS_Interval
<1>3. IsFiniteSet(((-n)..n) \X ((-n)..n))
  BY <1>2, FS_Product
<1>4. IsFiniteSet(region)
  BY <1>1, <1>3, FS_Subset
<1>5. QED
  BY <1>1, <1>4

\* The run that starts at a pixel lies in the region, and ends where it does.
LEMMA RunAt ==
    ASSUME NEW region, Bounded(region), NEW p \in region
    PROVE  LET run == SpanAt(region, p)
           IN  /\ run \in Block /\ run.x = p[1] /\ run.y = p[2] /\ run.h = 1
               /\ PixelsOf(run) \subseteq region
               /\ <<p[1] + run.w, p[2]>> \notin region
<1> DEFINE ends == {q[1] : q \in {e \in region : e[2] = p[2] /\ e[1] >= p[1]
                                                /\ <<e[1] + 1, e[2]>> \notin region}}
           run == SpanAt(region, p)
<1>1. \A q \in region : q = <<q[1], q[2]>> /\ q[1] \in Int /\ q[2] \in Int
  BY BoundedIsFinite
<1>2. /\ \A x : x \in ends <=> /\ x \in Int /\ x >= p[1]
                               /\ <<x, p[2]>> \in region /\ <<x + 1, p[2]>> \notin region
      /\ p[1] \in Int /\ p[2] \in Int
  BY <1>1
<1>3. run = Rect(p[1], p[2], Min(ends) - p[1] + 1, 1)
  BY DEF SpanAt
<1> HIDE DEF ends, run
<1>4. ends # {}
  <2> DEFINE row == {x \in Int : <<x, p[2]>> \in region}
  <2>1. PICK n \in Nat : region \subseteq ((-n)..n) \X ((-n)..n)
    BY DEF Bounded
  <2>2. row \in SUBSET Int /\ p[1] \in row /\ n \in Int /\ \A x \in row : x <= n
    BY <1>1, <2>1
  <2> HIDE DEF row
  <2>3. PICK x \in row : \A z \in row : z <= x
    BY <2>2, LargestUpTo
  <2>4. x \in Int /\ x >= p[1] /\ <<x, p[2]>> \in region
    BY <1>2, <2>2, <2>3 DEF row
  <2>5. <<x + 1, p[2]>> \notin region
    <3>1. x + 1 \in Int /\ ~(x + 1 <= x)
      BY <2>4
    <3>2. x + 1 \notin row
      BY <2>3, <3>1
    <3>3. QED
      BY <3>1, <3>2 DEF row
  <2>6. QED
    BY <1>2, <2>4, <2>5
<1>5. Min(ends) \in ends /\ \A x \in ends : Min(ends) <= x
  <2>1. ends \in SUBSET Int /\ \A x \in ends : p[1] <= x
    BY <1>2
  <2>2. QED
    BY <1>2, <1>4, <2>1, MinFrom
<1> DEFINE last == Min(ends)
<1>6. /\ last \in Int /\ last >= p[1] /\ <<last + 1, p[2]>> \notin region
      /\ run = Rect(p[1], p[2], last - p[1] + 1, 1)
  BY <1>2, <1>3, <1>5
<1>7. \A x \in p[1]..last : <<x, p[2]>> \in region
  <2> SUFFICES ASSUME NEW y \in p[1]..last, <<y, p[2]>> \notin region PROVE FALSE
    OBVIOUS
  <2> DEFINE gaps == {x \in p[1]..last : <<x, p[2]>> \notin region}
  <2>1. gaps \in SUBSET Int /\ gaps # {} /\ \A x \in gaps : p[1] <= x
    BY <1>2, <1>6
  <2>2. Min(gaps) \in gaps /\ \A x \in gaps : Min(gaps) <= x
    BY <1>2, <2>1, MinFrom
  <2> DEFINE g == Min(gaps)
  <2>3. g \in p[1]..last /\ <<g, p[2]>> \notin region
    BY <2>2
  <2>4. \A x \in p[1]..last : <<x, p[2]>> \notin region => g <= x
    BY <2>2
  <2> HIDE DEF g, last, gaps
  <2>5. g # p[1]
    BY <1>1, <2>3
  <2>6. g - 1 \in p[1]..last /\ ~(g <= g - 1) /\ (g - 1) + 1 = g
    BY <1>2, <1>6, <2>3, <2>5
  <2>7. <<g - 1, p[2]>> \in region
    BY <2>4, <2>6
  <2>8. g - 1 \in ends
    BY <1>2, <2>3, <2>6, <2>7
  <2>9. last <= g - 1
    BY <1>5, <2>8 DEF last
  <2>10. QED
    BY <1>2, <1>6, <2>3, <2>9
<1> HIDE DEF last
<1>8. /\ run.x = p[1] /\ run.y = p[2] /\ run.w = last - p[1] + 1 /\ run.h = 1
      /\ run \in Block
  BY <1>2, <1>6 DEF Rect, Block, Rectangle
<1>9. PixelsOf(run) \subseteq region
  <2> SUFFICES ASSUME NEW q \in PixelsOf(run) PROVE q \in region
    OBVIOUS
  <2>1. /\ q = <<q[1], q[2]>> /\ q[1] \in Int /\ q[2] \in Int /\ p[1] <= q[1]
        /\ q[1] < p[1] + (last - p[1] + 1) /\ p[2] <= q[2] /\ q[2] < p[2] + 1
    BY <1>8, PixelsByEdges DEF Block
  <2>2. q[1] \in p[1]..last /\ q[2] = p[2]
    BY <1>2, <1>6, <2>1
  <2>3. QED
    BY <1>7, <2>1, <2>2
<1>10. <<p[1] + run.w, p[2]>> \notin region
  BY <1>2, <1>6, <1>8
<1>11. QED
  BY <1>8, <1>9, <1>10 DEF run

\* Each pixel is in the run of the last start before it.
LEMMA RunsCover ==
    ASSUME NEW region, Bounded(region), NEW q \in region
    PROVE  \E p \in RunStarts(region) : q \in PixelsOf(SpanAt(region, p))
<1> DEFINE from == {x \in Int : /\ x <= q[1] /\ <<x, q[2]>> \in region
                                /\ \A z \in x..q[1] : <<z, q[2]>> \in region}
<1>1. /\ q = <<q[1], q[2]>> /\ q[1] \in Int /\ q[2] \in Int
      /\ \A p \in region : p = <<p[1], p[2]>> /\ p[1] \in Int /\ p[2] \in Int
  BY BoundedIsFinite
<1>2. PICK n \in Nat : region \subseteq ((-n)..n) \X ((-n)..n)
  BY DEF Bounded
<1>3. from \in SUBSET Int /\ q[1] \in from /\ -n \in Int /\ \A x \in from : -n <= x
  <2>1. q[1] \in from
    <3>1. \A z \in q[1]..q[1] : z = q[1]
      BY <1>1
    <3>2. QED
      BY <1>1, <3>1
  <2>2. \A x \in from : -n <= x
    BY <1>2
  <2>3. QED
    BY <2>1, <2>2
<1>4. Min(from) \in from /\ \A x \in from : Min(from) <= x
  <2> HIDE DEF from
  <2>1. QED
    BY <1>3, MinFrom
<1> DEFINE m == Min(from)
           p == <<m, q[2]>>
           run == SpanAt(region, p)
<1>5. /\ m \in Int /\ m <= q[1] /\ p \in region
      /\ \A z \in m..q[1] : <<z, q[2]>> \in region
  BY <1>4
<1>6. <<m - 1, q[2]>> \notin region
  <2> SUFFICES ASSUME <<m - 1, q[2]>> \in region PROVE FALSE
    OBVIOUS
  <2> HIDE DEF m
  <2>1. m - 1 \in Int /\ m - 1 <= q[1] /\ ~(m <= m - 1)
    BY <1>1, <1>5
  <2>2. \A z \in (m - 1)..q[1] : z = m - 1 \/ z \in m..q[1]
    BY <1>1, <1>5
  <2>3. m - 1 \in from
    BY <1>5, <2>1, <2>2
  <2>4. QED
    BY <1>4, <2>1, <2>3 DEF m
<1> HIDE DEF m, from
<1>7. p \in RunStarts(region) /\ p[1] = m /\ p[2] = q[2]
  BY <1>5, <1>6 DEF RunStarts
<1>8. /\ run \in Block /\ run.x = m /\ run.y = q[2] /\ run.h = 1
      /\ <<m + run.w, q[2]>> \notin region
  <2> HIDE DEF p
  <2>1. p \in region
    BY <1>5
  <2>2. QED
    BY <1>7, <2>1, RunAt
<1> HIDE DEF run
<1>9. run \in Rectangle /\ run.w \in Nat
  BY <1>8 DEF Block, Rectangle
<1>10. q[1] < m + run.w
  <2> SUFFICES ASSUME ~(q[1] < m + run.w) PROVE FALSE
    OBVIOUS
  <2>1. m + run.w \in m..q[1]
    BY <1>1, <1>5, <1>9
  <2>2. QED
    BY <1>5, <1>8, <2>1
<1>11. q \in PixelsOf(run)
  BY <1>1, <1>5, <1>8, <1>9, <1>10, PixelsByEdges
<1>12. QED
  BY <1>7, <1>11 DEF run

\* Runs that start at different pixels have none in common.
LEMMA RunsAreDisjoint ==
    ASSUME NEW region, Bounded(region),
           NEW p \in RunStarts(region), NEW q \in RunStarts(region), p # q
    PROVE  PixelsOf(SpanAt(region, p)) \cap PixelsOf(SpanAt(region, q)) = {}
<1>1. ASSUME NEW a \in RunStarts(region), NEW b \in RunStarts(region), a[1] < b[1],
             NEW e \in PixelsOf(SpanAt(region, a)), e \in PixelsOf(SpanAt(region, b))
      PROVE  FALSE
  <2> DEFINE r == SpanAt(region, a)
             s == SpanAt(region, b)
  <2>1. /\ a \in region /\ b \in region /\ <<b[1] - 1, b[2]>> \notin region
        /\ a[1] \in Int /\ a[2] \in Int /\ b[1] \in Int /\ b[2] \in Int
    BY BoundedIsFinite DEF RunStarts
  <2>2. /\ r \in Block /\ r.x = a[1] /\ r.y = a[2] /\ r.h = 1 /\ PixelsOf(r) \subseteq region
        /\ s \in Block /\ s.x = b[1] /\ s.y = b[2] /\ s.h = 1
    BY <2>1, RunAt
  <2> HIDE DEF r, s
  <2>3. r \in Rectangle /\ s \in Rectangle /\ r.w \in Nat /\ s.w \in Nat
    BY <2>2 DEF Block, Rectangle
  <2>4. /\ e[1] \in Int /\ e[2] \in Int
        /\ e[1] < a[1] + r.w /\ a[2] <= e[2] /\ e[2] < a[2] + 1
        /\ b[1] <= e[1] /\ b[2] <= e[2] /\ e[2] < b[2] + 1
    BY <1>1, <2>2, <2>3, PixelsByEdges DEF r, s
  <2>5. /\ a[2] = b[2] /\ b[1] - 1 \in Int /\ a[1] <= b[1] - 1 /\ b[1] - 1 < a[1] + r.w
        /\ b[2] < a[2] + 1
    BY <1>1, <2>1, <2>3, <2>4
  <2> DEFINE f == <<b[1] - 1, b[2]>>
  <2>6. f = <<f[1], f[2]>> /\ f[1] = b[1] - 1 /\ f[2] = b[2]
    OBVIOUS
  <2> HIDE DEF f
  <2>7. f \in PixelsOf(r)
    BY <2>1, <2>2, <2>3, <2>5, <2>6, PixelsByEdges
  <2>8. QED
    BY <2>1, <2>2, <2>7 DEF f
<1>2. SUFFICES ASSUME NEW e \in PixelsOf(SpanAt(region, p)), e \in PixelsOf(SpanAt(region, q))
               PROVE  FALSE
  OBVIOUS
<1>3. /\ p \in region /\ p = <<p[1], p[2]>> /\ p[1] \in Int /\ p[2] \in Int
      /\ q \in region /\ q = <<q[1], q[2]>> /\ q[1] \in Int /\ q[2] \in Int
  BY BoundedIsFinite DEF RunStarts
<1>4. p[2] = q[2]
  <2> DEFINE r == SpanAt(region, p)
             s == SpanAt(region, q)
  <2>1. /\ r \in Block /\ r.y = p[2] /\ r.h = 1 /\ s \in Block /\ s.y = q[2] /\ s.h = 1
    <3>1. ASSUME NEW o \in region
          PROVE  SpanAt(region, o) \in Block /\ SpanAt(region, o).y = o[2] /\ SpanAt(region, o).h = 1
      BY RunAt
    <3> QED BY <1>3, <3>1
  <2> HIDE DEF r, s
  <2>2. e[2] \in Int /\ p[2] <= e[2] /\ e[2] < p[2] + 1 /\ q[2] <= e[2] /\ e[2] < q[2] + 1
    BY <1>2, <2>1, PixelsByEdges DEF r, s, Block
  <2>3. QED
    BY <1>3, <2>2
<1>5. p[1] < q[1] \/ q[1] < p[1]
  BY <1>3, <1>4
<1>6. QED
  BY <1>1, <1>2, <1>5

\* The starts of the runs are numbered from top to bottom.
LEMMA StartsAreNumbered ==
    ASSUME NEW region, Bounded(region)
    PROVE  LET starts == RunStarts(region)
               Place(p) == Cardinality({q \in starts : Precedes(q, p)})
           IN  /\ Cardinality(starts) \in Nat
               /\ \A p \in starts : Place(p) \in 1..Cardinality(starts)
               /\ \A p, q \in starts : Place(p) = Place(q) => p = q
               /\ \A i \in 1..Cardinality(starts) : \E p \in starts : Place(p) = i
               /\ \A p, q \in starts : Place(p) < Place(q) => p[2] <= q[2]
<1> DEFINE starts == RunStarts(region)
           Upto(p) == {q \in starts : Precedes(q, p)}
           Place(p) == Cardinality(Upto(p))
           n == Cardinality(starts)
<1>1. starts \subseteq region
  BY DEF RunStarts
<1>2. IsFiniteSet(starts)
  BY <1>1, BoundedIsFinite, FS_Subset
<1>3. \A p \in starts : p = <<p[1], p[2]>> /\ p[1] \in Int /\ p[2] \in Int
  BY <1>1, BoundedIsFinite
<1> HIDE DEF starts
<1>4. n \in Nat
  BY <1>2, FS_CardinalityType
<1>5. ASSUME NEW p \in starts
      PROVE  /\ IsFiniteSet(Upto(p)) /\ p \in Upto(p) /\ Place(p) \in 1..n
  <2>1. Upto(p) \in SUBSET starts
    OBVIOUS
  <2>2. p \in Upto(p)
    BY <1>3 DEF Precedes
  <2> HIDE DEF Upto
  <2>3. IsFiniteSet(Upto(p)) /\ Place(p) <= n
    BY <1>2, <2>1, FS_Subset
  <2>4. Place(p) \in Nat /\ Place(p) # 0
    BY <2>2, <2>3, FS_CardinalityType, FS_EmptySet
  <2>5. QED
    BY <1>4, <2>2, <2>3, <2>4
<1>6. ASSUME NEW p \in starts, NEW q \in starts, p # q, Precedes(p, q)
      PROVE  Place(p) < Place(q)
  <2>1. Upto(p) \in SUBSET Upto(q)
    BY <1>3, <1>6 DEF Precedes
  <2>2. q \notin Upto(p)
    BY <1>3, <1>6 DEF Precedes
  <2>3. /\ IsFiniteSet(Upto(p)) /\ IsFiniteSet(Upto(q)) /\ q \in Upto(q)
        /\ Place(p) \in Nat /\ Place(q) \in Nat
    BY <1>4, <1>5
  <2> HIDE DEF Upto
  <2>4. Place(p) <= Place(q) /\ Place(p) # Place(q)
    BY <2>1, <2>2, <2>3, FS_Subset
  <2>5. QED
    BY <2>3, <2>4
<1>7. ASSUME NEW p \in starts, NEW q \in starts
      PROVE  Precedes(p, q) \/ Precedes(q, p)
  BY <1>3 DEF Precedes
<1> HIDE DEF Upto, n
<1>8. ASSUME NEW p \in starts, NEW q \in starts, Place(p) = Place(q) PROVE p = q
  <2>1. Place(p) \in Int
    BY <1>4, <1>5
  <2> HIDE DEF Place
  <2>2. QED
    BY <1>6, <1>7, <1>8, <2>1
<1>9. ASSUME NEW i \in 1..n PROVE \E p \in starts : Place(p) = i
  <2> DEFINE f == [p \in starts |-> Place(p)]
  <2> HIDE DEF Place
  <2>1. f \in [starts -> 1..n]
    BY <1>5
  <2>2. f \in Injection(starts, 1..n)
    BY <1>8, <2>1 DEF Injection, IsInjective
  <2>3. IsFiniteSet(1..n) /\ Cardinality(1..n) = n
    BY <1>4, FS_Interval
  <2>4. f \in Surjection(starts, 1..n)
    BY <2>2, <2>3, FS_Injection DEF n
  <2>5. PICK p \in starts : f[p] = i
    BY <2>4 DEF Surjection
  <2>6. QED
    BY <2>5
<1>10. ASSUME NEW p \in starts, NEW q \in starts, Place(p) < Place(q) PROVE p[2] <= q[2]
  <2>1. Place(p) \in Int /\ Place(q) \in Int
    BY <1>4, <1>5
  <2> HIDE DEF Place
  <2>2. ~Precedes(q, p)
    BY <1>6, <1>10, <2>1
  <2>3. QED
    BY <1>3, <2>2 DEF Precedes
<1>11. QED
  BY <1>4, <1>5, <1>8, <1>9, <1>10 DEF Place, Upto, n, starts

\* The rectangles of a region, from top to bottom, are as high as a row, and have its
\* pixels, each once.
LEMMA RegionPartition ==
    ASSUME NEW region, Bounded(region)
    PROVE  LET sequence == RegionRects(region)
           IN  /\ Partition(sequence, region)
               /\ \A i \in DOMAIN sequence : sequence[i].h = 1
               /\ \A i, j \in DOMAIN sequence : i < j => sequence[i].y <= sequence[j].y
<1> DEFINE starts == RunStarts(region)
           Place(p) == Cardinality({q \in starts : Precedes(q, p)})
           n == Cardinality(starts)
           start(i) == CHOOSE p \in starts : Place(p) = i
           sequence == RegionRects(region)
<1>1. /\ n \in Nat
      /\ \A p \in starts : Place(p) \in 1..n
      /\ \A p, q \in starts : Place(p) = Place(q) => p = q
      /\ \A i \in 1..n : \E p \in starts : Place(p) = i
      /\ \A p, q \in starts : Place(p) < Place(q) => p[2] <= q[2]
  BY StartsAreNumbered
<1>2. sequence = [i \in 1..n |-> SpanAt(region, start(i))]
  BY DEF RegionRects
<1>3. \A p \in starts : p \in region
  BY DEF RunStarts
<1>4. /\ \A p \in starts : \A q \in starts :
            p # q => PixelsOf(SpanAt(region, p)) \cap PixelsOf(SpanAt(region, q)) = {}
      /\ \A q \in region : \E p \in starts : q \in PixelsOf(SpanAt(region, p))
  BY RunsAreDisjoint, RunsCover
<1> HIDE DEF starts, Place, n, sequence
<1>5. \A i \in 1..n : start(i) \in starts /\ Place(start(i)) = i
  BY <1>1
<1> HIDE DEF start
<1>6. \A i \in 1..n :
        /\ sequence[i] \in Block /\ sequence[i].h = 1 /\ sequence[i].y = start(i)[2]
        /\ PixelsOf(sequence[i]) \subseteq region
  BY <1>2, <1>3, <1>5, RunAt
<1>7. DOMAIN sequence = 1..n /\ sequence \in Seq(Block)
  <2>1. DOMAIN sequence = 1..n
    BY <1>2
  <2>2. sequence = [i \in 1..n |-> sequence[i]]
    BY <1>2, <2>1
  <2>3. QED
    BY <1>1, <1>6, <2>1, <2>2
<1>8. Disjoint(sequence)
  <2> SUFFICES ASSUME NEW i \in 1..n, NEW j \in 1..n, i # j
               PROVE  PixelsOf(sequence[i]) \cap PixelsOf(sequence[j]) = {}
    BY <1>7 DEF Disjoint
  <2>1. start(i) \in starts /\ start(j) \in starts /\ start(i) # start(j)
    BY <1>5
  <2>2. QED
    BY <1>2, <1>4, <2>1
<1>9. PixelsIn(sequence) = region
  <2>1. PixelsIn(sequence) \subseteq region
    BY <1>6, <1>7 DEF PixelsIn
  <2>2. ASSUME NEW q \in region PROVE q \in PixelsIn(sequence)
    <3>1. PICK p \in starts : q \in PixelsOf(SpanAt(region, p))
      BY <1>4
    <3>2. Place(p) \in 1..n
      BY <1>1
    <3>3. start(Place(p)) = p
      BY <1>1, <1>5, <3>2
    <3>4. q \in PixelsOf(sequence[Place(p)])
      BY <1>2, <3>1, <3>2, <3>3
    <3>5. QED
      BY <1>7, <3>2, <3>4 DEF PixelsIn
  <2>3. QED
    BY <2>1, <2>2
<1>10. ASSUME NEW i \in 1..n, NEW j \in 1..n, i < j PROVE sequence[i].y <= sequence[j].y
  BY <1>1, <1>5, <1>6, <1>10
<1>11. QED
  BY <1>6, <1>7, <1>8, <1>9, <1>10 DEF Partition, sequence

\* Two blocks one above the other that have the same columns are united to one of the
\* pixels of both.
LEMMA UnitedIsBoth ==
    ASSUME NEW r \in Block, NEW s \in Block, s.y = r.y + r.h, s.x = r.x, s.w = r.w
    PROVE  /\ United(r, s) = Rect(r.x, r.y, r.w, r.h + s.h)
           /\ United(r, s) \in Block
           /\ PixelsOf(United(r, s)) = PixelsOf(r) \cup PixelsOf(s)
<1> DEFINE both == PixelsOf(r) \cup PixelsOf(s)
           xs == {p[1] : p \in both}
           ys == {p[2] : p \in both}
           u == Rect(r.x, r.y, r.w, r.h + s.h)
<1>1. /\ r.x \in Int /\ r.y \in Int /\ r.w \in Nat /\ r.h \in Nat /\ r.w > 0 /\ r.h > 0
      /\ s.x \in Int /\ s.y \in Int /\ s.w \in Nat /\ s.h \in Nat /\ s.w > 0 /\ s.h > 0
      /\ r \in Rectangle /\ s \in Rectangle
  BY DEF Block, Rectangle
<1>2. /\ u \in Block /\ u \in Rectangle
      /\ u.x = r.x /\ u.y = r.y /\ u.w = r.w /\ u.h = r.h + s.h
  BY <1>1 DEF Rect, Block, Rectangle
<1> HIDE DEF u
<1>3. ASSUME NEW p PROVE p \in both <=> p \in PixelsOf(u)
  <2>1. p \in PixelsOf(r) <=>
            /\ p = <<p[1], p[2]>> /\ p[1] \in Int /\ p[2] \in Int
            /\ r.x <= p[1] /\ p[1] < r.x + r.w /\ r.y <= p[2] /\ p[2] < r.y + r.h
    BY <1>1, PixelsByEdges
  <2>2. p \in PixelsOf(s) <=>
            /\ p = <<p[1], p[2]>> /\ p[1] \in Int /\ p[2] \in Int
            /\ s.x <= p[1] /\ p[1] < s.x + s.w /\ s.y <= p[2] /\ p[2] < s.y + s.h
    BY <1>1, PixelsByEdges
  <2>3. p \in PixelsOf(u) <=>
            /\ p = <<p[1], p[2]>> /\ p[1] \in Int /\ p[2] \in Int
            /\ u.x <= p[1] /\ p[1] < u.x + u.w /\ u.y <= p[2] /\ p[2] < u.y + u.h
    BY <1>2, PixelsByEdges
  <2>4. QED
    BY <1>1, <1>2, <2>1, <2>2, <2>3
<1>4. both = PixelsOf(u)
  BY <1>3
<1> HIDE DEF both
<1>5. \A p \in both : /\ p[1] \in Int /\ p[2] \in Int
                      /\ u.x <= p[1] /\ p[1] < u.x + u.w /\ u.y <= p[2] /\ p[2] < u.y + u.h
  BY <1>2, <1>4, PixelsByEdges
<1>6. <<u.x, u.y>> \in both /\ <<u.x + u.w - 1, u.y + u.h - 1>> \in both
  <2> DEFINE p == <<u.x + u.w - 1, u.y + u.h - 1>>
  <2>1. /\ p = <<p[1], p[2]>> /\ p[1] = u.x + u.w - 1 /\ p[2] = u.y + u.h - 1
    OBVIOUS
  <2> HIDE DEF p
  <2>2. p \in PixelsOf(u)
    <3>1. /\ p[1] \in Int /\ p[2] \in Int
          /\ u.x <= p[1] /\ p[1] < u.x + u.w /\ u.y <= p[2] /\ p[2] < u.y + u.h
      BY <1>1, <1>2, <2>1
    <3>2. QED
      BY <1>2, <2>1, <3>1, PixelsByEdges
  <2>3. QED
    BY <1>2, <1>4, <2>2, PixelsByEdges DEF p
<1>7. Min(xs) = u.x /\ Min(ys) = u.y /\ Max(xs) = u.x + u.w - 1 /\ Max(ys) = u.y + u.h - 1
  <2>1. \A x \in xs : x \in Int /\ u.x <= x /\ x <= u.x + u.w - 1
    BY <1>1, <1>2, <1>5
  <2>2. \A y \in ys : y \in Int /\ u.y <= y /\ y <= u.y + u.h - 1
    BY <1>1, <1>2, <1>5
  <2>3. u.x \in xs /\ u.y \in ys
    BY <1>6
  <2>4. u.x + u.w - 1 \in xs /\ u.y + u.h - 1 \in ys
    BY <1>6
  <2> HIDE DEF xs, ys
  <2>5. u.x \in Int /\ u.y \in Int /\ u.x + u.w - 1 \in Int /\ u.y + u.h - 1 \in Int
    BY <1>1, <1>2
  <2>6. Min(xs) = u.x
    BY <2>1, <2>3, <2>5 DEF Min
  <2>7. Min(ys) = u.y
    BY <2>2, <2>3, <2>5 DEF Min
  <2>8. Max(xs) = u.x + u.w - 1
    BY <2>1, <2>4, <2>5 DEF Max
  <2>9. Max(ys) = u.y + u.h - 1
    BY <2>2, <2>4, <2>5 DEF Max
  <2>10. QED
    BY <2>6, <2>7, <2>8, <2>9
<1>8. United(r, s) = u
  <2>1. United(r, s) = Between(Min(xs), Min(ys), Max(xs), Max(ys))
    BY DEF United, Around, both
  <2>2. United(r, s) = Between(u.x, u.y, u.x + u.w - 1, u.y + u.h - 1)
    BY <1>7, <2>1
  <2>3. ~(u.x > u.x + u.w - 1 \/ u.y > u.y + u.h - 1)
    BY <1>1, <1>2
  <2>4. /\ (u.x + u.w - 1) - u.x + 1 = u.w /\ (u.y + u.h - 1) - u.y + 1 = u.h
    BY <1>1, <1>2
  <2>5. United(r, s) = Rect(u.x, u.y, u.w, u.h)
    <3> DEFINE right == u.x + u.w - 1
               bottom == u.y + u.h - 1
    <3>1. right - u.x + 1 = u.w /\ bottom - u.y + 1 = u.h
      BY <2>4
    <3> HIDE DEF right, bottom
    <3>2. United(r, s) = Rect(u.x, u.y, right - u.x + 1, bottom - u.y + 1)
      BY <2>2, <2>3 DEF Between, right, bottom
    <3>3. QED
      BY <3>1, <3>2
  <2>6. QED
    BY <1>2, <2>5 DEF Rect, Rectangle
<1>9. QED
  BY <1>2, <1>4, <1>8 DEF u, both

\* Rectangles that are united are one above the other and equally wide.
LEMMA AdjacentBlocks ==
    ASSUME NEW s \in Rectangle, NEW r \in Rectangle, VerticallyAdjacent(s, r)
    PROVE  s.x = r.x /\ s.w = r.w /\ (r.y = s.y + s.h \/ s.y = r.y + r.h)
<1>1. /\ s.x \in Int /\ s.y \in Int /\ s.w \in Int /\ s.h \in Int
      /\ r.x \in Int /\ r.y \in Int /\ r.w \in Int /\ r.h \in Int
  BY DEF Rectangle
<1>2. /\ (s.y + s.h - 1) + 1 = r.y \/ s.y = (r.y + r.h - 1) + 1
      /\ s.x = r.x \/ s.x + s.w - 1 = r.x + r.w - 1
      /\ s.w = r.w
  BY DEF VerticallyAdjacent, Right, Bottom
<1>3. \A y, h \in Int : (y + h - 1) + 1 = y + h
  OBVIOUS
<1>4. r.y = s.y + s.h \/ s.y = r.y + r.h
  BY <1>1, <1>2, <1>3
<1>5. \A x, u, w \in Int : x + w - 1 = u + w - 1 => x = u
  OBVIOUS
<1>6. CASE s.x + s.w - 1 = r.x + r.w - 1
  <2>1. s.x + s.w - 1 = r.x + s.w - 1
    BY <1>2, <1>6
  <2>2. s.x = r.x
    BY <1>1, <1>5, <2>1
  <2> QED BY <1>2, <1>4, <2>2
<1> QED BY <1>2, <1>4, <1>6

\* What verticallyUniteRects does with one rectangle.
Unite(result, r) ==
    IF \E i \in DOMAIN result : VerticallyAdjacent(result[i], r)
    THEN [i \in DOMAIN result |->
            IF VerticallyAdjacent(result[i], r) THEN United(result[i], r) ELSE result[i]]
    ELSE Append(result, r)

\* A part of the region above some row, and a rectangle of that row.
LEMMA UniteOne ==
    ASSUME NEW result, NEW region, Partition(result, region),
           NEW r \in Block, PixelsOf(r) \cap region = {}, r.h = 1,
           \A i \in DOMAIN result : result[i].y + result[i].h - 1 <= r.y
    PROVE  /\ Partition(Unite(result, r), region \cup PixelsOf(r))
           /\ \A i \in DOMAIN Unite(result, r) :
                Unite(result, r)[i].y + Unite(result, r)[i].h - 1 <= r.y
<1> DEFINE Fits(i) == VerticallyAdjacent(result[i], r)
           whole == Unite(result, r)
<1>1. /\ result \in Seq(Block) /\ r \in Rectangle
      /\ r.x \in Int /\ r.y \in Int /\ r.w \in Nat /\ r.w > 0
  BY DEF Partition, Block, Rectangle
<1>2. \A i \in DOMAIN result :
        /\ result[i] \in Block /\ result[i] \in Rectangle
        /\ result[i].x \in Int /\ result[i].y \in Int
        /\ result[i].w \in Nat /\ result[i].h \in Nat /\ result[i].w > 0 /\ result[i].h > 0
        /\ PixelsOf(result[i]) \subseteq region
  <2> TAKE i \in DOMAIN result
  <2> DEFINE s == result[i]
  <2>1. s \in Block
    BY <1>1
  <2>2. PixelsOf(s) \subseteq region
    BY DEF Partition, PixelsIn
  <2> HIDE DEF s
  <2>3. /\ s \in Rectangle /\ s.x \in Int /\ s.y \in Int /\ s.w \in Nat /\ s.h \in Nat
        /\ s.w > 0 /\ s.h > 0
    BY <2>1 DEF Block, Rectangle
  <2> QED BY <2>1, <2>2, <2>3 DEF s
<1>3. ASSUME NEW i \in DOMAIN result, Fits(i)
      PROVE  /\ r.y = result[i].y + result[i].h /\ r.x = result[i].x /\ r.w = result[i].w
  <2> DEFINE s == result[i]
  <2>1. s \in Rectangle /\ VerticallyAdjacent(s, r)
    BY <1>2, <1>3
  <2>2. /\ s.y \in Int /\ s.h \in Int /\ s.h > 0 /\ s.y + s.h - 1 <= r.y
    BY <1>2
  <2> HIDE DEF s
  <2>3. s.x = r.x /\ s.w = r.w /\ (r.y = s.y + s.h \/ s.y = r.y + r.h)
    BY <1>1, <2>1, AdjacentBlocks
  <2>4. s.y # r.y + r.h
    BY <1>1, <2>2
  <2> QED BY <2>3, <2>4 DEF s
<1>4. ASSUME NEW i \in DOMAIN result, Fits(i)
      PROVE  /\ United(result[i], r) \in Block
             /\ PixelsOf(United(result[i], r)) = PixelsOf(result[i]) \cup PixelsOf(r)
             /\ United(result[i], r).y + United(result[i], r).h - 1 = r.y
  <2>1. /\ r.y = result[i].y + result[i].h /\ r.x = result[i].x /\ r.w = result[i].w
    BY <1>3, <1>4
  <2>2. /\ United(result[i], r) = Rect(result[i].x, result[i].y, result[i].w, result[i].h + r.h)
        /\ United(result[i], r) \in Block
        /\ PixelsOf(United(result[i], r)) = PixelsOf(result[i]) \cup PixelsOf(r)
    BY <1>2, <2>1, UnitedIsBoth
  <2>3. /\ United(result[i], r).y = result[i].y
        /\ United(result[i], r).h = result[i].h + 1
    BY <2>2 DEF Rect
  <2>4. result[i].y + (result[i].h + 1) - 1 = result[i].y + result[i].h
    BY <1>2
  <2>5. United(result[i], r).y + United(result[i], r).h - 1 = r.y
    BY <2>1, <2>3, <2>4
  <2> QED BY <2>2, <2>5
<1>5. ASSUME NEW i \in DOMAIN result, NEW j \in DOMAIN result, Fits(i), Fits(j)
      PROVE  i = j
  <2> DEFINE p == <<r.x, r.y - 1>>
  <2>1. p = <<p[1], p[2]>> /\ p[1] = r.x /\ p[2] = r.y - 1
    OBVIOUS
  <2> HIDE DEF p
  <2>2. ASSUME NEW k \in DOMAIN result, Fits(k) PROVE p \in PixelsOf(result[k])
    <3>1. r.y = result[k].y + result[k].h /\ r.x = result[k].x /\ r.w = result[k].w
      BY <1>3, <2>2
    <3>2. r.y - 1 \in Int /\ result[k].y <= r.y - 1 /\ r.y - 1 < result[k].y + result[k].h
      BY <1>1, <1>2, <3>1
    <3>3. r.x \in Int /\ result[k].x <= r.x /\ r.x < result[k].x + result[k].w
      BY <1>1, <1>2, <3>1
    <3>4. QED
      <4>1. /\ p[1] \in Int /\ p[2] \in Int
            /\ result[k].x <= p[1] /\ p[1] < result[k].x + result[k].w
            /\ result[k].y <= p[2] /\ p[2] < result[k].y + result[k].h
        <5>1. p[1] = r.x /\ p[2] = r.y - 1
          BY <2>1
        <5>2. QED
          BY <3>2, <3>3, <5>1
      <4>2. result[k] \in Rectangle
        BY <1>2
      <4>3. QED
        BY <2>1, <4>1, <4>2, PixelsByEdges
  <2>3. QED
    BY <1>5, <2>2 DEF Partition, Disjoint
<1>6. CASE \E i \in DOMAIN result : Fits(i)
  <2>1. PICK k \in DOMAIN result : Fits(k)
    BY <1>6
  <2>2. \A i \in DOMAIN result : Fits(i) <=> i = k
    BY <1>5, <2>1
  <2>3. whole = [i \in DOMAIN result |->
                    IF Fits(i) THEN United(result[i], r) ELSE result[i]]
    BY <1>6 DEF Unite
  <2> HIDE DEF Fits, whole
  <2>4. /\ DOMAIN whole = DOMAIN result
        /\ \A i \in DOMAIN result :
            /\ whole[i] \in Block
            /\ PixelsOf(whole[i]) = PixelsOf(result[i]) \cup (IF i = k THEN PixelsOf(r) ELSE {})
            /\ whole[i].y + whole[i].h - 1 <= r.y
    <3>1. DOMAIN whole = DOMAIN result
      BY <2>3
    <3>2. ASSUME NEW i \in DOMAIN result
          PROVE  /\ whole[i] \in Block
                 /\ PixelsOf(whole[i]) =
                        PixelsOf(result[i]) \cup (IF i = k THEN PixelsOf(r) ELSE {})
                 /\ whole[i].y + whole[i].h - 1 <= r.y
      <4>1. CASE i = k
        <5>1. whole[i] = United(result[i], r)
          BY <2>2, <2>3, <4>1
        <5>2. QED
          BY <1>1, <1>4, <2>1, <4>1, <5>1
      <4>2. CASE i # k
        <5>1. whole[i] = result[i]
          BY <2>2, <2>3, <4>2
        <5>2. QED
          BY <1>2, <4>2, <5>1
      <4>3. QED
        BY <4>1, <4>2
    <3>3. QED
      BY <3>1, <3>2
  <2>5. whole \in Seq(Block)
    <3>1. whole = [i \in 1..Len(result) |-> whole[i]] /\ Len(result) \in Nat
          /\ DOMAIN result = 1..Len(result)
      BY <1>1, <2>3
    <3>2. QED
      BY <2>4, <3>1
  <2>6. Disjoint(whole)
    <3> SUFFICES ASSUME NEW i \in DOMAIN result, NEW j \in DOMAIN result, i # j,
                        NEW p \in PixelsOf(whole[i]), p \in PixelsOf(whole[j])
                 PROVE  FALSE
      BY <2>4 DEF Disjoint
    <3>1. \/ p \in PixelsOf(result[i]) /\ p \in PixelsOf(result[j])
          \/ p \in PixelsOf(r) /\ (p \in PixelsOf(result[i]) \/ p \in PixelsOf(result[j]))
      BY <2>4
    <3>2. QED
      BY <1>2, <3>1 DEF Partition, Disjoint
  <2>7. PixelsIn(whole) = region \cup PixelsOf(r)
    <3>1. \A p : p \in PixelsIn(whole) <=> \E i \in DOMAIN result : p \in PixelsOf(whole[i])
      BY <2>4 DEF PixelsIn
    <3>2. \A p : p \in region <=> \E i \in DOMAIN result : p \in PixelsOf(result[i])
      BY DEF PixelsIn, Partition
    <3>3. QED
      BY <2>1, <2>4, <3>1, <3>2
  <2>8. QED
    BY <2>4, <2>5, <2>6, <2>7 DEF whole, Partition
<1>7. CASE ~\E i \in DOMAIN result : Fits(i)
  <2>1. whole = Append(result, r)
    BY <1>7 DEF Unite
  <2> HIDE DEF whole, Fits
  <2> DEFINE n == Len(result)
  <2>2. /\ n \in Nat /\ DOMAIN result = 1..n
        /\ whole \in Seq(Block) /\ DOMAIN whole = 1..(n + 1)
        /\ whole[n + 1] = r /\ \A i \in 1..n : whole[i] = result[i]
    BY <1>1, <2>1
  <2> HIDE DEF n
  <2>3. \A i \in 1..(n + 1) : i \in 1..n \/ i = n + 1
    BY <2>2
  <2>4. Disjoint(whole)
    <3> SUFFICES ASSUME NEW i \in 1..(n + 1), NEW j \in 1..(n + 1), i # j
                 PROVE  PixelsOf(whole[i]) \cap PixelsOf(whole[j]) = {}
      BY <2>2 DEF Disjoint
    <3>1. CASE i \in 1..n /\ j \in 1..n
      BY <2>2, <3>1 DEF Partition, Disjoint
    <3>2. CASE i \in 1..n /\ j = n + 1
      BY <1>2, <2>2, <3>2
    <3>3. CASE i = n + 1 /\ j \in 1..n
      BY <1>2, <2>2, <3>3
    <3>4. QED
      BY <2>3, <3>1, <3>2, <3>3
  <2>5. PixelsIn(whole) = region \cup PixelsOf(r)
    <3>1. \A p : p \in PixelsIn(whole) <=> \E i \in 1..(n + 1) : p \in PixelsOf(whole[i])
      BY <2>2 DEF PixelsIn
    <3>2. \A p : p \in region <=> \E i \in 1..n : p \in PixelsOf(result[i])
      BY <2>2 DEF PixelsIn, Partition
    <3>3. n + 1 \in 1..(n + 1) /\ 1..n \subseteq 1..(n + 1)
      BY <2>2
    <3>4. QED
      BY <2>2, <2>3, <3>1, <3>2, <3>3
  <2>6. \A i \in 1..(n + 1) : whole[i].y + whole[i].h - 1 <= r.y
    <3>1. whole[n + 1].y + whole[n + 1].h - 1 <= r.y
      BY <1>1, <2>2
    <3>2. \A i \in 1..n : whole[i].y + whole[i].h - 1 <= r.y
      BY <2>2
    <3> QED BY <2>3, <3>1, <3>2
  <2>7. QED
    BY <2>2, <2>4, <2>5, <2>6 DEF whole, Partition
<1>8. QED
  BY <1>6, <1>7

\* It makes blocks of blocks.
LEMMA UniteType ==
    ASSUME NEW result \in Seq(Block), NEW r \in Block
    PROVE  Unite(result, r) \in Seq(Block)
<1>1. /\ Len(result) \in Nat /\ DOMAIN result = 1..Len(result)
      /\ \A i \in DOMAIN result : result[i] \in Block
  OBVIOUS
<1>2. ASSUME NEW i \in DOMAIN result, VerticallyAdjacent(result[i], r)
      PROVE  United(result[i], r) \in Block
  <2> DEFINE s == result[i]
  <2>1. s \in Block
    OBVIOUS
  <2> HIDE DEF s
  <2>2. /\ s.x \in Int /\ s.y \in Int /\ s.w \in Nat /\ s.h \in Nat
        /\ r.x \in Int /\ r.y \in Int /\ r.w \in Nat /\ r.h \in Nat
    BY <2>1 DEF Block, Rectangle
  <2>3. VerticallyAdjacent(s, r)
    BY <1>2 DEF s
  <2>4. s.x = r.x /\ s.w = r.w /\ (r.y = s.y + s.h \/ s.y = r.y + r.h)
    <3>1. s \in Rectangle /\ r \in Rectangle
      BY <2>1 DEF Block
    <3> QED BY <2>3, <3>1, AdjacentBlocks
  <2>5. United(s, r) = United(r, s)
    <3>1. PixelsOf(s) \cup PixelsOf(r) = PixelsOf(r) \cup PixelsOf(s)
      OBVIOUS
    <3>2. QED
      BY <3>1 DEF United
  <2>6. United(s, r) \in Block
    BY <2>1, <2>4, <2>5, UnitedIsBoth
  <2>7. QED
    BY <2>6 DEF s
<1>3. CASE \E i \in DOMAIN result : VerticallyAdjacent(result[i], r)
  BY <1>1, <1>2, <1>3 DEF Unite
<1>4. CASE ~\E i \in DOMAIN result : VerticallyAdjacent(result[i], r)
  <2>1. Unite(result, r) = Append(result, r)
    BY <1>4 DEF Unite
  <2>2. QED
    BY <2>1
<1>5. QED
  BY <1>3, <1>4

\* What is united of the first rectangles, for each number of them.
LEMMA UnitedSoFar ==
    ASSUME NEW sequence \in Seq(Block)
    PROVE  \E f \in [0..Len(sequence) -> Seq(Block)] :
            /\ VerticallyUniteRects(sequence) = f[Len(sequence)]
            /\ f[0] = <<>>
            /\ \A n \in 1..Len(sequence) : f[n] = Unite(f[n - 1], sequence[n])
<1> DEFINE N == Len(sequence)
           X == Seq(Block)
           F == [v \in X \X (1..N) |-> Unite(v[1], sequence[v[2]])]
           Is(f) == f = [n \in 0..N |-> IF n = 0 THEN <<>> ELSE Unite(f[n - 1], sequence[n])]
<1>1. N \in Nat /\ \A n \in 1..N : sequence[n] \in Block
  OBVIOUS
<1>2. /\ F \in [X \X (1..N) -> X]
      /\ \A s \in X : \A n \in 1..N : F[<<s, n>>] = Unite(s, sequence[n])
  <2>1. ASSUME NEW v \in X \X (1..N) PROVE Unite(v[1], sequence[v[2]]) \in X
    BY <1>1, UniteType
  <2>2. QED
    BY <2>1
<1>3. <<>> \in X
  OBVIOUS
<1> HIDE DEF N, X, F
<1>4. PICK g \in [0..N -> X] :
        g[0] = <<>> /\ \A n \in 1..N : g[n] = F[<<g[n - 1], n>>]
  <2>1. \E g : Recursive(g, N, X, <<>>, F)
    BY <1>1, <1>2, <1>3, Recursion
  <2>2. QED
    BY <2>1 DEF Recursive
<1>5. Is(g)
  <2> DEFINE h == [n \in 0..N |-> IF n = 0 THEN <<>> ELSE Unite(g[n - 1], sequence[n])]
  <2>1. \A n \in 0..N : n # 0 => n - 1 \in 0..N /\ n \in 1..N
    BY <1>1
  <2>2. \A n \in 0..N : n # 0 => g[n] = Unite(g[n - 1], sequence[n])
    BY <1>2, <1>4, <2>1
  <2>3. \A n \in 0..N : g[n] = h[n]
    BY <1>4, <2>2
  <2>4. g = [n \in 0..N |-> g[n]] /\ h = [n \in 0..N |-> h[n]]
    BY <1>4
  <2> HIDE DEF h
  <2>5. g = h
    BY <2>3, <2>4
  <2>6. QED
    BY <2>5 DEF h
<1> DEFINE f == CHOOSE e : Is(e)
<1>6. Is(f)
  BY <1>5
<1>7. VerticallyUniteRects(sequence) = f[N]
  BY DEF VerticallyUniteRects, Unite, N
<1> HIDE DEF f
<1>8. /\ DOMAIN f = 0..N /\ f[0] = <<>>
      /\ \A n \in 1..N : f[n] = Unite(f[n - 1], sequence[n])
  <2>1. \A n \in 0..N : f[n] = IF n = 0 THEN <<>> ELSE Unite(f[n - 1], sequence[n])
    BY <1>6
  <2>2. 0 \in 0..N /\ \A n \in 1..N : n \in 0..N /\ n # 0
    BY <1>1
  <2>3. DOMAIN f = 0..N
    BY <1>6
  <2>4. QED
    BY <2>1, <2>2, <2>3
<1>9. \A n \in 0..N : f[n] \in X
  <2> DEFINE S == {n \in 0..N : f[n] \in X}
  <2>1. 0 \in S
    BY <1>1, <1>3, <1>8
  <2>2. ASSUME NEW n \in 0..N, n \in S, n < N PROVE n + 1 \in S
    <3>1. n + 1 \in 1..N /\ n + 1 \in 0..N /\ (n + 1) - 1 = n
      BY <1>1, <2>2
    <3>2. f[n + 1] = Unite(f[n], sequence[n + 1])
      BY <1>8, <3>1
    <3>3. f[n + 1] \in X
      BY <1>1, <2>2, <3>1, <3>2, UniteType DEF X
    <3>4. QED
      BY <3>1, <3>3
  <2> HIDE DEF S
  <2>3. \A n \in 0..N : n \in S
    BY <1>1, <2>1, <2>2, UpTo
  <2>4. QED
    BY <2>3 DEF S
<1>10. f \in [0..N -> X]
  <2>1. f = [n \in 0..N |-> f[n]]
    BY <1>6
  <2>2. QED
    BY <1>9, <2>1
<1>11. QED
  BY <1>7, <1>8, <1>10 DEF N, X

\* Rectangles from top to bottom, as high as a row, are united to larger ones that have
\* their pixels, each once (TileOperations::verticallyUniteRects).
LEMMA UnitedPartition ==
    ASSUME NEW region, NEW sequence, Partition(sequence, region),
           \A i \in DOMAIN sequence : sequence[i].h = 1,
           \A i, j \in DOMAIN sequence : i < j => sequence[i].y <= sequence[j].y
    PROVE  Partition(VerticallyUniteRects(sequence), region)
<1> DEFINE N == Len(sequence)
           Part(n) == UNION {PixelsOf(sequence[i]) : i \in 1..n}
<1>1. /\ sequence \in Seq(Block) /\ N \in Nat /\ DOMAIN sequence = 1..N
      /\ \A i \in 1..N : sequence[i] \in Block /\ sequence[i].y \in Int
  BY DEF Partition, Block, Rectangle
<1>2. PICK f \in [0..N -> Seq(Block)] :
        /\ VerticallyUniteRects(sequence) = f[N]
        /\ f[0] = <<>>
        /\ \A n \in 1..N : f[n] = Unite(f[n - 1], sequence[n])
  BY <1>1, UnitedSoFar
<1> HIDE DEF N
<1> DEFINE Upto(n) == /\ Partition(f[n], Part(n))
                      /\ \A i \in DOMAIN f[n] : \A m \in 1..N :
                            m >= n => f[n][i].y + f[n][i].h - 1 <= sequence[m].y
           S == {n \in 0..N : Upto(n)}
<1>3. 0 \in S
  <2>1. DOMAIN f[0] = {} /\ f[0] \in Seq(Block)
    BY <1>2
  <2>2. Part(0) = {}
    <3>1. 1..0 = {}
      OBVIOUS
    <3>2. QED
      BY <3>1
  <2> HIDE DEF Part
  <2>3. Upto(0)
    BY <2>1, <2>2 DEF Partition, Disjoint, PixelsIn
  <2> HIDE DEF Upto
  <2>4. QED
    BY <1>1, <2>3
<1>4. ASSUME NEW n \in 0..N, n \in S, n < N PROVE n + 1 \in S
  <2> DEFINE r == sequence[n + 1]
  <2>1. n + 1 \in 1..N /\ n + 1 \in 0..N /\ (n + 1) - 1 = n /\ n \in Nat
    BY <1>1, <1>4
  <2>2. f[n + 1] = Unite(f[n], r) /\ r \in Block /\ r.h = 1 /\ r.y \in Int
    BY <1>1, <1>2, <2>1
  <2>3. Upto(n)
    BY <1>4
  <2>4. PixelsOf(r) \cap Part(n) = {} /\ Part(n + 1) = Part(n) \cup PixelsOf(r)
    <3>1. \A i \in 1..n : i \in 1..N /\ i # n + 1
      BY <1>1, <2>1
    <3>2. \A i \in 1..n : PixelsOf(sequence[i]) \cap PixelsOf(r) = {}
      BY <1>1, <2>1, <3>1 DEF Partition, Disjoint
    <3>3. \A i : i \in 1..(n + 1) <=> i \in 1..n \/ i = n + 1
      BY <2>1
    <3>4. QED
      BY <3>2, <3>3
  <2> HIDE DEF r, Part
  <2>5. \A i \in DOMAIN f[n] : f[n][i].y + f[n][i].h - 1 <= r.y
    BY <2>1, <2>3 DEF r
  <2>6. /\ Partition(Unite(f[n], r), Part(n) \cup PixelsOf(r))
        /\ \A i \in DOMAIN Unite(f[n], r) : Unite(f[n], r)[i].y + Unite(f[n], r)[i].h - 1 <= r.y
    BY <2>2, <2>3, <2>4, <2>5, UniteOne
  <2>7. ASSUME NEW i \in DOMAIN f[n + 1], NEW m \in 1..N, m >= n + 1
        PROVE  f[n + 1][i].y + f[n + 1][i].h - 1 <= sequence[m].y
    <3>1. f[n + 1][i].y + f[n + 1][i].h - 1 <= r.y
      BY <2>2, <2>6, <2>7
    <3>2. r.y <= sequence[m].y
      <4>1. m = n + 1 \/ n + 1 < m
        BY <2>1, <2>7
      <4>2. sequence[m].y \in Int
        BY <1>1
      <4>3. CASE m = n + 1
        BY <2>2, <4>3 DEF r
      <4>4. CASE n + 1 < m
        BY <1>1, <2>1, <4>4 DEF r
      <4>5. QED
        BY <4>1, <4>3, <4>4
    <3>3. f[n + 1][i] \in Block
      <4>1. f[n + 1] \in Seq(Block)
        BY <2>1
      <4>2. QED
        BY <2>7, <4>1
    <3>4. f[n + 1][i].y \in Int /\ f[n + 1][i].h \in Int /\ sequence[m].y \in Int
      BY <1>1, <3>3 DEF Block, Rectangle
    <3>5. QED
      BY <2>2, <3>1, <3>2, <3>4
  <2>8. Upto(n + 1)
    BY <2>2, <2>4, <2>6, <2>7
  <2> HIDE DEF Upto
  <2>9. QED
    BY <2>1, <2>8
<1> HIDE DEF S
<1>5. \A n \in 0..N : n \in S
  BY <1>1, <1>3, <1>4, UpTo
<1>6. Upto(N)
  <2>1. N \in S
    BY <1>1, <1>5
  <2> HIDE DEF Upto
  <2>2. QED
    BY <2>1 DEF S
<1>7. Part(N) = region
  BY <1>1 DEF Partition, PixelsIn
<1>8. QED
  BY <1>2, <1>6, <1>7

\* The rectangles a region is given by, and is united to, have its pixels and no others,
\* each once (TileOperations::verticallyUniteRects, TiledRegion).
THEOREM UnitedRectsPartitionRegion ==
    ASSUME NEW region, Bounded(region)
    PROVE  Partition(VerticallyUniteRects(RegionRects(region)), region)
<1>1. LET sequence == RegionRects(region)
      IN  /\ Partition(sequence, region)
          /\ \A i \in DOMAIN sequence : sequence[i].h = 1
          /\ \A i, j \in DOMAIN sequence : i < j => sequence[i].y <= sequence[j].y
  BY RegionPartition
<1>2. QED
  BY <1>1, UnitedPartition

-----------------------------------------------------------------------------
(* What is visible of a rectangle *)

\* Edge by edge.
LEMMA VisibleEdges ==
    ASSUME NEW r \in Rectangle,
           NEW left, left = (IF r.x >= 0 THEN r.x ELSE 0),
           NEW top, top = (IF r.y >= 0 THEN r.y ELSE 0),
           NEW right, right = (IF Right(r) <= Width - 1 THEN Right(r) ELSE Width - 1),
           NEW bottom, bottom = (IF Bottom(r) <= Height - 1 THEN Bottom(r) ELSE Height - 1)
    PROVE  Visible(r) = IF left > right \/ top > bottom THEN Rect(0, 0, 0, 0)
                        ELSE Rect(left, top, right - left + 1, bottom - top + 1)
<1>1. /\ r.x \in Int /\ r.y \in Int /\ Right(r) \in Int /\ Bottom(r) \in Int
  BY DEF Rectangle, Right, Bottom
<1>2. /\ Whole.x = 0 /\ Whole.y = 0 /\ Right(Whole) = Width - 1 /\ Bottom(Whole) = Height - 1
      /\ Width - 1 \in Int /\ Height - 1 \in Int
  BY SizeAssumption DEF Whole, Rect, Right, Bottom
<1>3. /\ Max({r.x, Whole.x}) = left /\ Max({r.y, Whole.y}) = top
      /\ Min({Right(r), Right(Whole)}) = right /\ Min({Bottom(r), Bottom(Whole)}) = bottom
  <2>1. Whole.x \in Int /\ Whole.y \in Int /\ Right(Whole) \in Int /\ Bottom(Whole) \in Int
    BY <1>2
  <2>2. /\ Max({r.x, Whole.x}) = (IF r.x >= Whole.x THEN r.x ELSE Whole.x)
        /\ Max({r.y, Whole.y}) = (IF r.y >= Whole.y THEN r.y ELSE Whole.y)
        /\ Min({Right(r), Right(Whole)}) =
                (IF Right(r) <= Right(Whole) THEN Right(r) ELSE Right(Whole))
        /\ Min({Bottom(r), Bottom(Whole)}) =
                (IF Bottom(r) <= Bottom(Whole) THEN Bottom(r) ELSE Bottom(Whole))
    BY <1>1, <2>1, MinAndMaxOfTwo
  <2>3. QED
    BY <1>2, <2>2
<1>4. Visible(r) = Between(left, top, right, bottom)
  BY <1>3 DEF Visible, Intersected
<1>5. QED
  BY <1>4 DEF Between, NoRect

\* It is a rectangle within the picture, or empty.
LEMMA VisibleBounds ==
    ASSUME NEW r \in Rectangle
    PROVE  LET v == Visible(r)
           IN  /\ v \in Rectangle /\ v.x >= 0 /\ v.y >= 0
               /\ Right(v) <= Width - 1 /\ Bottom(v) <= Height - 1
<1> DEFINE left == IF r.x >= 0 THEN r.x ELSE 0
           top == IF r.y >= 0 THEN r.y ELSE 0
           right == IF Right(r) <= Width - 1 THEN Right(r) ELSE Width - 1
           bottom == IF Bottom(r) <= Height - 1 THEN Bottom(r) ELSE Height - 1
<1>1. /\ left \in Nat /\ top \in Nat /\ right \in Int /\ bottom \in Int
      /\ right <= Width - 1 /\ bottom <= Height - 1
  BY SizeAssumption DEF Rectangle, Right, Bottom
<1>2. Visible(r) = IF left > right \/ top > bottom THEN Rect(0, 0, 0, 0)
                   ELSE Rect(left, top, right - left + 1, bottom - top + 1)
  BY VisibleEdges
<1> HIDE DEF left, top, right, bottom
<1>3. QED
  BY <1>1, <1>2, SizeAssumption DEF Rect, Rectangle, Right, Bottom

\* The pixels of a rectangle that is not empty lie in the picture if its edges do.
LEMMA InsideByEdges ==
    ASSUME NEW r \in Rectangle, r.w > 0, r.h > 0
    PROVE  PixelsOf(r) \subseteq Pixel <=>
            r.x >= 0 /\ r.y >= 0 /\ Right(r) <= Width - 1 /\ Bottom(r) <= Height - 1
<1>1. /\ r.x \in Int /\ r.y \in Int /\ Right(r) \in Int /\ Bottom(r) \in Int
      /\ r.x <= Right(r) /\ r.y <= Bottom(r) /\ Width \in Nat /\ Height \in Nat
  BY SizeAssumption DEF Rectangle, Right, Bottom
<1>2. ASSUME PixelsOf(r) \subseteq Pixel
      PROVE  r.x >= 0 /\ r.y >= 0 /\ Right(r) <= Width - 1 /\ Bottom(r) <= Height - 1
  <2>1. <<r.x, r.y>> \in PixelsOf(r) /\ <<Right(r), Bottom(r)>> \in PixelsOf(r)
    BY <1>1 DEF PixelsOf
  <2>2. <<r.x, r.y>> \in Pixel /\ <<Right(r), Bottom(r)>> \in Pixel
    BY <1>2, <2>1
  <2>3. QED
    BY <1>1, <2>2 DEF Pixel
<1>3. ASSUME r.x >= 0, r.y >= 0, Right(r) <= Width - 1, Bottom(r) <= Height - 1
      PROVE  PixelsOf(r) \subseteq Pixel
  BY <1>1, <1>3 DEF PixelsOf, Pixel
<1>4. QED
  BY <1>2, <1>3

\* A rectangle in the picture is visible as it is.
LEMMA InsideIsVisible ==
    ASSUME NEW r \in Rectangle, r.w > 0, r.h > 0, PixelsOf(r) \subseteq Pixel
    PROVE  Visible(r) = r
<1>1. /\ r.x >= 0 /\ r.y >= 0 /\ Right(r) <= Width - 1 /\ Bottom(r) <= Height - 1
  BY InsideByEdges
<1>2. /\ r.x \in Int /\ r.y \in Int /\ r.w \in Nat /\ r.h \in Nat
      /\ Right(r) = r.x + r.w - 1 /\ Bottom(r) = r.y + r.h - 1
  BY DEF Rectangle, Right, Bottom
<1>3. ~(r.x > Right(r) \/ r.y > Bottom(r))
  BY <1>2
<1>4. Visible(r) = Rect(r.x, r.y, Right(r) - r.x + 1, Bottom(r) - r.y + 1)
  BY <1>1, <1>3, VisibleEdges
<1>5. QED
  BY <1>2, <1>4 DEF Rect, Rectangle

\* If as much of it is visible as there is, all of it is.
LEMMA AllVisibleIsInside ==
    ASSUME NEW r \in Rectangle, r.w > 0, r.h > 0, r.x >= 0, r.y >= 0,
           Visible(r).w = r.w, Visible(r).h = r.h
    PROVE  PixelsOf(r) \subseteq Pixel
<1> DEFINE right == IF Right(r) <= Width - 1 THEN Right(r) ELSE Width - 1
           bottom == IF Bottom(r) <= Height - 1 THEN Bottom(r) ELSE Height - 1
<1>1. /\ r.x \in Int /\ r.y \in Int /\ r.w \in Nat /\ r.h \in Nat
      /\ Right(r) = r.x + r.w - 1 /\ Bottom(r) = r.y + r.h - 1
  BY DEF Rectangle, Right, Bottom
<1>2. Visible(r) = IF r.x > right \/ r.y > bottom THEN Rect(0, 0, 0, 0)
                   ELSE Rect(r.x, r.y, right - r.x + 1, bottom - r.y + 1)
  BY VisibleEdges
<1>3. right - r.x + 1 = r.w /\ bottom - r.y + 1 = r.h
  <2> HIDE DEF right, bottom
  <2>1. QED
    BY <1>1, <1>2 DEF Rect
<1>4. Right(r) <= Width - 1 /\ Bottom(r) <= Height - 1
  BY <1>1, <1>3, SizeAssumption
<1>5. QED
  BY <1>4, InsideByEdges

\* The pixels of the picture by their coordinates.
LEMMA PixelCoordinates ==
    \A p : p \in Pixel <=> /\ p = <<p[1], p[2]>> /\ p[1] \in Int /\ p[2] \in Int
                           /\ 0 <= p[1] /\ p[1] <= Width - 1 /\ 0 <= p[2] /\ p[2] <= Height - 1
BY SizeAssumption DEF Pixel

\* What is visible of a rectangle are its pixels in the picture.
LEMMA VisiblePixels ==
    ASSUME NEW r \in Rectangle
    PROVE  /\ Visible(r) \in Block \/ Visible(r) = NoRect
           /\ PixelsOf(Visible(r)) = PixelsOf(r) \cap Pixel
<1> DEFINE left == IF r.x >= 0 THEN r.x ELSE 0
           top == IF r.y >= 0 THEN r.y ELSE 0
           right == IF Right(r) <= Width - 1 THEN Right(r) ELSE Width - 1
           bottom == IF Bottom(r) <= Height - 1 THEN Bottom(r) ELSE Height - 1
           v == Visible(r)
<1>1. /\ r.x \in Int /\ r.y \in Int /\ r.w \in Nat /\ r.h \in Nat
      /\ Right(r) = r.x + r.w - 1 /\ Bottom(r) = r.y + r.h - 1
  BY DEF Rectangle, Right, Bottom
<1>2. /\ left \in Int /\ top \in Int /\ right \in Int /\ bottom \in Int
  BY <1>1, SizeAssumption
<1>3. v = IF left > right \/ top > bottom THEN Rect(0, 0, 0, 0)
          ELSE Rect(left, top, right - left + 1, bottom - top + 1)
  BY VisibleEdges
<1>4. \A p : p \in PixelsOf(r) /\ p \in Pixel <=>
                /\ p = <<p[1], p[2]>> /\ p[1] \in Int /\ p[2] \in Int
                /\ left <= p[1] /\ p[1] <= right /\ top <= p[2] /\ p[2] <= bottom
  <2> SUFFICES ASSUME NEW p
               PROVE  p \in PixelsOf(r) /\ p \in Pixel <=>
                        /\ p = <<p[1], p[2]>> /\ p[1] \in Int /\ p[2] \in Int
                        /\ left <= p[1] /\ p[1] <= right /\ top <= p[2] /\ p[2] <= bottom
    OBVIOUS
  <2>1. p \in PixelsOf(r) <=>
            /\ p = <<p[1], p[2]>> /\ p[1] \in Int /\ p[2] \in Int
            /\ r.x <= p[1] /\ p[1] < r.x + r.w /\ r.y <= p[2] /\ p[2] < r.y + r.h
    BY PixelsByEdges
  <2>2. p \in Pixel <=> /\ p = <<p[1], p[2]>> /\ p[1] \in Int /\ p[2] \in Int
                        /\ 0 <= p[1] /\ p[1] <= Width - 1 /\ 0 <= p[2] /\ p[2] <= Height - 1
    BY PixelCoordinates
  <2>3. ASSUME p[1] \in Int
        PROVE  /\ r.x <= p[1] /\ 0 <= p[1] <=> left <= p[1]
               /\ p[1] < r.x + r.w /\ p[1] <= Width - 1 <=> p[1] <= right
    BY <1>1, <2>3, SizeAssumption
  <2>4. ASSUME p[2] \in Int
        PROVE  /\ r.y <= p[2] /\ 0 <= p[2] <=> top <= p[2]
               /\ p[2] < r.y + r.h /\ p[2] <= Height - 1 <=> p[2] <= bottom
    BY <1>1, <2>4, SizeAssumption
  <2> HIDE DEF left, top, right, bottom
  <2>5. QED
    BY <2>1, <2>2, <2>3, <2>4
<1> HIDE DEF left, top, right, bottom, v
<1>5. CASE left > right \/ top > bottom
  <2>1. v = NoRect
    BY <1>3, <1>5 DEF NoRect
  <2>2. PixelsOf(NoRect) = {}
    <3>1. 0..(0 + 0 - 1) = {}
      OBVIOUS
    <3>2. QED
      BY <3>1 DEF PixelsOf, NoRect, Rect, Right, Bottom
  <2>3. \A p : ~(p \in PixelsOf(r) /\ p \in Pixel)
    BY <1>2, <1>4, <1>5
  <2>4. QED
    BY <2>1, <2>2, <2>3 DEF v
<1>6. CASE ~(left > right \/ top > bottom)
  <2>1. /\ v \in Block /\ v \in Rectangle /\ v.x = left /\ v.y = top
        /\ v.x + v.w = right + 1 /\ v.y + v.h = bottom + 1
    BY <1>2, <1>3, <1>6 DEF Rect, Block, Rectangle
  <2>2. ASSUME NEW p PROVE p \in PixelsOf(v) <=> p \in PixelsOf(r) /\ p \in Pixel
    <3>1. p \in PixelsOf(v) <=>
            /\ p = <<p[1], p[2]>> /\ p[1] \in Int /\ p[2] \in Int
            /\ v.x <= p[1] /\ p[1] < v.x + v.w /\ v.y <= p[2] /\ p[2] < v.y + v.h
      BY <2>1, PixelsByEdges
    <3>2. ASSUME p[1] \in Int, p[2] \in Int
          PROVE  (p[1] < right + 1 <=> p[1] <= right) /\ (p[2] < bottom + 1 <=> p[2] <= bottom)
      BY <1>2, <3>2
    <3>3. QED
      BY <1>4, <2>1, <3>1, <3>2
  <2>3. QED
    BY <2>1, <2>2 DEF v
<1>7. QED
  BY <1>5, <1>6

\* The rectangle around pixels of a rectangle has these, and lies in it.
LEMMA AroundPixels ==
    ASSUME NEW r \in Rectangle, NEW S \in SUBSET PixelsOf(r), S # {}
    PROVE  /\ Around(S) \in Block
           /\ S \subseteq PixelsOf(Around(S)) /\ PixelsOf(Around(S)) \subseteq PixelsOf(r)
<1> DEFINE xs == {p[1] : p \in S}
           ys == {p[2] : p \in S}
           c == Around(S)
<1>1. /\ r.x \in Int /\ r.y \in Int /\ r.w \in Nat /\ r.h \in Nat
      /\ r.x + r.w - 1 \in Int /\ r.y + r.h - 1 \in Int
  BY DEF Rectangle
<1>2. \A p \in S : /\ p = <<p[1], p[2]>> /\ p[1] \in Int /\ p[2] \in Int
                   /\ r.x <= p[1] /\ p[1] < r.x + r.w /\ r.y <= p[2] /\ p[2] < r.y + r.h
  BY PixelsByEdges
<1>3. /\ xs \in SUBSET Int /\ xs # {} /\ \A x \in xs : r.x <= x /\ x <= r.x + r.w - 1
  BY <1>1, <1>2
<1>4. /\ ys \in SUBSET Int /\ ys # {} /\ \A y \in ys : r.y <= y /\ y <= r.y + r.h - 1
  BY <1>1, <1>2
<1> DEFINE left == Min(xs)
           top == Min(ys)
           right == Max(xs)
           bottom == Max(ys)
<1>5. c = Between(left, top, right, bottom)
  BY DEF Around
<1>6. \A p \in S : p[1] \in xs /\ p[2] \in ys
  OBVIOUS
<1> HIDE DEF xs, ys, c
<1>7. left \in xs /\ top \in ys /\ (\A x \in xs : left <= x) /\ (\A y \in ys : top <= y)
  BY <1>1, <1>3, <1>4, MinFrom
<1>8. right \in xs /\ \A x \in xs : x <= right
  BY <1>1, <1>3, LargestUpTo DEF Max
<1>9. bottom \in ys /\ \A y \in ys : y <= bottom
  BY <1>1, <1>4, LargestUpTo DEF Max
<1> HIDE DEF left, top, right, bottom
<1>10. /\ left \in Int /\ top \in Int /\ right \in Int /\ bottom \in Int
       /\ left <= right /\ top <= bottom
       /\ r.x <= left /\ right <= r.x + r.w - 1 /\ r.y <= top /\ bottom <= r.y + r.h - 1
  BY <1>3, <1>4, <1>7, <1>8, <1>9
<1>11. c = Rect(left, top, right - left + 1, bottom - top + 1)
  BY <1>5, <1>10 DEF Between
<1>12. /\ c \in Block /\ c \in Rectangle /\ c.x = left /\ c.y = top
       /\ c.x + c.w = right + 1 /\ c.y + c.h = bottom + 1
  BY <1>10, <1>11 DEF Rect, Block, Rectangle
<1>13. ASSUME NEW p \in S PROVE p \in PixelsOf(c)
  <2>1. /\ p = <<p[1], p[2]>> /\ p[1] \in Int /\ p[2] \in Int /\ p[1] \in xs /\ p[2] \in ys
    BY <1>2, <1>6
  <2>2. left <= p[1] /\ p[1] < right + 1 /\ top <= p[2] /\ p[2] < bottom + 1
    BY <1>7, <1>8, <1>9, <1>10, <2>1
  <2>3. QED
    BY <1>12, <2>1, <2>2, PixelsByEdges
<1>14. ASSUME NEW p \in PixelsOf(c) PROVE p \in PixelsOf(r)
  <2>1. /\ p = <<p[1], p[2]>> /\ p[1] \in Int /\ p[2] \in Int
        /\ left <= p[1] /\ p[1] < right + 1 /\ top <= p[2] /\ p[2] < bottom + 1
    BY <1>12, PixelsByEdges
  <2>2. r.x <= p[1] /\ p[1] < r.x + r.w /\ r.y <= p[2] /\ p[2] < r.y + r.h
    BY <1>1, <1>10, <2>1
  <2>3. QED
    BY <2>1, <2>2, PixelsByEdges
<1>15. QED
  BY <1>12, <1>13, <1>14 DEF c

\* findChangedRect32: it has all the pixels that changed, and lies in the area if there
\* is one.
LEMMA ChangedRect ==
    ASSUME NEW old, NEW new, NEW roi, roi \in Block \/ roi = NoRect
    PROVE  LET c == FindChangedRect(old, new, roi)
           IN  /\ roi = NoRect => c = Corner
               /\ roi # NoRect /\ c # NoRect => c \in Block /\ PixelsOf(c) \subseteq PixelsOf(roi)
               /\ \A p \in PixelsOf(roi) : old[p] # new[p] => c # NoRect /\ p \in PixelsOf(c)
<1> DEFINE changed == {p \in PixelsOf(roi) : old[p] # new[p]}
           c == FindChangedRect(old, new, roi)
<1>1. c = IF roi = NoRect THEN Corner
          ELSE IF changed # {} THEN Around(changed)
          ELSE IF roi.w = 1 /\ roi.h = 1 THEN roi
          ELSE NoRect
  BY DEF FindChangedRect
<1>2. PixelsOf(NoRect) = {}
  <2>1. 0..(0 + 0 - 1) = {}
    OBVIOUS
  <2>2. QED
    BY <2>1 DEF PixelsOf, NoRect, Rect, Right, Bottom
<1>3. NoRect \notin Block
  BY DEF NoRect, Rect, Block
<1>4. /\ changed \in SUBSET PixelsOf(roi)
      /\ \A p \in PixelsOf(roi) : old[p] # new[p] => p \in changed
  OBVIOUS
<1> HIDE DEF changed, c
<1>5. CASE roi = NoRect
  BY <1>1, <1>2, <1>5 DEF c
<1>6. CASE roi # NoRect /\ changed # {}
  <2>1. roi \in Rectangle
    BY <1>6 DEF Block
  <2>2. c \in Block /\ changed \subseteq PixelsOf(c) /\ PixelsOf(c) \subseteq PixelsOf(roi)
    BY <1>1, <1>4, <1>6, <2>1, AroundPixels
  <2>3. QED
    BY <1>3, <1>4, <1>6, <2>2 DEF c
<1>7. CASE roi # NoRect /\ changed = {}
  BY <1>1, <1>4, <1>7 DEF c
<1>8. QED
  BY <1>5, <1>6, <1>7

-----------------------------------------------------------------------------
(* Tiles of several rectangles *)

\* The tiles of a rectangle.
LEMMA SplitPartition ==
    ASSUME NEW r \in Block, NEW size \in Nat \ {0}
    PROVE  LET cut == SplitRectIntoTiles(r, size)
           IN  /\ Partition(cut, PixelsOf(r))
               /\ \A i \in DOMAIN cut : cut[i].w \in 1..size /\ cut[i].h \in 1..size
<1> DEFINE cut == SplitRectIntoTiles(r, size)
<1>1. /\ cut \in Seq(Rectangle)
      /\ \A i \in DOMAIN cut : cut[i].w \in 1..size /\ cut[i].h \in 1..size
      /\ UNION {PixelsOf(cut[i]) : i \in DOMAIN cut} = PixelsOf(r)
      /\ \A i, j \in DOMAIN cut : i # j => PixelsOf(cut[i]) \cap PixelsOf(cut[j]) = {}
  BY TilesPartitionRect DEF Block
<1> HIDE DEF cut
<1>2. cut \in Seq(Block)
  <2>1. \A i \in DOMAIN cut : cut[i] \in Block
    BY <1>1 DEF Block
  <2>2. cut = [i \in 1..Len(cut) |-> cut[i]] /\ Len(cut) \in Nat /\ DOMAIN cut = 1..Len(cut)
    BY <1>1
  <2>3. QED
    BY <2>1, <2>2
<1>3. QED
  BY <1>1, <1>2 DEF Partition, Disjoint, PixelsIn, cut

\* The rectangles of two regions that have no pixel in common.
LEMMA PartitionOfBoth ==
    ASSUME NEW s, NEW t, NEW S, NEW T, Partition(s, S), Partition(t, T), S \cap T = {}
    PROVE  Partition(s \o t, S \cup T)
<1> DEFINE m == Len(s)
           n == Len(t)
           u == s \o t
<1>1. s \in Seq(Block) /\ t \in Seq(Block)
  BY DEF Partition
<1>2. /\ m \in Nat /\ n \in Nat /\ DOMAIN s = 1..m /\ DOMAIN t = 1..n
      /\ u \in Seq(Block) /\ DOMAIN u = 1..(m + n)
      /\ \A i \in 1..(m + n) : u[i] = IF i <= m THEN s[i] ELSE t[i - m]
  BY <1>1
<1> HIDE DEF m, n, u
<1>3. /\ \A i \in 1..(m + n) : i <= m => i \in 1..m
      /\ \A i \in 1..(m + n) : ~(i <= m) => i - m \in 1..n
      /\ \A i \in 1..m : i \in 1..(m + n) /\ i <= m
      /\ \A i \in 1..n : i + m \in 1..(m + n) /\ ~(i + m <= m) /\ (i + m) - m = i
  BY <1>2
<1>4. \A i \in 1..(m + n) :
        /\ i <= m => PixelsOf(u[i]) \subseteq S
        /\ ~(i <= m) => PixelsOf(u[i]) \subseteq T
  BY <1>2, <1>3 DEF Partition, PixelsIn
<1>5. Disjoint(u)
  <2> SUFFICES ASSUME NEW i \in 1..(m + n), NEW j \in 1..(m + n), i # j
               PROVE  PixelsOf(u[i]) \cap PixelsOf(u[j]) = {}
    BY <1>2 DEF Disjoint
  <2>1. CASE i <= m /\ j <= m
    BY <1>2, <1>3, <2>1 DEF Partition, Disjoint
  <2>2. CASE ~(i <= m) /\ ~(j <= m)
    <3>1. i - m \in 1..n /\ j - m \in 1..n /\ i - m # j - m
      BY <1>2, <1>3, <2>2
    <3>2. QED
      BY <1>2, <2>2, <3>1 DEF Partition, Disjoint
  <2>3. CASE i <= m /\ ~(j <= m)
    BY <1>4, <2>3
  <2>4. CASE ~(i <= m) /\ j <= m
    BY <1>4, <2>4
  <2>5. QED
    BY <2>1, <2>2, <2>3, <2>4
<1>6. PixelsIn(u) = S \cup T
  <2>1. PixelsIn(u) \subseteq S \cup T
    BY <1>2, <1>4 DEF PixelsIn
  <2>2. ASSUME NEW p \in S PROVE p \in PixelsIn(u)
    <3>1. PICK i \in 1..m : p \in PixelsOf(s[i])
      BY <1>2 DEF Partition, PixelsIn
    <3>2. i \in DOMAIN u /\ u[i] = s[i]
      BY <1>2, <1>3
    <3>3. QED
      BY <3>1, <3>2 DEF PixelsIn
  <2>3. ASSUME NEW p \in T PROVE p \in PixelsIn(u)
    <3>1. PICK i \in 1..n : p \in PixelsOf(t[i])
      BY <1>2 DEF Partition, PixelsIn
    <3>2. i + m \in DOMAIN u /\ u[i + m] = t[i]
      BY <1>2, <1>3
    <3>3. QED
      BY <3>1, <3>2 DEF PixelsIn
  <2>4. QED
    BY <2>1, <2>2, <2>3
<1>7. QED
  BY <1>2, <1>5, <1>6 DEF Partition, u

\* The tiles of the rectangles of a region, one rectangle after the other.
LEMMA TilesOfAll ==
    ASSUME NEW united, NEW region, Partition(united, region), NEW size \in Nat \ {0}
    PROVE  Partition(FlattenSeq([i \in DOMAIN united |-> SplitRectIntoTiles(united[i], size)]),
                     region)
<1> DEFINE cuts == [i \in DOMAIN united |-> SplitRectIntoTiles(united[i], size)]
           N == Len(united)
           X == Seq(Block)
           Is(f) == f = [i \in 1..N |-> IF i = 1 THEN cuts[i] ELSE f[i - 1] \o cuts[i]]
           Part(n) == UNION {PixelsOf(united[i]) : i \in 1..n}
<1>1. /\ N \in Nat /\ DOMAIN united = 1..N /\ \A i \in 1..N : united[i] \in Block
  BY DEF Partition
<1>2. \A i \in 1..N : Partition(cuts[i], PixelsOf(united[i])) /\ cuts[i] \in X
  BY <1>1, SplitPartition DEF Partition
<1>3. cuts = [i \in 1..N |-> cuts[i]] /\ DOMAIN cuts = 1..N
  BY <1>1
<1>4. \A i \in 1..N, j \in 1..N : i # j => PixelsOf(united[i]) \cap PixelsOf(united[j]) = {}
  BY <1>1 DEF Partition, Disjoint
<1>5. Part(N) = region
  BY <1>1 DEF Partition, PixelsIn
<1> HIDE DEF N, cuts
<1>6. Len(cuts) = N /\ cuts \in Seq(X)
  BY <1>1, <1>2, <1>3
<1>7. CASE N = 0
  <2>1. FlattenSeq(cuts) = cuts
    BY <1>6, <1>7 DEF FlattenSeq
  <2>2. DOMAIN cuts = {} /\ cuts \in Seq(Block)
    BY <1>3, <1>6, <1>7
  <2>3. region = {}
    <3>1. 1..0 = {}
      OBVIOUS
    <3>2. QED
      BY <1>5, <1>7, <3>1
  <2>4. QED
    BY <2>1, <2>2, <2>3 DEF Partition, Disjoint, PixelsIn, cuts
<1>8. CASE N # 0
  <2> DEFINE F == [v \in X \X (1..(N - 1)) |-> v[1] \o cuts[v[2] + 1]]
  <2>1. N - 1 \in Nat /\ \A n \in 1..(N - 1) : n + 1 \in 1..N
    BY <1>1, <1>8
  <2>2. /\ F \in [X \X (1..(N - 1)) -> X]
        /\ \A s \in X : \A n \in 1..(N - 1) : F[<<s, n>>] = s \o cuts[n + 1]
    <3>1. ASSUME NEW v \in X \X (1..(N - 1)) PROVE v[1] \o cuts[v[2] + 1] \in X
      <4>1. v[1] \in X /\ v[2] + 1 \in 1..N
        BY <2>1
      <4>2. cuts[v[2] + 1] \in X
        BY <1>2, <4>1
      <4>3. QED
        BY <4>1, <4>2
    <3>2. QED
      BY <3>1
  <2>3. cuts[1] \in X
    BY <1>1, <1>2, <1>8
  <2> HIDE DEF X, F
  <2>4. PICK g : Recursive(g, N - 1, X, cuts[1], F)
    BY <2>1, <2>2, <2>3, Recursion
  <2>5. /\ g \in [0..(N - 1) -> X] /\ g[0] = cuts[1]
        /\ \A n \in 1..(N - 1) : g[n] = F[<<g[n - 1], n>>]
    BY <2>4 DEF Recursive
  <2> DEFINE e == [i \in 1..N |-> g[i - 1]]
  <2>6. \A i \in 1..N : e[i] = IF i = 1 THEN cuts[i] ELSE e[i - 1] \o cuts[i]
    <3> SUFFICES ASSUME NEW i \in 1..N
                 PROVE  e[i] = IF i = 1 THEN cuts[i] ELSE e[i - 1] \o cuts[i]
      OBVIOUS
    <3>1. CASE i = 1
      BY <2>5, <3>1
    <3>2. CASE i # 1
      <4>1. i - 1 \in 1..(N - 1) /\ (i - 1) - 1 \in 0..(N - 1) /\ (i - 1) + 1 = i
            /\ i - 1 \in 1..N
        BY <1>1, <3>2
      <4>2. g[i - 1] = F[<<g[(i - 1) - 1], i - 1>>] /\ g[(i - 1) - 1] \in X
        BY <2>5, <4>1
      <4>3. g[i - 1] = g[(i - 1) - 1] \o cuts[i]
        BY <2>2, <4>1, <4>2
      <4>4. QED
        BY <3>2, <4>1, <4>3
    <3>3. QED
      BY <3>1, <3>2
  <2>7. Is(e)
    <3> DEFINE h == [i \in 1..N |-> IF i = 1 THEN cuts[i] ELSE e[i - 1] \o cuts[i]]
    <3>1. e = [i \in 1..N |-> e[i]] /\ h = [i \in 1..N |-> h[i]] /\ \A i \in 1..N : e[i] = h[i]
      BY <2>6
    <3> HIDE DEF e, h
    <3>2. e = h
      BY <3>1
    <3>3. QED
      BY <3>2 DEF h
  <2> DEFINE f == CHOOSE d : Is(d)
  <2>8. Is(f)
    <3> HIDE DEF e, Is
    <3>1. QED
      BY <2>7
  <2>9. FlattenSeq(cuts) = f[N]
    BY <1>6, <1>8 DEF FlattenSeq
  <2> HIDE DEF f, e
  <2>10. \A i \in 1..N : f[i] = IF i = 1 THEN cuts[i] ELSE f[i - 1] \o cuts[i]
    BY <2>8
  <2> DEFINE Upto(n) == Partition(f[n + 1], Part(n + 1))
             S == {n \in 0..(N - 1) : Upto(n)}
  <2>11. 0 \in S
    <3>1. 1 \in 1..N /\ 0 \in 0..(N - 1) /\ 0 + 1 = 1
      BY <1>1, <1>8
    <3>2. Part(1) = PixelsOf(united[1])
      <4>1. \A i : i \in 1..1 <=> i = 1
        OBVIOUS
      <4>2. QED
        BY <4>1
    <3>3. f[1] = cuts[1]
      BY <2>10, <3>1
    <3> HIDE DEF Part
    <3>4. Upto(0)
      BY <1>2, <3>1, <3>2, <3>3
    <3>5. QED
      BY <3>1, <3>4
  <2>12. ASSUME NEW n \in 0..(N - 1), n \in S, n < N - 1 PROVE n + 1 \in S
    <3> DEFINE i == (n + 1) + 1
    <3>1. /\ i \in 1..N /\ i # 1 /\ i - 1 = n + 1 /\ n + 1 \in 0..(N - 1) /\ n + 1 \in Nat
          /\ n + 1 \in 1..N
      BY <1>1, <2>12
    <3>2. f[i] = f[n + 1] \o cuts[i]
      BY <2>10, <3>1
    <3>3. Part(i) = Part(n + 1) \cup PixelsOf(united[i])
          /\ Part(n + 1) \cap PixelsOf(united[i]) = {}
      <4>1. \A k : k \in 1..i <=> k \in 1..(n + 1) \/ k = i
        BY <3>1
      <4>2. \A k \in 1..(n + 1) : k \in 1..N /\ k # i
        BY <1>1, <3>1
      <4>3. \A k \in 1..(n + 1) : PixelsOf(united[k]) \cap PixelsOf(united[i]) = {}
        BY <1>4, <3>1, <4>2
      <4>4. QED
        BY <4>1, <4>3
    <3>4. Partition(f[n + 1], Part(n + 1))
      BY <2>12
    <3>5. Partition(cuts[i], PixelsOf(united[i]))
      BY <1>2, <3>1
    <3> HIDE DEF Part
    <3>6. Partition(f[i], Part(i))
      BY <3>2, <3>3, <3>4, <3>5, PartitionOfBoth
    <3>7. QED
      BY <3>1, <3>6
  <2> HIDE DEF S
  <2>13. \A n \in 0..(N - 1) : n \in S
    BY <2>1, <2>11, <2>12, UpTo
  <2>14. N - 1 \in S /\ (N - 1) + 1 = N
    BY <1>1, <1>8, <2>13
  <2> HIDE DEF Part
  <2>15. Partition(f[N], Part(N))
    BY <2>14 DEF S
  <2>16. QED
    BY <1>5, <2>9, <2>15 DEF cuts
<1>9. QED
  BY <1>7, <1>8

-----------------------------------------------------------------------------
(* Types of fingerprints *)

\* What a fingerprint is, and the table of them for templates of a width.
Hash == [hash : Color, average : Color]

\* A pixel is added to a fingerprint.
LEMMA AddPixelType ==
    ASSUME NEW h \in Hash, NEW pixel \in Color
    PROVE  AddPixel(h, pixel) \in Hash
<1>1. h.hash \in Color /\ h.average \in Color
  BY DEF Hash
<1>2. h.hash + pixel \in Nat /\ h.average + pixel \in Nat /\ 2 \in Nat \ {0}
  BY <1>1 DEF Color
<1>3. (h.hash + pixel) % Modulus \in Color /\ (h.average + pixel) % Modulus \in Color
  BY <1>2, Division, ModulusAssumption DEF Color
<1>4. ((h.average + pixel) % Modulus) \div 2 \in Color
  <2> DEFINE n == (h.average + pixel) % Modulus
  <2>1. n \in Nat /\ n <= Modulus - 1
    BY <1>3, ModulusAssumption DEF Color
  <2> HIDE DEF n
  <2>2. /\ n \div 2 \in Nat /\ n % 2 \in 0..(2 - 1) /\ n = (n \div 2) * 2 + (n % 2)
    BY <1>2, <2>1, Division
  <2>3. n \div 2 <= n
    BY <2>1, <2>2
  <2>4. n \div 2 \in Color
    BY <2>1, <2>2, <2>3, ModulusAssumption DEF Color
  <2>5. QED
    BY <2>4 DEF n
<1>5. QED
  BY <1>3, <1>4 DEF AddPixel, Hash

\* The fingerprint of a row of pixels in the picture.
LEMMA HashRowType ==
    ASSUME NEW picture \in Picture, NEW x \in Int, NEW y \in Int, NEW w \in Nat,
           \A n \in 1..w : <<x + n - 1, y>> \in Pixel
    PROVE  HashRow(picture, x, y, w) \in Hash
<1> DEFINE F == [v \in Hash \X (1..w) |-> AddPixel(v[1], picture[<<x + v[2] - 1, y>>])]
           Is(f) == f = [n \in 0..w |-> IF n = 0 THEN ZeroHash
                                        ELSE AddPixel(f[n - 1], picture[<<x + n - 1, y>>])]
<1>1. \A n \in 1..w : picture[<<x + n - 1, y>>] \in Color
  BY DEF Picture
<1>2. /\ F \in [Hash \X (1..w) -> Hash]
      /\ \A h \in Hash : \A n \in 1..w : F[<<h, n>>] = AddPixel(h, picture[<<x + n - 1, y>>])
  <2>1. ASSUME NEW v \in Hash \X (1..w)
        PROVE  AddPixel(v[1], picture[<<x + v[2] - 1, y>>]) \in Hash
    <3>1. v[1] \in Hash /\ v[2] \in 1..w
      OBVIOUS
    <3>2. QED
      BY <1>1, <3>1, AddPixelType
  <2>2. QED
    BY <2>1
<1>3. ZeroHash \in Hash
  BY ModulusAssumption DEF ZeroHash, Hash, Color
<1> HIDE DEF F
<1>4. PICK g : Recursive(g, w, Hash, ZeroHash, F)
  BY <1>2, <1>3, Recursion
<1>5. g \in [0..w -> Hash] /\ g[0] = ZeroHash /\ \A n \in 1..w : g[n] = F[<<g[n - 1], n>>]
  BY <1>4 DEF Recursive
<1>6. Is(g)
  <2> DEFINE h == [n \in 0..w |-> IF n = 0 THEN ZeroHash
                                  ELSE AddPixel(g[n - 1], picture[<<x + n - 1, y>>])]
  <2>1. \A n \in 0..w : n # 0 => n - 1 \in 0..w /\ n \in 1..w
    OBVIOUS
  <2>2. \A n \in 0..w : n # 0 => g[n] = AddPixel(g[n - 1], picture[<<x + n - 1, y>>])
    BY <1>2, <1>5, <2>1
  <2>3. \A n \in 0..w : g[n] = h[n]
    BY <1>5, <2>2
  <2>4. g = [n \in 0..w |-> g[n]] /\ h = [n \in 0..w |-> h[n]]
    BY <1>5
  <2> HIDE DEF h
  <2>5. g = h
    BY <2>3, <2>4
  <2>6. QED
    BY <2>5 DEF h
<1> DEFINE f == CHOOSE e : Is(e)
<1>7. Is(f)
  <2> HIDE DEF Is
  <2>1. QED
    BY <1>6
<1>8. HashRow(picture, x, y, w) = f[w]
  BY DEF HashRow
<1> HIDE DEF f
<1>9. \A n \in 0..w : f[n] = IF n = 0 THEN ZeroHash
                             ELSE AddPixel(f[n - 1], picture[<<x + n - 1, y>>])
  BY <1>7
<1> DEFINE S == {n \in 0..w : f[n] \in Hash}
<1>10. 0 \in S
  <2>1. 0 \in 0..w
    OBVIOUS
  <2>2. f[0] = ZeroHash
    BY <1>9, <2>1
  <2>3. QED
    BY <1>3, <2>1, <2>2
<1>11. ASSUME NEW n \in 0..w, n \in S, n < w PROVE n + 1 \in S
  <2>1. n + 1 \in 1..w /\ n + 1 \in 0..w /\ n + 1 # 0 /\ (n + 1) - 1 = n
    BY <1>11
  <2>2. f[n + 1] = AddPixel(f[n], picture[<<x + (n + 1) - 1, y>>])
    BY <1>9, <2>1
  <2>3. f[n + 1] \in Hash
    BY <1>1, <1>11, <2>1, <2>2, AddPixelType
  <2>4. QED
    BY <2>1, <2>3
<1> HIDE DEF S
<1>12. \A n \in 0..w : n \in S
  BY <1>10, <1>11, UpTo
<1>13. QED
  BY <1>8, <1>12 DEF S

Prints(t) == [0..(Width - t) -> [0..(Height - 1) -> Hash]]

\* The template of a move analyzer is not wider than the picture.
LEMMA TemplateFits ==
    ASSUME settings \in Settings
    PROVE  /\ TemplateWidth \in Nat \ {0} /\ TemplateWidth <= Width
           /\ settings.tileWidth \in Nat \ {0}
           /\ ~settings.fineGrainedMoves => TemplateWidth = settings.tileWidth
<1>1. settings.tileWidth \in 1..Width /\ settings.fineGrainedMoves \in BOOLEAN
  BY SettingsAssumption
<1>2. settings.fineGrainedMoves => settings.tileWidth >= 2
  BY FineTilesAssumption
<1>3. settings.tileWidth \in Nat /\ 2 \in Nat \ {0} /\ Width \in Nat
  BY <1>1, SizeAssumption
<1> DEFINE n == settings.tileWidth
<1>4. /\ n \div 2 \in Nat /\ n % 2 \in 0..(2 - 1) /\ n = (n \div 2) * 2 + (n % 2)
  BY <1>3, Division
<1>5. n >= 2 => n \div 2 >= 1 /\ n \div 2 <= n
  BY <1>3, <1>4
<1>6. QED
  BY <1>1, <1>2, <1>3, <1>4, <1>5 DEF TemplateWidth, MoveTileWidth

\* Updating a part of the table keeps it one.
LEMMA UpdateType ==
    ASSUME NEW t \in Nat \ {0}, t <= Width, NEW table \in Prints(t), NEW picture \in Picture,
           NEW roi
    PROVE  UpdateFromImage(table, picture, roi, t) \in Prints(t)
<1>1. ASSUME NEW x \in 0..(Width - t), NEW y \in 0..(Height - 1)
      PROVE  HashRow(picture, x, y, t) \in Hash
  <2>1. x \in Int /\ y \in Int /\ t \in Nat /\ Width \in Nat /\ Height \in Nat
    BY SizeAssumption
  <2>2. \A n \in 1..t : x + n - 1 \in 0..(Width - 1)
    BY <2>1
  <2>3. \A n \in 1..t : <<x + n - 1, y>> \in Pixel
    BY <2>2 DEF Pixel
  <2>4. QED
    BY <2>1, <2>3, HashRowType
<1>2. DOMAIN table = 0..(Width - t) /\ \A x \in 0..(Width - t), y \in 0..(Height - 1) :
        table[x][y] \in Hash
  BY DEF Prints
<1> DEFINE columns == Max({0, roi.x - t + 1})..(Min({Width - t + 1, Right(roi)}) - 1)
           rows == roi.y..Bottom(roi)
           entry(x, y) == IF x \in columns /\ y \in rows THEN HashRow(picture, x, y, t)
                                                         ELSE table[x][y]
<1>3. UpdateFromImage(table, picture, roi, t)
        = [x \in 0..(Width - t) |-> [y \in 0..(Height - 1) |-> entry(x, y)]]
  BY <1>2 DEF UpdateFromImage
<1>4. \A x \in 0..(Width - t), y \in 0..(Height - 1) : entry(x, y) \in Hash
  BY <1>1, <1>2
<1> HIDE DEF entry
<1>5. QED
  BY <1>3, <1>4 DEF Prints

\* The fingerprints with those of the rectangles of a region renewed.
Renewed(table, old, region) ==
    LET updated[n \in 0..Len(region)] ==
            IF n = 0 THEN table
            ELSE UpdateFromImage(updated[n - 1], old, Visible(region[n]), TemplateWidth)
    IN  updated[Len(region)]

\* So does updating several parts, one after the other (MoveAnalyzer::swap).
LEMMA RenewedType ==
    ASSUME settings \in Settings, NEW table \in Prints(TemplateWidth), NEW old \in Picture,
           NEW region \in Seq(Block)
    PROVE  Renewed(table, old, region) \in Prints(TemplateWidth)
<1> DEFINE w == Len(region)
           X == Prints(TemplateWidth)
           step(e, n) == UpdateFromImage(e, old, Visible(region[n]), TemplateWidth)
           F == [v \in X \X (1..w) |-> step(v[1], v[2])]
           Is(f) == f = [n \in 0..w |-> IF n = 0 THEN table
                ELSE UpdateFromImage(f[n - 1], old, Visible(region[n]), TemplateWidth)]
<1>1. w \in Nat
  OBVIOUS
<1>2. \A e \in X : \A n \in 1..w : step(e, n) \in X
  BY TemplateFits, UpdateType
<1> HIDE DEF w, X
<1> HIDE DEF step
<1>3. /\ F \in [X \X (1..w) -> X]
      /\ \A e \in X : \A n \in 1..w : F[<<e, n>>] = step(e, n)
  <2>1. ASSUME NEW v \in X \X (1..w) PROVE step(v[1], v[2]) \in X
    <3>1. v[1] \in X /\ v[2] \in 1..w
      OBVIOUS
    <3>2. QED
      BY <1>2, <3>1
  <2>2. QED
    BY <2>1
<1>4. table \in X
  BY DEF X
<1> HIDE DEF F
<1>5. PICK g : Recursive(g, w, X, table, F)
  BY <1>1, <1>3, <1>4, Recursion
<1>6. g \in [0..w -> X] /\ g[0] = table /\ \A n \in 1..w : g[n] = F[<<g[n - 1], n>>]
  BY <1>5 DEF Recursive
<1>7. Is(g)
  <2> DEFINE h == [n \in 0..w |-> IF n = 0 THEN table ELSE step(g[n - 1], n)]
  <2>1. \A n \in 0..w : n # 0 => n - 1 \in 0..w /\ n \in 1..w
    BY <1>1
  <2>2. \A n \in 0..w : n # 0 => g[n] = step(g[n - 1], n)
    BY <1>3, <1>6, <2>1
  <2>3. \A n \in 0..w : g[n] = h[n]
    BY <1>6, <2>2
  <2>4. g = [n \in 0..w |-> g[n]] /\ h = [n \in 0..w |-> h[n]]
    BY <1>6
  <2> HIDE DEF h
  <2>5. g = h
    BY <2>3, <2>4
  <2>6. QED
    BY <2>5 DEF h, step
<1> DEFINE f == CHOOSE e : Is(e)
<1>8. Is(f)
  <2> HIDE DEF Is
  <2>1. QED
    BY <1>7
<1>9. Renewed(table, old, region) = f[w]
  BY DEF Renewed, w
<1> HIDE DEF f
<1>10. \A n \in 0..w : f[n] = IF n = 0 THEN table ELSE step(f[n - 1], n)
  BY <1>8 DEF step
<1> DEFINE S == {n \in 0..w : f[n] \in X}
<1>11. 0 \in S
  <2>1. 0 \in 0..w
    BY <1>1
  <2>2. f[0] = table
    BY <1>10, <2>1
  <2>3. QED
    BY <1>4, <2>1, <2>2
<1>12. ASSUME NEW n \in 0..w, n \in S, n < w PROVE n + 1 \in S
  <2>1. n + 1 \in 1..w /\ n + 1 \in 0..w /\ n + 1 # 0 /\ (n + 1) - 1 = n
    BY <1>1, <1>12
  <2>2. f[n + 1] = step(f[n], n + 1)
    BY <1>10, <2>1
  <2>3. f[n + 1] \in X
    BY <1>2, <1>12, <2>1, <2>2
  <2>4. QED
    BY <2>1, <2>3
<1> HIDE DEF S
<1>13. \A n \in 0..w : n \in S
  BY <1>1, <1>11, <1>12, UpTo
<1>14. QED
  BY <1>1, <1>9, <1>13 DEF S, X

-----------------------------------------------------------------------------
(* The rectangles that differ *)

\* A tile of the grid, on the grid, has the tile's pixels, and at most one column and
\* one row more.
LEMMA SnappedTile ==
    ASSUME NEW x \in Nat, NEW y \in Nat, NEW size \in Nat \ {0}
    PROVE  LET r == Rect(x * size, y * size, size, size)
           IN  /\ r \in Block /\ Snapped(r, size) \in Block
               /\ PixelsOf(r) \subseteq PixelsOf(Snapped(r, size))
               /\ \A p \in PixelsOf(Snapped(r, size)) :
                    /\ p = <<p[1], p[2]>> /\ p[1] \in Nat /\ p[2] \in Nat
                    /\ p[1] <= x * size + size /\ p[2] <= y * size + size
<1> DEFINE down(n) == (n \div size) * size
           up(n) == down(n) + (IF n % size # 0 THEN size ELSE 0)
           more == IF size = 1 THEN 1 ELSE size + 1
<1>1. ASSUME NEW n \in Nat
      PROVE  /\ n * size \in Nat /\ down(n * size) = n * size
             /\ up(n * size + size - 1) - down(n * size) + 1 = more
  <2>1. n * size \in Nat
    OBVIOUS
  <2> DEFINE k == n * size
  <2>2. k \in Nat /\ k + size - 1 \in Nat
    BY <2>1
  <2>3. k <= k /\ k < k + size /\ k <= k + size - 1 /\ k + size - 1 < k + size
    BY <2>2
  <2>4. k \div size = n
    BY <2>2, <2>3, DivisionIsUnique
  <2>5. (k + size - 1) \div size = n /\ (k + size - 1) % size = (k + size - 1) - k
    BY <2>2, <2>3, DivisionIsUnique
  <2>6. down(k) = k /\ down(k + size - 1) = k
    BY <2>4, <2>5
  <2> HIDE DEF k, down
  <2>7. (k + size - 1) - k = size - 1 /\ (size - 1 # 0 <=> size # 1)
    BY <2>2
  <2>8. up(k + size - 1) = k + (IF size # 1 THEN size ELSE 0)
    BY <2>5, <2>6, <2>7
  <2>9. up(k + size - 1) - down(k) + 1 = more
    <3>1. CASE size = 1
      BY <2>2, <2>6, <2>8, <3>1
    <3>2. CASE size # 1
      BY <2>2, <2>6, <2>8, <3>2
    <3>3. QED
      BY <3>1, <3>2
  <2>10. QED
    BY <2>2, <2>6, <2>9 DEF k
<1> DEFINE r == Rect(x * size, y * size, size, size)
           s == Snapped(r, size)
           left == x * size
           top == y * size
<1>2. left \in Nat /\ top \in Nat
  BY <1>1
<1>3. /\ r.x = left /\ r.y = top /\ r.w = size /\ r.h = size
      /\ Right(r) = left + size - 1 /\ Bottom(r) = top + size - 1
  BY DEF Rect, Right, Bottom
<1>4. s = Rect(down(r.x), down(r.y),
               up(Right(r)) - down(r.x) + 1, up(Bottom(r)) - down(r.y) + 1)
  BY DEF Snapped
<1>5. s = Rect(left, top, more, more)
  <2> HIDE DEF r, down, up, more, s
  <2>1. /\ down(left) = left /\ up(left + size - 1) - down(left) + 1 = more
        /\ down(top) = top /\ up(top + size - 1) - down(top) + 1 = more
    BY <1>1
  <2> HIDE DEF left, top
  <2>2. QED
    BY <1>3, <1>4, <2>1
<1>6. more \in Nat /\ more > 0 /\ size <= more /\ more <= size + 1
  OBVIOUS
<1>7. r = Rect(left, top, size, size)
  OBVIOUS
<1> HIDE DEF r, s, left, top, more
<1>8. /\ r \in Block /\ r \in Rectangle
      /\ s \in Block /\ s \in Rectangle /\ s.x = left /\ s.y = top /\ s.w = more /\ s.h = more
  BY <1>2, <1>5, <1>6, <1>7 DEF Rect, Block, Rectangle
<1>9. ASSUME NEW p \in PixelsOf(r) PROVE p \in PixelsOf(s)
  <2>1. /\ p = <<p[1], p[2]>> /\ p[1] \in Int /\ p[2] \in Int
        /\ left <= p[1] /\ p[1] < left + size /\ top <= p[2] /\ p[2] < top + size
    BY <1>3, <1>8, PixelsByEdges
  <2>2. p[1] < left + more /\ p[2] < top + more
    BY <1>2, <1>6, <2>1
  <2>3. QED
    BY <1>8, <2>1, <2>2, PixelsByEdges
<1>10. ASSUME NEW p \in PixelsOf(s)
       PROVE  /\ p = <<p[1], p[2]>> /\ p[1] \in Nat /\ p[2] \in Nat
              /\ p[1] <= left + size /\ p[2] <= top + size
  <2>1. /\ p = <<p[1], p[2]>> /\ p[1] \in Int /\ p[2] \in Int
        /\ left <= p[1] /\ p[1] < left + more /\ top <= p[2] /\ p[2] < top + more
    BY <1>8, PixelsByEdges
  <2>2. /\ p[1] \in Nat /\ p[2] \in Nat /\ p[1] <= left + size /\ p[2] <= top + size
    BY <1>2, <1>6, <2>1
  <2>3. QED
    BY <2>1, <2>2
<1>11. QED
  BY <1>8, <1>9, <1>10 DEF r, s, left, top

\* What differs between two pictures.
Changed(old, new) == {p \in Pixel : old[p] # new[p]}

\* A pixel of a rectangle that differs is found by comparing all of it.
LEMMA DifferenceSeen ==
    ASSUME NEW r \in Rectangle, NEW old, NEW new, NEW p \in PixelsOf(r) \cap Changed(old, new)
    PROVE  ~ContentMatches(old, new, Visible(r), Visible(r))
<1> DEFINE v == Visible(r)
<1>1. p \in PixelsOf(v) /\ v \in Rectangle /\ old[p] # new[p]
  BY VisiblePixels, VisibleBounds DEF Changed
<1> HIDE DEF v
<1>2. v.x \in Int /\ v.y \in Int /\ v.w \in Nat /\ v.h \in Nat
  BY <1>1 DEF Rectangle
<1>3. /\ p = <<p[1], p[2]>> /\ p[1] \in Int /\ p[2] \in Int
      /\ v.x <= p[1] /\ p[1] < v.x + v.w /\ v.y <= p[2] /\ p[2] < v.y + v.h
  BY <1>1, PixelsByEdges
<1> DEFINE i == p[1] - v.x
           j == p[2] - v.y
<1>4. i \in 0..(v.w - 1) /\ j \in 0..(v.h - 1) /\ v.x + i = p[1] /\ v.y + j = p[2]
  BY <1>2, <1>3
<1> HIDE DEF i, j
<1>5. old[<<v.x + i, v.y + j>>] # new[<<v.x + i, v.y + j>>]
  BY <1>1, <1>3, <1>4
<1>6. QED
  BY <1>4, <1>5 DEF ContentMatches, v

\* findDifferences: the rectangles have no pixel in common, and all that differ.
THEOREM DifferencesAreFound ==
    ASSUME settings \in Settings, NEW old, NEW new
    PROVE  \E region : /\ Partition(FindDifferences(old, new), region)
                       /\ Changed(old, new) \subseteq region
<1> DEFINE size == settings.tileWidth
           cols == CeilDiv(Width, size)
           rows == CeilDiv(Height, size)
           tile(x, y) == Rect(x * size, y * size, size, size)
           grid == {tile(x, y) : x \in 0..(cols - 1), y \in 0..(rows - 1)}
           differing == {r \in grid : ~ContentMatches(old, new, Visible(r), Visible(r))}
           region == UNION {PixelsOf(Snapped(r, size)) : r \in differing}
<1>1. size \in Nat \ {0} /\ Width \in Nat /\ Height \in Nat
  BY TemplateFits, SizeAssumption
<1>2. FindDifferences(old, new) = VerticallyUniteRects(RegionRects(region))
  BY DEF FindDifferences
<1> HIDE DEF size
<1>3. /\ cols \in Nat /\ rows \in Nat
      /\ \A q \in Nat : (q < cols <=> q * size < Width) /\ (q < rows <=> q * size < Height)
  BY <1>1, CeilDivision
<1> HIDE DEF cols, rows
<1>4. ASSUME NEW x \in 0..(cols - 1), NEW y \in 0..(rows - 1)
      PROVE  /\ x \in Nat /\ y \in Nat /\ tile(x, y) \in Block
             /\ PixelsOf(tile(x, y)) \subseteq PixelsOf(Snapped(tile(x, y), size))
             /\ \A p \in PixelsOf(Snapped(tile(x, y), size)) :
                    /\ p = <<p[1], p[2]>> /\ p[1] \in Nat /\ p[2] \in Nat
                    /\ p[1] <= Width + size /\ p[2] <= Height + size
  <2>1. x \in Nat /\ y \in Nat /\ x < cols /\ y < rows
    BY <1>3
  <2>2. x * size \in Nat /\ y * size \in Nat /\ x * size < Width /\ y * size < Height
    BY <1>1, <1>3, <2>1
  <2>3. /\ tile(x, y) \in Block
        /\ PixelsOf(tile(x, y)) \subseteq PixelsOf(Snapped(tile(x, y), size))
        /\ \A p \in PixelsOf(Snapped(tile(x, y), size)) :
            /\ p = <<p[1], p[2]>> /\ p[1] \in Nat /\ p[2] \in Nat
            /\ p[1] <= x * size + size /\ p[2] <= y * size + size
    BY <1>1, <2>1, SnappedTile
  <2> HIDE DEF tile
  <2> DEFINE left == x * size
             top == y * size
  <2>4. /\ left \in Nat /\ top \in Nat /\ left < Width /\ top < Height
        /\ \A p \in PixelsOf(Snapped(tile(x, y), size)) :
            /\ p = <<p[1], p[2]>> /\ p[1] \in Nat /\ p[2] \in Nat
            /\ p[1] <= left + size /\ p[2] <= top + size
    BY <2>2, <2>3
  <2> HIDE DEF left, top
  <2>5. ASSUME NEW p \in PixelsOf(Snapped(tile(x, y), size))
        PROVE  /\ p = <<p[1], p[2]>> /\ p[1] \in Nat /\ p[2] \in Nat
               /\ p[1] <= Width + size /\ p[2] <= Height + size
    <3>1. /\ p = <<p[1], p[2]>> /\ p[1] \in Nat /\ p[2] \in Nat
          /\ p[1] <= left + size /\ p[2] <= top + size
      BY <2>4
    <3>2. /\ p[1] <= Width + size /\ p[2] <= Height + size
      BY <1>1, <2>4, <3>1
    <3>3. QED
      BY <3>1, <3>2
  <2>6. QED
    BY <2>1, <2>3, <2>5
<1>5. Bounded(region)
  <2> DEFINE n == Width + Height + size
  <2>1. /\ n \in Nat /\ \A k \in Nat : k <= Width + size => k \in (-n)..n
        /\ \A k \in Nat : k <= Height + size => k \in (-n)..n
    BY <1>1
  <2> HIDE DEF n
  <2>2. ASSUME NEW p \in region PROVE p \in ((-n)..n) \X ((-n)..n)
    <3>1. PICK r \in differing : p \in PixelsOf(Snapped(r, size))
      OBVIOUS
    <3>2. PICK x \in 0..(cols - 1), y \in 0..(rows - 1) : r = tile(x, y)
      OBVIOUS
    <3> HIDE DEF tile
    <3>3. /\ p = <<p[1], p[2]>> /\ p[1] \in Nat /\ p[2] \in Nat
          /\ p[1] <= Width + size /\ p[2] <= Height + size
      BY <1>4, <3>1, <3>2
    <3>4. p[1] \in (-n)..n /\ p[2] \in (-n)..n
      BY <2>1, <3>3
    <3>5. QED
      BY <3>3, <3>4
  <2> HIDE DEF region
  <2>3. QED
    BY <2>1, <2>2 DEF Bounded
<1>6. ASSUME NEW p \in Changed(old, new) PROVE p \in region
  <2> DEFINE x == p[1] \div size
             y == p[2] \div size
  <2>1. p = <<p[1], p[2]>> /\ p[1] \in Nat /\ p[2] \in Nat /\ p[1] < Width /\ p[2] < Height
    BY <1>1, PixelCoordinates DEF Changed
  <2>2. /\ x \in Nat /\ p[1] % size \in 0..(size - 1) /\ p[1] = x * size + (p[1] % size)
        /\ y \in Nat /\ p[2] % size \in 0..(size - 1) /\ p[2] = y * size + (p[2] % size)
    BY <1>1, <2>1, Division
  <2> HIDE DEF x, y
  <2> DEFINE left == x * size
             top == y * size
  <2>3. left \in Nat /\ top \in Nat
    BY <1>1, <2>2
  <2>4. p[1] = left + (p[1] % size) /\ p[2] = top + (p[2] % size)
    BY <2>2
  <2>5. left < Width /\ top < Height
    <3> HIDE DEF left, top
    <3>1. QED
      BY <1>1, <2>1, <2>2, <2>3, <2>4
  <2>6. x \in 0..(cols - 1) /\ y \in 0..(rows - 1)
    BY <1>3, <2>2, <2>5
  <2>7. /\ tile(x, y).x = left /\ tile(x, y).y = top
        /\ tile(x, y).w = size /\ tile(x, y).h = size
    BY DEF Rect
  <2>8. tile(x, y) \in grid
    BY <2>6
  <2> HIDE DEF left, top, tile, grid
  <2>9. tile(x, y) \in Rectangle
    BY <1>4, <2>6 DEF Block
  <2>10. left <= p[1] /\ p[1] < left + size /\ top <= p[2] /\ p[2] < top + size
    BY <1>1, <2>1, <2>2, <2>3, <2>4
  <2>11. p \in PixelsOf(tile(x, y))
    <3> DEFINE r == tile(x, y)
    <3>1. r \in Rectangle /\ r.x = left /\ r.y = top /\ r.w = size /\ r.h = size
      BY <2>7, <2>9
    <3> HIDE DEF r
    <3>2. /\ p[1] \in Int /\ p[2] \in Int
          /\ r.x <= p[1] /\ p[1] < r.x + r.w /\ r.y <= p[2] /\ p[2] < r.y + r.h
      BY <2>1, <2>10, <3>1
    <3>3. p \in PixelsOf(r)
      BY <2>1, <3>1, <3>2, PixelsByEdges
    <3>4. QED
      BY <3>3 DEF r
  <2>12. tile(x, y) \in differing
    BY <2>8, <2>9, <2>11, DifferenceSeen
  <2>13. p \in PixelsOf(Snapped(tile(x, y), size))
    BY <1>4, <2>6, <2>11
  <2>14. QED
    BY <2>12, <2>13
<1> HIDE DEF region
<1>7. Partition(FindDifferences(old, new), region)
  BY <1>2, <1>5, UnitedRectsPartitionRegion
<1>8. QED
  BY <1>6, <1>7

-----------------------------------------------------------------------------
(* What a search finds *)

\* The rectangle a tile may have come from: it lies in the picture and shows there
\* what the tile is to show.
Shows(src, tile) ==
    PixelsOf(src) \subseteq Pixel /\ DrawsNewPicture(MoveOf(src, tile))

IsTile(tile) ==
    tile \in Rectangle /\ tile.w > 0 /\ tile.h > 0 /\ PixelsOf(tile) \subseteq Pixel

\* It is so if the pixels in the picture are equal one by one.
LEMMA EqualPixelsShow ==
    ASSUME NEW tile \in Rectangle, NEW x \in Nat, NEW y \in Nat,
           PixelsOf(Rect(x, y, tile.w, tile.h)) \subseteq Pixel,
           \A q \in PixelsOf(tile) \cap Pixel :
                before[<<x + (q[1] - tile.x), y + (q[2] - tile.y)>>] = after[q]
    PROVE  Shows(Rect(x, y, tile.w, tile.h), tile)
<1> DEFINE src == Rect(x, y, tile.w, tile.h)
           op == MoveOf(src, tile)
<1>1. /\ op.type = "move" /\ op.src = src /\ op.dst = <<tile.x, tile.y>>
      /\ src.x = x /\ src.y = y /\ src.w = tile.w /\ src.h = tile.h
  BY DEF MoveOf, Rect
<1>2. PixelsOf(Target(op)) = PixelsOf(tile)
  BY <1>1 DEF Target, Rect, PixelsOf, Right, Bottom
<1>3. Vector(op) = <<x - tile.x, y - tile.y>>
  BY <1>1 DEF Vector
<1> HIDE DEF op, src
<1>4. ASSUME NEW q \in PixelsOf(tile) \cap Pixel PROVE Draws(op, q) = after[q]
  <2>1. q[1] \in Int /\ q[2] \in Int /\ tile.x \in Int /\ tile.y \in Int
    BY DEF Rectangle, PixelsOf
  <2>2. /\ q[1] + (x - tile.x) = x + (q[1] - tile.x)
        /\ q[2] + (y - tile.y) = y + (q[2] - tile.y)
    BY <2>1
  <2>3. Draws(op, q) = before[<<q[1] + (x - tile.x), q[2] + (y - tile.y)>>]
    BY <1>1, <1>3 DEF Draws
  <2>4. QED
    BY <2>2, <2>3
<1>5. QED
  BY <1>2, <1>4 DEF Shows, DrawsNewPicture, op, src

\* What the fingerprints contain does not matter, as long as the place they give is
\* compared with the pictures (positionMatches).
LEMMA ConfirmedPositionsShow ==
    ASSUME NEW tile, IsTile(tile), NEW p, p[1] \in Nat, p[2] \in Nat,
           PositionMatches(p, tile)
    PROVE  Shows(Rect(p[1], p[2], tile.w, tile.h), tile)
<1> DEFINE src == Rect(p[1], p[2], tile.w, tile.h)
<1>1. /\ src \in Rectangle /\ src.w > 0 /\ src.h > 0 /\ src.x >= 0 /\ src.y >= 0
      /\ src.x = p[1] /\ src.y = p[2] /\ src.w = tile.w /\ src.h = tile.h
  BY DEF Rect, Rectangle, IsTile
<1>2. Visible(tile) = tile
  BY InsideIsVisible DEF IsTile
<1>3. ContentMatches(before, after, Visible(src), tile)
  BY <1>2 DEF PositionMatches
<1> HIDE DEF src
<1>4. Visible(src).w = src.w /\ Visible(src).h = src.h
  BY <1>1, <1>3 DEF ContentMatches
<1>5. PixelsOf(src) \subseteq Pixel
  BY <1>1, <1>4, AllVisibleIsInside
<1>6. Visible(src) = src
  BY <1>1, <1>5, InsideIsVisible
<1>7. \A i \in 0..(tile.w - 1), j \in 0..(tile.h - 1) :
        before[<<p[1] + i, p[2] + j>>] = after[<<tile.x + i, tile.y + j>>]
  BY <1>1, <1>3, <1>6 DEF ContentMatches
<1>8. ASSUME NEW q \in PixelsOf(tile)
      PROVE  before[<<p[1] + (q[1] - tile.x), p[2] + (q[2] - tile.y)>>] = after[q]
  <2>1. /\ q = <<q[1], q[2]>> /\ q[1] \in Int /\ q[2] \in Int
        /\ tile.x <= q[1] /\ q[1] <= tile.x + tile.w - 1
        /\ tile.y <= q[2] /\ q[2] <= tile.y + tile.h - 1
    BY DEF PixelsOf, Right, Bottom, IsTile, Rectangle
  <2>2. /\ tile.x \in Int /\ tile.y \in Int /\ tile.w \in Nat /\ tile.h \in Nat
    BY DEF IsTile, Rectangle
  <2>3. q[1] - tile.x \in 0..(tile.w - 1) /\ q[2] - tile.y \in 0..(tile.h - 1)
    BY <2>1, <2>2
  <2>4. tile.x + (q[1] - tile.x) = q[1] /\ tile.y + (q[2] - tile.y) = q[2]
    BY <2>1, <2>2
  <2>5. before[<<p[1] + (q[1] - tile.x), p[2] + (q[2] - tile.y)>>]
            = after[<<tile.x + (q[1] - tile.x), tile.y + (q[2] - tile.y)>>]
    BY <1>7, <2>3
  <2>6. QED
    BY <2>1, <2>4, <2>5
<1>9. QED
  BY <1>5, <1>8, EqualPixelsShow DEF src, IsTile

\* The places the fingerprints give.
LEMMA PositionsAreNatural ==
    ASSUME NEW roi \in Rectangle, roi.x >= 0, roi.y >= 0,
           NEW k \in Nat, NEW needle, DOMAIN needle = 0..(k - 1), NEW t \in Nat,
           NEW p \in Positions(prints, needle, roi, t)
    PROVE  p[1] \in Nat /\ p[2] \in Nat
<1> DEFINE n == Cardinality(DOMAIN needle)
           end == Bottom(roi) + 1 - n
           row(x) == IndexOf(prints[x], needle, roi.y, end)
           columns == IF roi.h < n THEN {} ELSE roi.x..(Right(roi) - t + 1)
<1>1. roi.x \in Nat /\ roi.y \in Nat /\ Right(roi) \in Int /\ Bottom(roi) \in Int
  BY DEF Rectangle, Right, Bottom
<1>2. n \in Nat
  BY FS_Interval, FS_CardinalityType
<1>3. end \in Int
  BY <1>1, <1>2
<1>4. PICK x \in columns : p = <<x, row(x)>> /\ row(x) > -1
  BY DEF Positions
<1>5. x \in Nat
  BY <1>1, <1>4
<1>6. row(x) \in Nat \cup {-1}
  <2> DEFINE last == IF end <= 0 \/ end > Height - n THEN Height - n ELSE end
             found == {i \in roi.y..last :
                        n \notin {0, 2, 3} /\ \A m \in Compared(n) : prints[x][i + m] = needle[m]}
  <2>1. last \in Int
    BY <1>2, <1>3, SizeAssumption
  <2>2. row(x) = IF found = {} THEN -1 ELSE Min(found)
    BY DEF IndexOf
  <2>3. found \in SUBSET Nat
    <3> HIDE DEF last
    <3>1. QED
      BY <1>1, <2>1
  <2> HIDE DEF found, row
  <2>4. found # {} => Min(found) \in found
    BY <2>3, MinOfNaturals
  <2>5. QED
    BY <2>2, <2>3, <2>4
<1>7. QED
  BY <1>4, <1>5, <1>6

\* A tile outside of the picture, which a search has to itself as large as a template.
IsCornerTile(tile) ==
    /\ tile \in Block /\ tile.w <= TemplateWidth /\ tile.h <= TemplateWidth
    /\ PixelsOf(tile) \subseteq PixelsOf(Corner) /\ ~(PixelsOf(tile) \subseteq Pixel)

\* The pixels of Corner; the only one in the picture is the first.
LEMMA CornerFacts ==
    /\ Corner \in Block /\ Corner \in Rectangle
    /\ \A p : p \in PixelsOf(Corner) <=>
            p = <<p[1], p[2]>> /\ p[1] \in {-1, 0} /\ p[2] \in {-1, 0}
    /\ \A p \in PixelsOf(Corner) \cap Pixel : p = <<0, 0>>
<1>1. /\ Corner \in Block /\ Corner \in Rectangle
      /\ Corner.x = -1 /\ Corner.y = -1 /\ Corner.w = 2 /\ Corner.h = 2
  BY DEF Corner, Rect, Block, Rectangle
<1>2. ASSUME NEW p
      PROVE  p \in PixelsOf(Corner) <=>
                p = <<p[1], p[2]>> /\ p[1] \in {-1, 0} /\ p[2] \in {-1, 0}
  <2>1. p \in PixelsOf(Corner) <=>
            /\ p = <<p[1], p[2]>> /\ p[1] \in Int /\ p[2] \in Int
            /\ -1 <= p[1] /\ p[1] < -1 + 2 /\ -1 <= p[2] /\ p[2] < -1 + 2
    BY <1>1, PixelsByEdges
  <2>2. \A n \in Int : -1 <= n /\ n < -1 + 2 <=> n \in {-1, 0}
    OBVIOUS
  <2>3. -1 \in Int /\ 0 \in Int
    OBVIOUS
  <2>4. QED
    BY <2>1, <2>2, <2>3
<1>3. ASSUME NEW p \in PixelsOf(Corner) \cap Pixel PROVE p = <<0, 0>>
  <2>1. /\ p = <<p[1], p[2]>> /\ p[1] \in {-1, 0} /\ p[2] \in {-1, 0}
    BY <1>2
  <2>2. 0 <= p[1] /\ 0 <= p[2]
    BY PixelCoordinates
  <2>3. p[1] = 0 /\ p[2] = 0
    BY <2>1, <2>2
  <2>4. QED
    BY <2>1, <2>3
<1>4. QED
  BY <1>1, <1>2, <1>3

\* What is found by comparing all pixels of the tile that are in the picture.
LEMMA RawPositionsShow ==
    ASSUME NEW tile \in Block, NEW area \in Rectangle, NEW wild,
           NEW p \in RawPositions(Visible(area), tile, wild)
    PROVE  p[1] \in Nat /\ p[2] \in Nat /\ Shows(Rect(p[1], p[2], tile.w, tile.h), tile)
<1> DEFINE roi == Visible(area)
<1>1. /\ roi \in Rectangle /\ roi.x >= 0 /\ roi.y >= 0
      /\ Right(roi) <= Width - 1 /\ Bottom(roi) <= Height - 1
  BY VisibleBounds
<1> HIDE DEF roi
<1>2. /\ tile \in Rectangle /\ tile.x \in Int /\ tile.y \in Int
      /\ tile.w \in Nat /\ tile.h \in Nat /\ tile.w > 0 /\ tile.h > 0
  BY DEF Block, Rectangle
<1>3. /\ p \in (roi.x..(Right(roi) - tile.w + 1)) \X (roi.y..(Bottom(roi) - tile.h + 1))
      /\ RawMatches(p, tile, wild)
  BY DEF RawPositions, roi
<1>4. /\ roi.x \in Nat /\ roi.y \in Nat /\ Right(roi) \in Int /\ Bottom(roi) \in Int
  BY <1>1 DEF Rectangle, Right, Bottom
<1>5. /\ p[1] \in Nat /\ p[2] \in Nat
      /\ p[1] + tile.w - 1 <= Width - 1 /\ p[2] + tile.h - 1 <= Height - 1
  BY <1>1, <1>2, <1>3, <1>4, SizeAssumption
<1>6. PixelsOf(Rect(p[1], p[2], tile.w, tile.h)) \subseteq Pixel
  <2> DEFINE r == Rect(p[1], p[2], tile.w, tile.h)
  <2>1. /\ r \in Rectangle /\ r.w > 0 /\ r.h > 0 /\ r.x >= 0 /\ r.y >= 0
        /\ Right(r) <= Width - 1 /\ Bottom(r) <= Height - 1
    BY <1>2, <1>5 DEF Rect, Rectangle, Right, Bottom
  <2> HIDE DEF r
  <2>2. PixelsOf(r) \subseteq Pixel
    BY <2>1, InsideByEdges
  <2>3. QED
    BY <2>2 DEF r
<1>7. ASSUME NEW q \in PixelsOf(tile) \cap Pixel
      PROVE  before[<<p[1] + (q[1] - tile.x), p[2] + (q[2] - tile.y)>>] = after[q]
  <2>1. q[1] \in Int /\ q[2] \in Int
    BY DEF PixelsOf
  <2>2. before[<<p[1] + q[1] - tile.x, p[2] + q[2] - tile.y>>] = after[q]
    BY <1>3 DEF RawMatches
  <2>3. /\ p[1] + q[1] - tile.x = p[1] + (q[1] - tile.x)
        /\ p[2] + q[2] - tile.y = p[2] + (q[2] - tile.y)
    BY <1>2, <1>5, <2>1
  <2>4. QED
    BY <2>2, <2>3
<1>8. QED
  BY <1>2, <1>5, <1>6, <1>7, EqualPixelsShow

\* No place that the fingerprints give is confirmed for a tile outside of the picture.
LEMMA CornerIsNotConfirmed ==
    ASSUME settings \in Settings, NEW tile, IsCornerTile(tile), NEW area \in Rectangle,
           tile.w % TemplateWidth = 0,
           NEW p \in Positions(prints, TemplateOf(after, Visible(tile)), Visible(area),
                               TemplateWidth),
           PositionMatches(p, tile)
    PROVE  FALSE
<1> DEFINE t == TemplateWidth
           roi == Visible(area)
           v == Visible(tile)
           needle == TemplateOf(after, v)
<1>1. /\ tile \in Rectangle /\ tile.x \in Int /\ tile.y \in Int
      /\ tile.w \in Nat /\ tile.h \in Nat /\ tile.w > 0 /\ tile.h > 0
      /\ tile.w <= t /\ tile.h <= t
  BY DEF IsCornerTile, Block, Rectangle
<1>2. t \in Nat \ {0}
  BY TemplateFits
<1>3. /\ roi \in Rectangle /\ roi.x >= 0 /\ roi.y >= 0
      /\ Right(roi) <= Width - 1 /\ Bottom(roi) <= Height - 1
  BY VisibleBounds
<1>4. /\ v \in Block \/ v = NoRect
      /\ PixelsOf(v) = PixelsOf(tile) \cap Pixel
  BY <1>1, VisiblePixels
<1>5. DOMAIN needle = 0..(v.h - 1)
  BY DEF TemplateOf
<1> HIDE DEF t, roi, v, needle
<1>6. tile.w = t
  <2> SUFFICES ASSUME tile.w < t PROVE FALSE
    BY <1>1, <1>2
  <2>1. 0 * t <= tile.w /\ tile.w < 0 * t + t /\ 0 \in Nat
    BY <1>1, <1>2
  <2>2. tile.w % t = tile.w - 0 * t
    BY <1>1, <1>2, <2>1, DivisionIsUnique
  <2>3. QED
    BY <1>1, <1>2, <2>2 DEF t
<1>7. PICK x \in roi.x..(Right(roi) - t + 1) :
        /\ p[1] = x
        /\ p[2] = IndexOf(prints[x], needle, roi.y, Bottom(roi) + 1 - Cardinality(DOMAIN needle))
        /\ p[2] > -1
  BY DEF Positions, roi, needle, v, t
<1>8. x \in Nat /\ x + t - 1 <= Width - 1
  <2>1. roi.x \in Int /\ Right(roi) \in Int
    BY <1>3 DEF Rectangle, Right
  <2>2. QED
    BY <1>2, <1>3, <1>7, <2>1, SizeAssumption
<1>9. v # NoRect
  <2> SUFFICES ASSUME v = NoRect PROVE FALSE
    OBVIOUS
  <2>1. DOMAIN needle = {}
    <3>1. v.h = 0
      BY DEF NoRect, Rect
    <3>2. 0..(0 - 1) = {}
      OBVIOUS
    <3>3. QED
      BY <1>5, <3>1, <3>2
  <2>2. Cardinality(DOMAIN needle) = 0
    BY <2>1, FS_EmptySet
  <2>3. p[2] = -1
    BY <1>7, <2>2 DEF IndexOf
  <2>4. QED
    BY <1>7, <2>3
<1>10. /\ v \in Rectangle /\ v.x \in Int /\ v.y \in Int /\ v.w \in Nat /\ v.h \in Nat
       /\ v.w > 0 /\ v.h > 0
  BY <1>4, <1>9 DEF Block, Rectangle
<1>11. v.w = 1 /\ v.h = 1
  <2>1. \A q \in PixelsOf(v) : q = <<0, 0>>
    BY <1>4, CornerFacts DEF IsCornerTile
  <2> DEFINE a == <<v.x, v.y>>
             b == <<v.x + v.w - 1, v.y + v.h - 1>>
  <2>2. /\ a = <<a[1], a[2]>> /\ a[1] = v.x /\ a[2] = v.y
        /\ b = <<b[1], b[2]>> /\ b[1] = v.x + v.w - 1 /\ b[2] = v.y + v.h - 1
    OBVIOUS
  <2> HIDE DEF a, b
  <2>3. a \in PixelsOf(v)
    BY <1>10, <2>2, PixelsByEdges
  <2>4. /\ b[1] \in Int /\ b[2] \in Int /\ v.x <= b[1] /\ b[1] < v.x + v.w
        /\ v.y <= b[2] /\ b[2] < v.y + v.h
    BY <1>10, <2>2
  <2>5. b \in PixelsOf(v)
    BY <1>10, <2>2, <2>4, PixelsByEdges
  <2>6. a[1] = 0 /\ a[2] = 0 /\ b[1] = 0 /\ b[2] = 0
    BY <2>1, <2>3, <2>5
  <2>7. QED
    BY <1>10, <2>2, <2>6
<1> DEFINE src == Rect(p[1], p[2], tile.w, tile.h)
<1>12. p[2] \in Nat
  <2>1. v.h \in Nat
    BY <1>10
  <2>2. roi.x >= 0 /\ roi.y >= 0 /\ roi \in Rectangle
    BY <1>3
  <2>3. p \in Positions(prints, needle, roi, t)
    BY DEF needle, roi, t, v
  <2>4. QED
    BY <1>2, <1>5, <2>1, <2>2, <2>3, PositionsAreNatural
<1>13. /\ src \in Rectangle /\ src.x = x /\ src.y = p[2] /\ src.w = t /\ src.h = tile.h
  BY <1>1, <1>2, <1>6, <1>7, <1>8, <1>12 DEF Rect, Rectangle
<1>14. Visible(src).w = 1
  BY <1>11 DEF PositionMatches, ContentMatches, v
<1> HIDE DEF src
<1>15. Visible(src).w = t
  <2> DEFINE bottom == IF Bottom(src) <= Height - 1 THEN Bottom(src) ELSE Height - 1
  <2>1. Right(src) = x + t - 1 /\ src.x >= 0 /\ src.y >= 0 /\ Right(src) <= Width - 1
    BY <1>8, <1>12, <1>13 DEF Right
  <2>2. Visible(src) = IF src.x > Right(src) \/ src.y > bottom THEN Rect(0, 0, 0, 0)
                       ELSE Rect(src.x, src.y, Right(src) - src.x + 1, bottom - src.y + 1)
    BY <1>13, <2>1, VisibleEdges
  <2> HIDE DEF bottom
  <2>3. CASE src.x > Right(src) \/ src.y > bottom
    <3>1. Visible(src).w = 0
      BY <2>2, <2>3 DEF Rect
    <3>2. QED
      BY <1>14, <3>1
  <2>4. CASE ~(src.x > Right(src) \/ src.y > bottom)
    <3>1. Visible(src).w = Right(src) - src.x + 1
      BY <2>2, <2>4 DEF Rect
    <3>2. QED
      BY <1>2, <1>8, <1>13, <2>1, <3>1
  <2>5. QED
    BY <2>3, <2>4
<1>16. tile.w = 1 /\ tile.h = 1
  BY <1>1, <1>2, <1>6, <1>14, <1>15
<1>17. PixelsOf(tile) \subseteq Pixel
  <2>1. ASSUME NEW q \in PixelsOf(tile) PROVE q = <<tile.x, tile.y>>
    <3>1. /\ q = <<q[1], q[2]>> /\ q[1] \in Int /\ q[2] \in Int
          /\ tile.x <= q[1] /\ q[1] < tile.x + tile.w /\ tile.y <= q[2] /\ q[2] < tile.y + tile.h
      BY <1>1, PixelsByEdges
    <3>2. q[1] = tile.x /\ q[2] = tile.y
      BY <1>1, <1>16, <3>1
    <3>3. QED
      BY <3>1, <3>2
  <2>2. PICK q : q \in PixelsOf(tile) /\ q \in Pixel
    <3>1. <<v.x, v.y>> \in PixelsOf(v)
      BY <1>4, <1>9, PixelsByEdges DEF Block
    <3>2. QED
      BY <1>4, <3>1
  <2>3. QED
    BY <2>1, <2>2
<1>18. QED
  BY <1>17 DEF IsCornerTile

\* A tile a search is made for.
Searched(tile) ==
    tile \in Block /\ (PixelsOf(tile) \subseteq Pixel \/ IsCornerTile(tile))

\* The rectangle found for a tile is as large and shows what the tile is to show.
Found(src, tile) ==
    src \in Rectangle /\ src.w = tile.w /\ src.h = tile.h /\ Shows(src, tile)

\* What findMovedRect finds for a tile that is searched.
LEMMA FoundRectIsFound ==
    ASSUME settings \in Settings, NEW tile, Searched(tile), NEW area \in Rectangle, NEW wild,
           NEW src \in FindMovedRect(Visible(area), tile, wild)
    PROVE  Found(src, tile)
<1> DEFINE found == Positions(prints, TemplateOf(after, Visible(tile)), Visible(area),
                              TemplateWidth)
<1>1. PICK p : /\ src = Rect(p[1], p[2], tile.w, tile.h)
               /\ \/ tile.w % TemplateWidth = 0 /\ p \in found /\ PositionMatches(p, tile)
                  \/ p \in RawPositions(Visible(area), tile, wild)
  BY DEF FindMovedRect, FirstByColumn, FirstByRow
<1>2. tile \in Block /\ tile.w \in Nat /\ tile.h \in Nat
  BY DEF Searched, Block, Rectangle
<1>3. CASE p \in RawPositions(Visible(area), tile, wild)
  <2>1. p[1] \in Nat /\ p[2] \in Nat /\ Shows(src, tile)
    BY <1>1, <1>2, <1>3, RawPositionsShow
  <2>2. QED
    BY <1>1, <1>2, <2>1 DEF Found, Rect, Rectangle
<1>4. CASE tile.w % TemplateWidth = 0 /\ p \in found /\ PositionMatches(p, tile)
  <2>1. ~IsCornerTile(tile)
    BY <1>4, CornerIsNotConfirmed
  <2>2. IsTile(tile)
    BY <2>1 DEF Searched, IsTile, Block
  <2>3. p[1] \in Nat /\ p[2] \in Nat
    <3> DEFINE roi == Visible(area)
               needle == TemplateOf(after, Visible(tile))
    <3>1. DOMAIN needle = 0..(tile.h - 1)
      BY <2>2, InsideIsVisible DEF TemplateOf, IsTile
    <3>2. roi \in Rectangle /\ roi.x >= 0 /\ roi.y >= 0
      BY VisibleBounds
    <3>3. p \in Positions(prints, needle, roi, TemplateWidth)
      BY <1>4
    <3> HIDE DEF needle, roi
    <3>4. TemplateWidth \in Nat
      BY TemplateFits
    <3>5. QED
      BY <1>2, <3>1, <3>2, <3>3, <3>4, PositionsAreNatural
  <2>4. Shows(src, tile)
    BY <1>1, <1>4, <2>2, <2>3, ConfirmedPositionsShow
  <2>5. QED
    BY <1>1, <1>2, <2>3, <2>4 DEF Found, Rect, Rectangle
<1>5. QED
  BY <1>1, <1>3, <1>4

\* A tile moved back by a vector.
LEMMA MovedTile ==
    ASSUME NEW tile \in Rectangle, NEW v \in Int \X Int
    PROVE  Translated(tile, <<-v[1], -v[2]>>) \in Rectangle
<1> DEFINE moved == Translated(tile, <<-v[1], -v[2]>>)
<1>1. /\ tile.x \in Int /\ tile.y \in Int /\ tile.w \in Nat /\ tile.h \in Nat
      /\ v[1] \in Int /\ v[2] \in Int
  BY DEF Rectangle
<1>2. moved = [x |-> tile.x + (-v[1]), y |-> tile.y + (-v[2]), w |-> tile.w, h |-> tile.h]
  BY DEF Translated, Rect
<1>3. \A m, k \in Int : m + (-k) \in Int
  OBVIOUS
<1>4. tile.x + (-v[1]) \in Int /\ tile.y + (-v[2]) \in Int
  BY <1>1, <1>3
<1> HIDE DEF moved
<1>5. moved \in Rectangle
  BY <1>1, <1>2, <1>4 DEF Rectangle
<1>6. QED
  BY <1>5 DEF moved

\* What a search finds with the vectors, and where it ends in n areas.
Hits(byVector) == {i \in DOMAIN byVector : byVector[i] # {}}
Ends(byArea, n) ==
    {i \in 1..n : \/ byArea[i] # {}
                  \/ misses + i = SearchMissesThreshold
                  \/ i = n}

\* What a search goes through: what it finds with each vector and then in each area, and
\* where it ends if no vector helps.
GoesThrough(search, tile, known, wild, byVector, byArea, n) ==
    /\ DOMAIN byVector = DOMAIN known
    /\ \A i \in DOMAIN known :
        byVector[i] = FindMovedRect(Visible(Translated(tile,
                            <<-known[i][1], -known[i][2]>>)), tile, wild)
    /\ \A i \in 1..n : \E area \in Rectangle :
        byArea[i] = FindMovedRect(Visible(area), tile, wild)
    /\ Hits(byVector) # {} =>
        search = [src |-> byVector[Min(Hits(byVector))], missed |-> 0]
    /\ Hits(byVector) = {} =>
        LET last == Min(Ends(byArea, n))
        IN  search = [src |-> byArea[last],
                      missed |-> IF byArea[last] = {} THEN last ELSE last - 1]
    /\ Ends(byArea, n) \in SUBSET Nat /\ Ends(byArea, n) # {}

\* Every search is such.
LEMMA SearchSteps ==
    ASSUME NEW tile \in Rectangle, NEW known, NEW additional \in Seq(Rectangle), NEW wild,
           misses \in Nat
    PROVE  \E byVector, byArea, n :
            /\ n \in Nat \ {0}
            /\ GoesThrough(Search(tile, known, additional, wild), tile, known, wild,
                           byVector, byArea, n)
<1> DEFINE moved == [i \in DOMAIN known |->
                        Translated(tile, <<-known[i][1], -known[i][2]>>)]
           places == Append(additional, Grown(tile, SearchRadius))
           n == Len(places)
           byVector == FoundIn(moved, tile, wild)
           byArea == FoundIn(places, tile, wild)
           search == Search(tile, known, additional, wild)
<1>1. places \in Seq(Rectangle) /\ n \in Nat \ {0}
  <2>1. Grown(tile, SearchRadius) \in Rectangle
    <3>1. /\ tile.x \in Int /\ tile.y \in Int /\ tile.w \in Nat /\ tile.h \in Nat
          /\ SearchRadius \in Nat
      BY BoundAssumption DEF Rectangle
    <3>2. QED
      BY <3>1 DEF Grown, Rect, Rectangle
  <2> DEFINE g == Grown(tile, SearchRadius)
  <2> HIDE DEF g
  <2>2. g \in Rectangle
    BY <2>1 DEF g
  <2>3. /\ Append(additional, g) \in Seq(Rectangle)
        /\ Len(Append(additional, g)) = Len(additional) + 1
        /\ Len(additional) \in Nat
    BY <2>2
  <2>4. QED
    BY <2>3 DEF g
<1>2. DOMAIN byVector = DOMAIN known
  BY DEF FoundIn
<1>3. ASSUME NEW i \in DOMAIN known
      PROVE  byVector[i] = FindMovedRect(Visible(Translated(tile,
                                <<-known[i][1], -known[i][2]>>)), tile, wild)
  BY DEF FoundIn
<1> HIDE DEF moved, places
<1>4. DOMAIN byArea = 1..n /\ Len(byArea) = n
  <2>1. DOMAIN places = 1..n
    BY <1>1
  <2>2. byArea = [i \in 1..n |-> FindMovedRect(Visible(places[i]), tile, wild)]
    BY <2>1 DEF FoundIn
  <2> HIDE DEF byArea, n
  <2>3. QED
    BY <1>1, <2>2
<1>5. ASSUME NEW i \in 1..n
      PROVE  \E area \in Rectangle : byArea[i] = FindMovedRect(Visible(area), tile, wild)
  <2>1. i \in DOMAIN places /\ places[i] \in Rectangle
    BY <1>1
  <2>2. byArea[i] = FindMovedRect(Visible(places[i]), tile, wild)
    BY <2>1 DEF FoundIn
  <2> HIDE DEF byArea
  <2>3. QED
    BY <2>1, <2>2
<1>6. search = SearchResult(byVector, byArea)
  BY DEF Search, moved, places
<1> HIDE DEF byVector, byArea, n, search
<1>7. search =
        IF Hits(byVector) # {} THEN [src |-> byVector[Min(Hits(byVector))], missed |-> 0]
        ELSE LET last == Min(Ends(byArea, n))
             IN  [src |-> byArea[last],
                  missed |-> IF byArea[last] = {} THEN last ELSE last - 1]
  BY <1>4, <1>6 DEF SearchResult, Hits, Ends
<1>8. Ends(byArea, n) \in SUBSET Nat /\ Ends(byArea, n) # {}
  <2>1. n \in 1..n /\ 1..n \subseteq Nat
    BY <1>1
  <2>2. QED
    BY <2>1 DEF Ends
<1>9. GoesThrough(search, tile, known, wild, byVector, byArea, n)
  BY <1>2, <1>3, <1>5, <1>7, <1>8 DEF GoesThrough
<1>10. n \in Nat \ {0}
  BY <1>1 DEF n
<1>11. QED
  BY <1>9, <1>10 DEF search

\* Whatever the fingerprints contain, they may be stale or collide, and whatever
\* vectors and areas are searched, a move found for a tile draws nothing but the new
\* picture, from pixels the client shows
\* (MoveAnalyzer::processRect, findMovedRect, findPosition, positionMatches).
THEOREM SearchFindsThePicture ==
    ASSUME settings \in Settings, NEW tile, Searched(tile),
           NEW known \in Seq(Int \X Int), NEW additional \in Seq(Rectangle), NEW wild,
           NEW src \in Search(tile, known, additional, wild).src,
           misses \in Nat
    PROVE  Found(src, tile)
<1> DEFINE search == Search(tile, known, additional, wild)
<1>1. /\ tile \in Rectangle
      /\ tile.x \in Int /\ tile.y \in Int /\ tile.w \in Nat /\ tile.h \in Nat
  BY DEF Searched, Block, Rectangle
<1>2. PICK byVector, byArea, n :
        n \in Nat \ {0} /\ GoesThrough(search, tile, known, wild, byVector, byArea, n)
  BY <1>1, SearchSteps
<1> DEFINE hits == Hits(byVector)
           ends == Ends(byArea, n)
<1> HIDE DEF search
<1>3. CASE hits # {}
  <2>1. hits \in SUBSET Nat
    <3>1. DOMAIN byVector = DOMAIN known
      BY <1>2 DEF GoesThrough
    <3>2. DOMAIN known \in SUBSET Nat
      OBVIOUS
    <3> QED BY <3>1, <3>2 DEF Hits
  <2>2. Min(hits) \in hits
    BY <1>3, <2>1, MinOfNaturals
  <2> DEFINE i == Min(hits)
             area == Translated(tile, <<-known[i][1], -known[i][2]>>)
  <2>3. i \in DOMAIN known /\ search = [src |-> byVector[i], missed |-> 0]
        /\ byVector[i] = FindMovedRect(Visible(area), tile, wild)
    BY <1>2, <1>3, <2>2 DEF Hits, GoesThrough
  <2> HIDE DEF i
  <2>4. known[i] \in Int \X Int
    BY <2>3
  <2>5. area \in Rectangle
    BY <1>1, <2>4, MovedTile
  <2> HIDE DEF area
  <2>6. src \in FindMovedRect(Visible(area), tile, wild)
    BY <2>3 DEF search
  <2>7. QED
    BY <2>5, <2>6, FoundRectIsFound
<1>4. CASE hits = {}
  <2>1. Min(ends) \in ends
    BY <1>2, MinOfNaturals DEF GoesThrough
  <2> DEFINE i == Min(ends)
  <2>2. i \in 1..n /\ search.src = byArea[i]
    BY <1>2, <1>4, <2>1 DEF Ends, GoesThrough
  <2> HIDE DEF i
  <2>3. PICK area \in Rectangle : byArea[i] = FindMovedRect(Visible(area), tile, wild)
    BY <1>2, <2>2 DEF GoesThrough
  <2>4. src \in FindMovedRect(Visible(area), tile, wild)
    BY <2>2, <2>3 DEF search
  <2>5. QED
    BY <2>4, FoundRectIsFound
<1>5. QED
  BY <1>3, <1>4

\* A search that begins below the threshold ends at it or before, and counts the miss
\* that reaches it as its last.
LEMMA SearchMisses ==
    ASSUME NEW tile \in Rectangle, NEW known \in Seq(Int \X Int),
           NEW additional \in Seq(Rectangle), NEW wild, misses \in Nat
    PROVE  LET search == Search(tile, known, additional, wild)
           IN  /\ search.missed \in Nat
               /\ misses < SearchMissesThreshold =>
                    /\ misses + search.missed <= SearchMissesThreshold
                    /\ misses + search.missed = SearchMissesThreshold =>
                        search.src = {} /\ search.missed > 0
<1> DEFINE search == Search(tile, known, additional, wild)
<1>1. PICK byVector, byArea, n :
        n \in Nat \ {0} /\ GoesThrough(search, tile, known, wild, byVector, byArea, n)
  BY SearchSteps
<1> DEFINE hits == Hits(byVector)
           ends == Ends(byArea, n)
           last == Min(ends)
<1> HIDE DEF search
<1>2. SearchMissesThreshold \in Nat \ {0}
  BY BoundAssumption
<1>3. CASE hits # {}
  <2>1. search.missed = 0
    BY <1>1, <1>3 DEF GoesThrough
  <2>2. QED
    BY <1>2, <2>1 DEF search
<1>4. CASE hits = {}
  <2>1. last \in ends /\ \A i \in ends : last <= i
    BY <1>1, MinOfNaturals DEF GoesThrough
  <2>2. /\ search.src = byArea[last]
        /\ search.missed = IF byArea[last] = {} THEN last ELSE last - 1
    BY <1>1, <1>4 DEF GoesThrough
  <2>3. /\ last \in 1..n
        /\ n \in Nat /\ last <= n
        /\ \A i \in 1..n : misses + i = SearchMissesThreshold => last <= i
    <3>1. ends \subseteq 1..n /\ n \in Nat
      BY <1>1 DEF Ends
    <3>2. \A i \in 1..n : misses + i = SearchMissesThreshold => i \in ends
      BY DEF Ends
    <3> HIDE DEF last, ends
    <3>3. last \in 1..n
      BY <2>1, <3>1
    <3>4. QED
      BY <2>1, <3>1, <3>2, <3>3
  <2> HIDE DEF last
  <2>4. ASSUME misses < SearchMissesThreshold PROVE misses + last <= SearchMissesThreshold
    <3> DEFINE k == SearchMissesThreshold - misses
    <3>1. k \in Nat /\ k >= 1 /\ misses + k = SearchMissesThreshold
      BY <1>2, <2>4
    <3> HIDE DEF k
    <3>2. CASE k <= n
      <4>1. k \in 1..n
        BY <2>3, <3>1, <3>2
      <4>2. last <= k
        BY <2>3, <3>1, <4>1
      <4>3. QED
        BY <2>3, <3>1, <4>2
    <3>3. CASE ~(k <= n)
      BY <2>3, <3>1, <3>3
    <3>4. QED
      BY <3>2, <3>3
  <2>5. CASE byArea[last] = {}
    BY <1>2, <2>2, <2>3, <2>4, <2>5 DEF search
  <2>6. CASE byArea[last] # {}
    BY <1>2, <2>2, <2>3, <2>4, <2>6 DEF search
  <2>7. QED
    BY <2>5, <2>6
<1>5. QED
  BY <1>3, <1>4

-----------------------------------------------------------------------------
(* Sequences without one of their elements *)

\* One element less.
LEMMA RemoveAtProperties ==
    ASSUME NEW S, NEW s \in Seq(S), NEW i \in 1..Len(s)
    PROVE  /\ RemoveAt(s, i) \in Seq(S) /\ Len(RemoveAt(s, i)) = Len(s) - 1
           /\ \A k \in 1..(Len(s) - 1) :
                RemoveAt(s, i)[k] = IF k < i THEN s[k] ELSE s[k + 1]
<1> DEFINE a == SubSeq(s, 1, i - 1)
           b == SubSeq(s, i + 1, Len(s))
           n == Len(s)
<1>1. n \in Nat /\ i \in Nat /\ 1 <= i /\ i <= n
  OBVIOUS
<1>2. /\ a \in Seq(S) /\ Len(a) = i - 1 /\ \A k \in 1..(i - 1) : a[k] = s[k]
  <2>1. \A k \in 1..(i - 1) : k \in 1..Len(s)
    BY <1>1
  <2>2. QED
    BY <1>1, <2>1, SubSeqProperties
<1>3. /\ b \in Seq(S) /\ Len(b) = n - i
      /\ \A k \in 1..(n - i) : b[k] = s[i + k]
  <2>1. \A k \in (i + 1)..Len(s) : k \in 1..Len(s)
    BY <1>1
  <2>2. /\ b \in Seq(S)
        /\ Len(b) = (IF i + 1 <= n THEN n - (i + 1) + 1 ELSE 0)
        /\ \A k \in 1..(n - (i + 1) + 1) : b[k] = s[i + 1 + k - 1]
    BY <1>1, <2>1, SubSeqProperties
  <2> HIDE DEF b, n
  <2>3. n - (i + 1) + 1 = n - i /\ (~(i + 1 <= n) => n - i = 0)
    BY <1>1
  <2>4. \A k \in 1..(n - i) : i + 1 + k - 1 = i + k
    BY <1>1
  <2>5. QED
    BY <2>2, <2>3, <2>4
<1>4. RemoveAt(s, i) = a \o b
  BY DEF RemoveAt
<1> HIDE DEF a, b, n
<1>5. /\ a \o b \in Seq(S) /\ Len(a \o b) = n - 1
      /\ \A k \in 1..(n - 1) : (a \o b)[k] = IF k <= i - 1 THEN a[k] ELSE b[k - (i - 1)]
  <2>1. /\ a \o b \in Seq(S) /\ Len(a \o b) = Len(a) + Len(b)
        /\ \A k \in 1..(Len(a) + Len(b)) :
            (a \o b)[k] = IF k <= Len(a) THEN a[k] ELSE b[k - Len(a)]
    BY <1>2, <1>3, ConcatProperties
  <2>2. Len(a) + Len(b) = n - 1
    BY <1>1, <1>2, <1>3
  <2>3. QED
    BY <1>2, <2>1, <2>2
<1>6. ASSUME NEW k \in 1..(n - 1)
      PROVE  (a \o b)[k] = IF k < i THEN s[k] ELSE s[k + 1]
  <2>1. CASE k < i
    <3>1. k <= i - 1 /\ k \in 1..(i - 1)
      BY <1>1, <2>1
    <3>2. QED
      BY <1>2, <1>5, <2>1, <3>1
  <2>2. CASE ~(k < i)
    <3>1. ~(k <= i - 1) /\ k - (i - 1) \in 1..(n - i) /\ i + (k - (i - 1)) = k + 1
      BY <1>1, <2>2
    <3>2. QED
      BY <1>3, <1>5, <2>2, <3>1
  <2>3. QED
    BY <2>1, <2>2
<1>7. QED
  BY <1>4, <1>5, <1>6 DEF n

\* Rectangles without one of them.
LEMMA WithoutOne ==
    ASSUME NEW s \in Seq(Block), Disjoint(s), NEW i \in 1..Len(s),
           NEW t \in Seq(Block), Len(t) = Len(s) - 1,
           \A k \in 1..(Len(s) - 1) : t[k] = IF k < i THEN s[k] ELSE s[k + 1]
    PROVE  /\ Disjoint(t) /\ \A k \in DOMAIN t : \E m \in DOMAIN s : t[k] = s[m]
           /\ PixelsIn(s) = PixelsIn(t) \cup PixelsOf(s[i])
           /\ PixelsIn(t) \cap PixelsOf(s[i]) = {}
<1> DEFINE n == Len(s)
           place(k) == IF k < i THEN k ELSE k + 1
<1>1. n \in Nat /\ i \in Nat /\ 1 <= i /\ i <= n
  OBVIOUS
<1>2. DOMAIN s = 1..n /\ DOMAIN t = 1..(n - 1)
  BY <1>1
<1>3. ASSUME NEW k \in 1..(n - 1)
      PROVE  place(k) \in 1..n /\ place(k) # i /\ t[k] = s[place(k)]
  <2>1. place(k) \in 1..n /\ place(k) # i
    BY <1>1
  <2>2. QED
    BY <2>1
<1>4. \A k, m \in 1..(n - 1) : k # m => place(k) # place(m)
  BY <1>1
<1>5. ASSUME NEW k \in 1..n, k # i PROVE \E m \in 1..(n - 1) : place(m) = k
  <2>1. CASE k < i
    <3>1. k \in 1..(n - 1) /\ place(k) = k
      BY <1>1, <2>1
    <3>2. QED
      BY <3>1
  <2>2. CASE ~(k < i)
    <3>1. k - 1 \in 1..(n - 1) /\ place(k - 1) = k
      BY <1>1, <1>5, <2>2
    <3>2. QED
      BY <3>1
  <2>3. QED
    BY <2>1, <2>2
<1> HIDE DEF place, n
<1>6. Disjoint(t)
  <2> SUFFICES ASSUME NEW k \in 1..(n - 1), NEW m \in 1..(n - 1), k # m
               PROVE  PixelsOf(t[k]) \cap PixelsOf(t[m]) = {}
    BY <1>2 DEF Disjoint
  <2>1. /\ place(k) \in DOMAIN s /\ place(m) \in DOMAIN s /\ place(k) # place(m)
        /\ t[k] = s[place(k)] /\ t[m] = s[place(m)]
    BY <1>2, <1>3, <1>4
  <2>2. QED
    BY <2>1 DEF Disjoint
<1>7. \A k \in DOMAIN t : \E m \in DOMAIN s : t[k] = s[m]
  BY <1>2, <1>3
<1>8. PixelsIn(s) = PixelsIn(t) \cup PixelsOf(s[i])
  <2>1. ASSUME NEW p \in PixelsIn(s) PROVE p \in PixelsIn(t) \cup PixelsOf(s[i])
    <3>1. PICK k \in 1..n : p \in PixelsOf(s[k])
      BY <1>2 DEF PixelsIn
    <3>2. CASE k # i
      <4>1. PICK m \in 1..(n - 1) : place(m) = k
        BY <1>5, <3>2
      <4>2. t[m] = s[k]
        BY <1>3, <4>1
      <4>3. QED
        BY <1>2, <3>1, <4>2 DEF PixelsIn
    <3>3. QED
      BY <3>1, <3>2
  <2>2. ASSUME NEW p \in PixelsIn(t) PROVE p \in PixelsIn(s)
    BY <1>2, <1>3 DEF PixelsIn
  <2>3. PixelsOf(s[i]) \subseteq PixelsIn(s)
    BY <1>1, <1>2 DEF PixelsIn
  <2>4. QED
    BY <2>1, <2>2, <2>3
<1>9. PixelsIn(t) \cap PixelsOf(s[i]) = {}
  <2> SUFFICES ASSUME NEW p \in PixelsIn(t), p \in PixelsOf(s[i]) PROVE FALSE
    OBVIOUS
  <2>1. PICK k \in 1..(n - 1) : p \in PixelsOf(t[k])
    BY <1>2 DEF PixelsIn
  <2>2. place(k) \in DOMAIN s /\ place(k) # i /\ p \in PixelsOf(s[place(k)])
    BY <1>2, <1>3, <2>1
  <2>3. i \in DOMAIN s
    BY <1>1, <1>2
  <2>4. QED
    BY <2>2, <2>3 DEF Disjoint
<1>10. QED
  BY <1>6, <1>7, <1>8, <1>9

\* The first is taken, or the one at place i.
LEMMA WithoutFirst ==
    ASSUME NEW s \in Seq(Block), Disjoint(s), s # <<>>
    PROVE  /\ Head(s) \in Block /\ Tail(s) \in Seq(Block) /\ Disjoint(Tail(s))
           /\ Head(s) \in ToSet(s) /\ ToSet(Tail(s)) \subseteq ToSet(s)
           /\ PixelsIn(s) = PixelsIn(Tail(s)) \cup PixelsOf(Head(s))
           /\ PixelsIn(Tail(s)) \cap PixelsOf(Head(s)) = {}
<1>1. /\ Head(s) = s[1] /\ Tail(s) \in Seq(Block) /\ Len(Tail(s)) = Len(s) - 1
      /\ \A k \in 1..(Len(s) - 1) : Tail(s)[k] = s[k + 1]
      /\ 1 \in 1..Len(s) /\ s[1] \in Block
  OBVIOUS
<1>2. \A k \in 1..(Len(s) - 1) : Tail(s)[k] = IF k < 1 THEN s[k] ELSE s[k + 1]
  BY <1>1
<1> DEFINE t == Tail(s)
<1> HIDE DEF t
<1>3. /\ t \in Seq(Block) /\ Len(t) = Len(s) - 1
      /\ \A k \in 1..(Len(s) - 1) : t[k] = IF k < 1 THEN s[k] ELSE s[k + 1]
  BY <1>1, <1>2 DEF t
<1>4. /\ Disjoint(t) /\ \A k \in DOMAIN t : \E m \in DOMAIN s : t[k] = s[m]
      /\ PixelsIn(s) = PixelsIn(t) \cup PixelsOf(s[1])
      /\ PixelsIn(t) \cap PixelsOf(s[1]) = {}
  BY <1>1, <1>3, WithoutOne
<1>5. ToSet(t) \subseteq ToSet(s) /\ s[1] \in ToSet(s)
  <2>1. 1 \in DOMAIN s
    BY <1>1
  <2>2. QED
    BY <1>4, <2>1 DEF ToSet
<1>6. QED
  BY <1>1, <1>3, <1>4, <1>5 DEF t

\* The same for any place (RemoveAt).
LEMMA WithoutPlace ==
    ASSUME NEW s \in Seq(Block), Disjoint(s), NEW i \in DOMAIN s
    PROVE  LET t == RemoveAt(s, i)
           IN  /\ s[i] \in Block /\ t \in Seq(Block) /\ Disjoint(t)
               /\ s[i] \in ToSet(s) /\ ToSet(t) \subseteq ToSet(s)
               /\ PixelsIn(s) = PixelsIn(t) \cup PixelsOf(s[i])
               /\ PixelsIn(t) \cap PixelsOf(s[i]) = {}
<1> DEFINE t == RemoveAt(s, i)
<1>1. i \in 1..Len(s) /\ s[i] \in Block
  OBVIOUS
<1>2. /\ t \in Seq(Block) /\ Len(t) = Len(s) - 1
      /\ \A k \in 1..(Len(s) - 1) : t[k] = IF k < i THEN s[k] ELSE s[k + 1]
  BY <1>1, RemoveAtProperties
<1> HIDE DEF t
<1>3. /\ Disjoint(t) /\ \A k \in DOMAIN t : \E m \in DOMAIN s : t[k] = s[m]
      /\ PixelsIn(s) = PixelsIn(t) \cup PixelsOf(s[i])
      /\ PixelsIn(t) \cap PixelsOf(s[i]) = {}
  BY <1>1, <1>2, WithoutOne
<1>4. ToSet(t) \subseteq ToSet(s) /\ s[i] \in ToSet(s)
  BY <1>3 DEF ToSet
<1>5. QED
  BY <1>1, <1>2, <1>3, <1>4 DEF t

\* The vectors stay vectors.
LEMMA KeptVector ==
    ASSUME vectors \in Seq(Int \X Int), NEW search, NEW tile \in Rectangle,
           \A src \in search.src : src \in Rectangle, KeepVector(search, tile)
    PROVE  vectors' \in Seq(Int \X Int)
<1>1. CASE search.src = {}
  BY <1>1 DEF KeepVector
<1>2. CASE search.src # {}
  <2> DEFINE src == CHOOSE r \in search.src : TRUE
             vector == <<tile.x - src.x, tile.y - src.y>>
             others == RemoveFirst(vectors, vector)
  <2>1. vectors' = <<vector>> \o others
    BY <1>2 DEF KeepVector
  <2>2. src \in Rectangle
    BY <1>2
  <2> HIDE DEF src
  <2>3. vector \in Int \X Int
    BY <2>2 DEF Rectangle
  <2> HIDE DEF vector
  <2>4. others \in Seq(Int \X Int)
    <3> DEFINE I == {i \in 1..Len(vectors) : vectors[i] = vector}
    <3>1. CASE I = {}
      BY <3>1 DEF RemoveFirst
    <3>2. CASE I # {}
      <4>1. Min(I) \in I
        <5>1. I \in SUBSET Nat
          OBVIOUS
        <5> HIDE DEF I
        <5>2. QED
          BY <3>2, <5>1, MinOfNaturals
      <4>2. others = RemoveAt(vectors, Min(I))
        BY <3>2 DEF RemoveFirst, SelectInSeq
      <4>3. Min(I) \in 1..Len(vectors)
        BY <4>1
      <4> HIDE DEF I
      <4>4. QED
        BY <4>2, <4>3, RemoveAtProperties
    <3>3. QED
      BY <3>1, <3>2
  <2> HIDE DEF others
  <2>5. QED
    BY <2>1, <2>3, <2>4
<1>3. QED
  BY <1>1, <1>2

-----------------------------------------------------------------------------
(* Operations that are right *)

\* An operation that is right: a move takes its pixels from the picture.
OperationOK(op) ==
    /\ op \in Operation /\ DrawsNewPicture(op)
    /\ op.type = "move" => PixelsOf(op.src) \subseteq Pixel

\* An image of a rectangle is right.
LEMMA UpdateIsRight ==
    ASSUME NEW r \in Block
    PROVE  LET op == UpdateOf(r)
           IN  /\ OperationOK(op) /\ op.src = r /\ op.type = "update"
               /\ PixelsOf(Target(op)) = PixelsOf(r)
<1> DEFINE op == UpdateOf(r)
<1>1. /\ op = [type |-> "update", src |-> r, dst |-> <<r.x, r.y>>, color |-> -1]
      /\ op.type = "update" /\ op.src = r /\ op.dst = <<r.x, r.y>>
  BY DEF UpdateOf
<1>2. /\ r \in Rectangle /\ r.x \in Int /\ r.y \in Int /\ r.w \in Nat /\ r.h \in Nat
  BY DEF Block, Rectangle
<1>3. op \in Operation
  BY <1>1, <1>2 DEF Operation, Rectangle
<1>4. PixelsOf(Target(op)) = PixelsOf(r)
  BY <1>1 DEF Target, Rect, PixelsOf, Right, Bottom
<1>5. Vector(op) = <<0, 0>>
  BY <1>1, <1>2 DEF Vector
<1> HIDE DEF op
<1>6. ASSUME NEW p \in PixelsOf(Target(op)) \cap Pixel PROVE Draws(op, p) = after[p]
  <2>1. Draws(op, p) = after[<<p[1] + 0, p[2] + 0>>]
    BY <1>1, <1>5 DEF Draws
  <2>2. p = <<p[1], p[2]>> /\ p[1] + 0 = p[1] /\ p[2] + 0 = p[2]
    BY PixelCoordinates
  <2>3. QED
    BY <2>1, <2>2
<1>7. QED
  BY <1>1, <1>3, <1>4, <1>6 DEF OperationOK, DrawsNewPicture, op

\* A fill of the colour all its pixels have is right.
LEMMA FillIsRight ==
    ASSUME after \in Picture, NEW r \in Block, NEW color \in SolidColor(after, Visible(r))
    PROVE  LET op == FillOf(r, color)
           IN  /\ OperationOK(op) /\ op.src = r /\ op.type = "fill"
               /\ PixelsOf(Target(op)) = PixelsOf(r)
<1> DEFINE op == FillOf(r, color)
           roi == Visible(r)
<1>1. /\ op = [type |-> "fill", src |-> r, dst |-> <<r.x, r.y>>, color |-> color]
      /\ op.type = "fill" /\ op.src = r /\ op.dst = <<r.x, r.y>> /\ op.color = color
  BY DEF FillOf
<1>2. /\ r \in Rectangle /\ r.x \in Int /\ r.y \in Int /\ r.w \in Nat /\ r.h \in Nat
  BY DEF Block, Rectangle
<1>3. /\ roi \in Block \/ roi = NoRect
      /\ PixelsOf(roi) = PixelsOf(r) \cap Pixel
  BY <1>2, VisiblePixels
<1> HIDE DEF roi
<1>4. color = after[<<roi.x, roi.y>>] /\ \A p \in PixelsOf(roi) : after[p] = color
  BY DEF SolidColor, roi
<1>5. <<roi.x, roi.y>> \in Pixel
  <2>1. CASE roi \in Block
    <3>1. <<roi.x, roi.y>> \in PixelsOf(roi)
      BY <2>1, PixelsByEdges DEF Block
    <3>2. QED
      BY <1>3, <3>1
  <2>2. CASE roi = NoRect
    <3>1. roi.x = 0 /\ roi.y = 0
      BY <2>2 DEF NoRect, Rect
    <3>2. 0 \in 0..(Width - 1) /\ 0 \in 0..(Height - 1)
      BY SizeAssumption
    <3>3. QED
      BY <3>1, <3>2 DEF Pixel
  <2>3. QED
    BY <1>3, <2>1, <2>2
<1>6. color \in Color
  BY <1>4, <1>5 DEF Picture
<1>7. op \in Operation
  BY <1>1, <1>2, <1>6 DEF Operation, Rectangle
<1>8. PixelsOf(Target(op)) = PixelsOf(r)
  BY <1>1 DEF Target, Rect, PixelsOf, Right, Bottom
<1> HIDE DEF op
<1>9. ASSUME NEW p \in PixelsOf(Target(op)) \cap Pixel PROVE Draws(op, p) = after[p]
  <2>1. Draws(op, p) = color
    BY <1>1 DEF Draws
  <2>2. QED
    BY <1>3, <1>4, <1>8, <2>1
<1>10. QED
  BY <1>1, <1>7, <1>8, <1>9 DEF OperationOK, DrawsNewPicture, op

\* A move of a rectangle that was found is right.
LEMMA MoveIsRight ==
    ASSUME NEW tile \in Block, NEW src, Found(src, tile)
    PROVE  LET op == MoveOf(src, tile)
           IN  /\ OperationOK(op) /\ PixelsOf(op.src) \subseteq Pixel /\ op.type = "move"
               /\ PixelsOf(Target(op)) = PixelsOf(tile)
<1> DEFINE op == MoveOf(src, tile)
<1>1. /\ op = [type |-> "move", src |-> src, dst |-> <<tile.x, tile.y>>, color |-> -1]
      /\ op.type = "move" /\ op.src = src /\ op.dst = <<tile.x, tile.y>>
  BY DEF MoveOf
<1>2. /\ tile.x \in Int /\ tile.y \in Int /\ src \in Rectangle
      /\ src.w = tile.w /\ src.h = tile.h
      /\ PixelsOf(src) \subseteq Pixel /\ DrawsNewPicture(op)
  BY DEF Block, Rectangle, Found, Shows
<1>3. op \in Operation
  BY <1>1, <1>2 DEF Operation, Rectangle
<1>4. PixelsOf(Target(op)) = PixelsOf(tile)
  BY <1>1, <1>2 DEF Target, Rect, PixelsOf, Right, Bottom
<1>5. QED
  BY <1>1, <1>2, <1>3, <1>4 DEF OperationOK

-----------------------------------------------------------------------------
(* At most one operation *)

\* A set of one element or none.
AtMostOne(S) == \A a, b \in S : a = b

\* findMovedRect finds one rectangle or none.
LEMMA OneRectFound ==
    ASSUME NEW area \in Rectangle, NEW tile, tile \in Rectangle, NEW wild
    PROVE  AtMostOne(FindMovedRect(Visible(area), tile, wild))
<1> DEFINE found == Positions(prints, TemplateOf(after, Visible(tile)), Visible(area),
                              TemplateWidth)
           confirmed == {p \in found : PositionMatches(p, tile)}
           raw == RawPositions(Visible(area), tile, wild)
<1>1. AtMostOne(FirstByColumn(confirmed))
  <2> SUFFICES ASSUME NEW p \in FirstByColumn(confirmed), NEW q \in FirstByColumn(confirmed)
               PROVE  p = q
    BY DEF AtMostOne
  <2>1. p \in confirmed /\ q \in confirmed /\ p[1] <= q[1] /\ q[1] <= p[1]
    BY DEF FirstByColumn
  <2> DEFINE n == Cardinality(DOMAIN TemplateOf(after, Visible(tile)))
             row(x) == IndexOf(prints[x], TemplateOf(after, Visible(tile)), Visible(area).y,
                               Bottom(Visible(area)) + 1 - n)
             columns == Visible(area).x..(Right(Visible(area)) - TemplateWidth + 1)
  <2>2. found \subseteq {<<x, row(x)>> : x \in columns}
    BY DEF Positions
  <2> HIDE DEF row
  <2>3. PICK x \in columns : p = <<x, row(x)>>
    BY <2>1, <2>2
  <2>4. PICK y \in columns : q = <<y, row(y)>>
    BY <2>1, <2>2
  <2>5. x \in Int /\ y \in Int /\ x <= y /\ y <= x
    BY <2>1, <2>3, <2>4
  <2>6. x = y
    BY <2>5
  <2>7. QED
    BY <2>3, <2>4, <2>6
<1>2. AtMostOne(FirstByRow(raw))
  <2> SUFFICES ASSUME NEW p \in FirstByRow(raw), NEW q \in FirstByRow(raw) PROVE p = q
    BY DEF AtMostOne
  <2>1. /\ p \in raw /\ q \in raw
        /\ p[2] < q[2] \/ (p[2] = q[2] /\ p[1] <= q[1])
        /\ q[2] < p[2] \/ (q[2] = p[2] /\ q[1] <= p[1])
    BY DEF FirstByRow
  <2>2. \A e \in raw : e = <<e[1], e[2]>> /\ e[1] \in Int /\ e[2] \in Int
    BY DEF RawPositions
  <2> HIDE DEF raw
  <2>3. p[1] = q[1] /\ p[2] = q[2]
    BY <2>1, <2>2
  <2>4. QED
    BY <2>1, <2>2, <2>3
<1>3. FindMovedRect(Visible(area), tile, wild) =
        {Rect(p[1], p[2], tile.w, tile.h) :
            p \in IF tile.w % TemplateWidth = 0 THEN FirstByColumn(confirmed)
                                                ELSE FirstByRow(raw)}
  BY DEF FindMovedRect
<1> DEFINE places == IF tile.w % TemplateWidth = 0 THEN FirstByColumn(confirmed)
                                                   ELSE FirstByRow(raw)
<1>4. AtMostOne(places)
  BY <1>1, <1>2
<1> HIDE DEF places
<1>5. FindMovedRect(Visible(area), tile, wild) =
        {Rect(p[1], p[2], tile.w, tile.h) : p \in places}
  BY <1>3 DEF places
<1>6. QED
  BY <1>4, <1>5 DEF AtMostOne

\* And so does a search.
LEMMA SearchFindsOne ==
    ASSUME NEW tile \in Rectangle, NEW known \in Seq(Int \X Int),
           NEW additional \in Seq(Rectangle), NEW wild, misses \in Nat
    PROVE  AtMostOne(Search(tile, known, additional, wild).src)
<1> DEFINE search == Search(tile, known, additional, wild)
<1>1. PICK byVector, byArea, n :
        n \in Nat \ {0} /\ GoesThrough(search, tile, known, wild, byVector, byArea, n)
  BY SearchSteps
<1> DEFINE hits == Hits(byVector)
           ends == Ends(byArea, n)
<1> HIDE DEF search
<1>2. CASE hits # {}
  <2>1. hits \in SUBSET Nat
    <3>1. DOMAIN byVector = DOMAIN known
      BY <1>1 DEF GoesThrough
    <3>2. DOMAIN known \in SUBSET Nat
      OBVIOUS
    <3> QED BY <3>1, <3>2 DEF Hits
  <2>2. Min(hits) \in hits
    BY <1>2, <2>1, MinOfNaturals
  <2> DEFINE i == Min(hits)
             area == Translated(tile, <<-known[i][1], -known[i][2]>>)
  <2>3. i \in DOMAIN known /\ search = [src |-> byVector[i], missed |-> 0]
        /\ byVector[i] = FindMovedRect(Visible(area), tile, wild)
    BY <1>1, <1>2, <2>2 DEF Hits, GoesThrough
  <2> HIDE DEF i
  <2>4. area \in Rectangle
    BY <2>3, MovedTile
  <2> HIDE DEF area
  <2>5. AtMostOne(byVector[i])
    BY <2>3, <2>4, OneRectFound
  <2>6. QED
    BY <2>3, <2>5 DEF search
<1>3. CASE hits = {}
  <2>1. Min(ends) \in ends
    BY <1>1, MinOfNaturals DEF GoesThrough
  <2> DEFINE i == Min(ends)
  <2>2. i \in 1..n /\ search.src = byArea[i]
    BY <1>1, <1>3, <2>1 DEF Ends, GoesThrough
  <2> HIDE DEF i
  <2>3. PICK area \in Rectangle : byArea[i] = FindMovedRect(Visible(area), tile, wild)
    BY <1>1, <2>2 DEF GoesThrough
  <2>4. QED
    BY <2>2, <2>3, OneRectFound DEF search
<1>4. QED
  BY <1>2, <1>3

-----------------------------------------------------------------------------
(* Operations that draw no pixel twice *)

\* The pixels that any rectangle outside of the picture stands for.
Outside == PixelsOf(Corner)

\* The pixels that operations draw.
DrawnBy(operations) == UNION {PixelsOf(Target(op)) : op \in operations}

\* No two draw the same pixel, but for those outside.
ApartBy(operations) ==
    \A o1, o2 \in operations :
        o1 # o2 => PixelsOf(Target(o1)) \cap PixelsOf(Target(o2)) \subseteq Outside

\* Operations for pixels that nothing has drawn yet.
LEMMA OperationsAdded ==
    ASSUME NEW old, NEW new, NEW T, NEW R, ApartBy(old), ApartBy(new),
           DrawnBy(new) \subseteq T \cup Outside,
           DrawnBy(old) \cap (T \cup R) \subseteq Outside, T \cap R \subseteq Outside
    PROVE  /\ ApartBy(old \cup new) /\ DrawnBy(old \cup new) = DrawnBy(old) \cup DrawnBy(new)
           /\ DrawnBy(old \cup new) \cap R \subseteq Outside
<1>1. DrawnBy(old \cup new) = DrawnBy(old) \cup DrawnBy(new)
  BY DEF DrawnBy
<1>2. ASSUME NEW o1 \in old \cup new, NEW o2 \in old \cup new, o1 # o2
      PROVE  PixelsOf(Target(o1)) \cap PixelsOf(Target(o2)) \subseteq Outside
  <2>1. CASE o1 \in old /\ o2 \in old
    BY <1>2, <2>1 DEF ApartBy
  <2>2. CASE o1 \in new /\ o2 \in new
    BY <1>2, <2>2 DEF ApartBy
  <2>3. ASSUME NEW a \in old, NEW b \in new
        PROVE  PixelsOf(Target(a)) \cap PixelsOf(Target(b)) \subseteq Outside
    <3>1. /\ PixelsOf(Target(a)) \subseteq DrawnBy(old)
          /\ PixelsOf(Target(b)) \subseteq DrawnBy(new)
      BY DEF DrawnBy
    <3>2. QED
      BY <3>1
  <2>4. CASE o1 \in old /\ o2 \in new
    BY <2>3, <2>4
  <2>5. CASE o1 \in new /\ o2 \in old
    BY <2>3, <2>5
  <2>6. QED
    BY <2>1, <2>2, <2>4, <2>5
<1>3. QED
  BY <1>1, <1>2 DEF ApartBy

-----------------------------------------------------------------------------
(* Joining *)

\* The pixel that a vector leads to.
Moved(p, v) == <<p[1] + v[1], p[2] + v[2]>>

\* The pixels of the target are those that the vector leads to the source.
LEMMA TargetPixels ==
    ASSUME NEW op \in Operation
    PROVE  /\ Vector(op) \in Int \X Int
           /\ \A p : p \in PixelsOf(Target(op)) <=>
                /\ p = <<p[1], p[2]>> /\ p[1] \in Int /\ p[2] \in Int
                /\ Moved(p, Vector(op)) \in PixelsOf(op.src)
<1> DEFINE r == op.src
           v == Vector(op)
           t == Target(op)
<1>1. /\ r \in Rectangle /\ r.x \in Int /\ r.y \in Int /\ r.w \in Nat /\ r.h \in Nat
      /\ op.dst = <<op.dst[1], op.dst[2]>> /\ op.dst[1] \in Int /\ op.dst[2] \in Int
  BY DEF Operation, Rectangle
<1>2. v = <<r.x - op.dst[1], r.y - op.dst[2]>>
  BY DEF Vector
<1>3. t = [x |-> op.dst[1], y |-> op.dst[2], w |-> r.w, h |-> r.h]
  BY DEF Target, Rect
<1> HIDE DEF r, v, t
<1>4. /\ v[1] = r.x - op.dst[1] /\ v[2] = r.y - op.dst[2] /\ v[1] \in Int /\ v[2] \in Int
      /\ v \in Int \X Int
  BY <1>1, <1>2
<1>5. t \in Rectangle /\ t.x = r.x - v[1] /\ t.y = r.y - v[2] /\ t.w = r.w /\ t.h = r.h
  BY <1>1, <1>3, <1>4 DEF Rectangle
<1>6. ASSUME NEW p
      PROVE  p \in PixelsOf(t) <=>
                /\ p = <<p[1], p[2]>> /\ p[1] \in Int /\ p[2] \in Int
                /\ Moved(p, v) \in PixelsOf(r)
  <2>1. p \in PixelsOf(t) <=>
            /\ p = <<p[1], p[2]>> /\ p[1] \in Int /\ p[2] \in Int
            /\ t.x <= p[1] /\ p[1] < t.x + t.w /\ t.y <= p[2] /\ p[2] < t.y + t.h
    BY <1>5, PixelsByEdges
  <2>2. ASSUME p[1] \in Int, p[2] \in Int
        PROVE  Moved(p, v) \in PixelsOf(r) <=>
                /\ r.x <= p[1] + v[1] /\ p[1] + v[1] < r.x + r.w
                /\ r.y <= p[2] + v[2] /\ p[2] + v[2] < r.y + r.h
    <3> DEFINE q == Moved(p, v)
    <3>1. q = <<q[1], q[2]>> /\ q[1] = p[1] + v[1] /\ q[2] = p[2] + v[2]
      BY DEF Moved
    <3>2. q[1] \in Int /\ q[2] \in Int
      BY <1>4, <2>2, <3>1
    <3> HIDE DEF q
    <3>3. q \in PixelsOf(r) <=>
            /\ q = <<q[1], q[2]>> /\ q[1] \in Int /\ q[2] \in Int
            /\ r.x <= q[1] /\ q[1] < r.x + r.w /\ r.y <= q[2] /\ q[2] < r.y + r.h
      BY <1>1, PixelsByEdges
    <3>4. QED
      BY <3>1, <3>2, <3>3 DEF q
  <2>3. ASSUME p[1] \in Int, p[2] \in Int
        PROVE  /\ t.x <= p[1] <=> r.x <= p[1] + v[1]
               /\ p[1] < t.x + t.w <=> p[1] + v[1] < r.x + r.w
               /\ t.y <= p[2] <=> r.y <= p[2] + v[2]
               /\ p[2] < t.y + t.h <=> p[2] + v[2] < r.y + r.h
    BY <1>1, <1>4, <1>5, <2>3
  <2>4. QED
    BY <2>1, <2>2, <2>3
<1>7. QED
  BY <1>4, <1>6 DEF r, v, t

\* What is drawn depends on the kind, the vector and the colour of an operation.
LEMMA SameDraws ==
    ASSUME NEW a, NEW b, a.type = b.type, a.color = b.color, Vector(a) = Vector(b), NEW p
    PROVE  Draws(a, p) = Draws(b, p)
BY DEF Draws

\* The pixels that operations take.
Sources(operations) == UNION {PixelsOf(op.src) : op \in operations}

\* Operations of a kind, all with the same vector and the same colour.
IsGroup(group, like) ==
    /\ like \in group
    /\ \A op \in group : /\ OperationOK(op) /\ op.type = like.type
                         /\ Vector(op) = Vector(like) /\ op.color = like.color

\* The operation that a rectangle of the joined sources gives.
JoinedOver(some, r) ==
    [some EXCEPT !.src = r, !.dst = <<r.x - Vector(some)[1], r.y - Vector(some)[2]>>]

\* It has the kind, the colour and the vector of the operation it is like.
LEMMA JoinedOverRect ==
    ASSUME NEW some \in Operation, NEW r \in Block
    PROVE  LET o == JoinedOver(some, r)
           IN  /\ o \in Operation /\ o.type = some.type /\ o.color = some.color
               /\ o.src = r /\ Vector(o) = Vector(some)
<1> DEFINE v == Vector(some)
           o == JoinedOver(some, r)
<1>1. v \in Int \X Int
  BY TargetPixels
<1>2. r \in Rectangle /\ r.x \in Int /\ r.y \in Int
  BY DEF Block, Rectangle
<1> HIDE DEF v
<1>3. v[1] \in Int /\ v[2] \in Int /\ v = <<v[1], v[2]>>
  BY <1>1
<1>4. /\ o.type = some.type /\ o.color = some.color /\ o.src = r
      /\ o.dst = <<r.x - v[1], r.y - v[2]>>
      /\ o = [type |-> some.type, src |-> r, dst |-> o.dst, color |-> some.color]
  <2> DEFINE d == <<r.x - v[1], r.y - v[2]>>
  <2>1. o = [some EXCEPT !.src = r, !.dst = d]
    BY DEF JoinedOver, v
  <2> HIDE DEF d, o
  <2>2. some = [type |-> some.type, src |-> some.src, dst |-> some.dst, color |-> some.color]
    BY DEF Operation
  <2>3. o = [type |-> some.type, src |-> r, dst |-> d, color |-> some.color]
    BY <2>1, <2>2
  <2>4. QED
    BY <2>3 DEF d
<1> HIDE DEF o
<1>5. o.dst \in Int \X Int
  BY <1>2, <1>3, <1>4
<1>6. o \in Operation
  BY <1>2, <1>4, <1>5 DEF Operation, Rectangle
<1>7. Vector(o) = v
  <2>1. Vector(o) = <<r.x - (r.x - v[1]), r.y - (r.y - v[2])>>
    BY <1>4 DEF Vector
  <2>2. r.x - (r.x - v[1]) = v[1] /\ r.y - (r.y - v[2]) = v[2]
    BY <1>2, <1>3
  <2>3. QED
    BY <1>3, <2>1, <2>2
<1>8. QED
  BY <1>4, <1>6, <1>7 DEF o, v

\* The rectangles of the joined operations of a group.
JoinedRects(group) == ToSet(VerticallyUniteRects(RegionRects(Sources(group))))

\* The rectangles of a group have the pixels of its operations, each once.
LEMMA JoinedRectsFacts ==
    ASSUME NEW group, Bounded(Sources(group))
    PROVE  /\ JoinedRects(group) \subseteq Block
           /\ UNION {PixelsOf(r) : r \in JoinedRects(group)} = Sources(group)
           /\ \A r, s \in JoinedRects(group) : r # s => PixelsOf(r) \cap PixelsOf(s) = {}
<1> DEFINE sequence == VerticallyUniteRects(RegionRects(Sources(group)))
<1>1. Partition(sequence, Sources(group))
  BY UnitedRectsPartitionRegion
<1> HIDE DEF sequence
<1>2. JoinedRects(group) = {sequence[i] : i \in DOMAIN sequence}
  BY DEF JoinedRects, ToSet, sequence
<1>3. \A i \in DOMAIN sequence : sequence[i] \in Block
  BY <1>1 DEF Partition
<1>4. JoinedRects(group) \subseteq Block
  BY <1>2, <1>3
<1>5. UNION {PixelsOf(r) : r \in JoinedRects(group)} = Sources(group)
  BY <1>1, <1>2 DEF Partition, PixelsIn
<1>6. ASSUME NEW r \in JoinedRects(group), NEW s \in JoinedRects(group), r # s
      PROVE  PixelsOf(r) \cap PixelsOf(s) = {}
  <2>1. PICK i \in DOMAIN sequence : r = sequence[i]
    BY <1>2
  <2>2. PICK j \in DOMAIN sequence : s = sequence[j]
    BY <1>2
  <2>3. i # j
    BY <1>6, <2>1, <2>2
  <2>4. QED
    BY <1>1, <2>1, <2>2, <2>3 DEF Partition, Disjoint
<1>7. QED
  BY <1>4, <1>5, <1>6

\* A group joined is right, and draws what it drew, each pixel once.
LEMMA JoinedGroup ==
    ASSUME NEW group, NEW like, IsGroup(group, like), Bounded(Sources(group))
    PROVE  /\ \A o \in Joined(group) : /\ OperationOK(o) /\ o.type = like.type
                                       /\ Vector(o) = Vector(like) /\ o.color = like.color
           /\ DrawnBy(Joined(group)) = DrawnBy(group)
           /\ \A o1, o2 \in Joined(group) :
                o1 # o2 => PixelsOf(Target(o1)) \cap PixelsOf(Target(o2)) = {}
<1> DEFINE some == CHOOSE op \in group : TRUE
           v == Vector(like)
<1>1. some \in group
  BY DEF IsGroup
<1>2. Joined(group) = {JoinedOver(some, r) : r \in JoinedRects(group)}
  BY DEF Joined, JoinedOver, JoinedRects, Sources
<1> HIDE DEF some
<1>3. /\ some \in Operation /\ some.type = like.type /\ Vector(some) = v
      /\ some.color = like.color
  BY <1>1 DEF IsGroup, OperationOK
<1>4. /\ JoinedRects(group) \subseteq Block
      /\ UNION {PixelsOf(r) : r \in JoinedRects(group)} = Sources(group)
      /\ \A r, s \in JoinedRects(group) : r # s => PixelsOf(r) \cap PixelsOf(s) = {}
  BY JoinedRectsFacts
<1> HIDE DEF v
<1>5. ASSUME NEW r \in JoinedRects(group)
      PROVE  LET o == JoinedOver(some, r)
             IN  /\ o \in Operation /\ o.type = like.type /\ o.color = like.color
                 /\ o.src = r /\ Vector(o) = v
  BY <1>3, <1>4, JoinedOverRect
<1>6. ASSUME NEW r \in JoinedRects(group), NEW p
      PROVE  p \in PixelsOf(Target(JoinedOver(some, r))) <=>
                /\ p = <<p[1], p[2]>> /\ p[1] \in Int /\ p[2] \in Int
                /\ Moved(p, v) \in PixelsOf(r)
  <2> DEFINE o == JoinedOver(some, r)
  <2>1. o \in Operation /\ o.src = r /\ Vector(o) = v
    BY <1>5
  <2> HIDE DEF o
  <2>2. p \in PixelsOf(Target(o)) <=>
            /\ p = <<p[1], p[2]>> /\ p[1] \in Int /\ p[2] \in Int
            /\ Moved(p, Vector(o)) \in PixelsOf(o.src)
    BY <2>1, TargetPixels
  <2>3. QED
    BY <2>1, <2>2 DEF o
<1>7. ASSUME NEW op \in group, NEW p
      PROVE  p \in PixelsOf(Target(op)) <=>
                /\ p = <<p[1], p[2]>> /\ p[1] \in Int /\ p[2] \in Int
                /\ Moved(p, v) \in PixelsOf(op.src)
  <2>1. op \in Operation /\ Vector(op) = v
    BY DEF IsGroup, OperationOK, v
  <2>2. QED
    BY <2>1, TargetPixels
<1>8. ASSUME NEW r \in JoinedRects(group), NEW p \in PixelsOf(Target(JoinedOver(some, r)))
      PROVE  \E op \in group : p \in PixelsOf(Target(op))
  <2>1. /\ p = <<p[1], p[2]>> /\ p[1] \in Int /\ p[2] \in Int
        /\ Moved(p, v) \in PixelsOf(r)
    BY <1>6
  <2>2. PICK op \in group : Moved(p, v) \in PixelsOf(op.src)
    BY <1>4, <2>1 DEF Sources
  <2>3. p \in PixelsOf(Target(op))
    BY <1>7, <2>1, <2>2
  <2>4. QED
    BY <2>3
<1>9. ASSUME NEW op \in group, NEW p \in PixelsOf(Target(op))
      PROVE  \E r \in JoinedRects(group) : p \in PixelsOf(Target(JoinedOver(some, r)))
  <2>1. /\ p = <<p[1], p[2]>> /\ p[1] \in Int /\ p[2] \in Int
        /\ Moved(p, v) \in PixelsOf(op.src)
    BY <1>7
  <2>2. PICK r \in JoinedRects(group) : Moved(p, v) \in PixelsOf(r)
    BY <1>4, <2>1 DEF Sources
  <2>3. p \in PixelsOf(Target(JoinedOver(some, r)))
    BY <1>6, <2>1, <2>2
  <2>4. QED
    BY <2>3
<1>10. ASSUME NEW r \in JoinedRects(group) PROVE OperationOK(JoinedOver(some, r))
  <2> DEFINE o == JoinedOver(some, r)
  <2>1. /\ o \in Operation /\ o.type = like.type /\ o.color = like.color
        /\ o.src = r /\ Vector(o) = v
    BY <1>5
  <2>2. ASSUME NEW p \in PixelsOf(Target(o)) \cap Pixel PROVE Draws(o, p) = after[p]
    <3>1. PICK op \in group : p \in PixelsOf(Target(op))
      BY <1>8
    <3>2. /\ DrawsNewPicture(op) /\ op.type = like.type /\ op.color = like.color
          /\ Vector(op) = v
      BY DEF IsGroup, OperationOK, v
    <3> HIDE DEF o
    <3>3. Draws(o, p) = Draws(op, p)
      BY <2>1, <3>2, SameDraws
    <3>4. Draws(op, p) = after[p]
      BY <3>1, <3>2 DEF DrawsNewPicture
    <3>5. QED
      BY <3>3, <3>4
  <2>3. o.type = "move" => PixelsOf(o.src) \subseteq Pixel
    <3> SUFFICES ASSUME o.type = "move" PROVE PixelsOf(r) \subseteq Pixel
      BY <2>1
    <3>1. \A op \in group : PixelsOf(op.src) \subseteq Pixel
      BY <2>1 DEF IsGroup, OperationOK
    <3>2. Sources(group) \subseteq Pixel
      BY <3>1 DEF Sources
    <3>3. QED
      BY <1>4, <3>2
  <2> HIDE DEF o
  <2>4. OperationOK(o)
    BY <2>1, <2>2, <2>3 DEF OperationOK, DrawsNewPicture
  <2>5. QED
    BY <2>4 DEF o
<1>11. ASSUME NEW r \in JoinedRects(group), NEW s \in JoinedRects(group), r # s
       PROVE  PixelsOf(Target(JoinedOver(some, r))) \cap PixelsOf(Target(JoinedOver(some, s))) = {}
  <2>1. PixelsOf(r) \cap PixelsOf(s) = {}
    BY <1>4, <1>11
  <2>2. QED
    BY <1>6, <2>1
<1>12. DrawnBy(Joined(group)) = DrawnBy(group)
  BY <1>2, <1>8, <1>9 DEF DrawnBy
<1>13. QED
  BY <1>2, <1>5, <1>10, <1>11, <1>12 DEF v

\* The operations of a kind that have the vector and the colour of one.
GroupOf(kind, op) == {o \in kind : Vector(o) = Vector(op) /\ o.color = op.color}

\* A part of what is bounded is bounded.
LEMMA SomeAreBounded ==
    ASSUME NEW S, NEW T, S \subseteq T, Bounded(T) PROVE Bounded(S)
<1>1. PICK n \in Nat : T \subseteq ((-n)..n) \X ((-n)..n)
  BY DEF Bounded
<1>2. S \subseteq ((-n)..n) \X ((-n)..n)
  BY <1>1
<1>3. QED
  BY <1>2 DEF Bounded

\* All groups of a kind, joined.
LEMMA JoinedKind ==
    ASSUME NEW kind, NEW type, \A op \in kind : OperationOK(op) /\ op.type = type,
           Bounded(Sources(kind)), ApartBy(kind)
    PROVE  /\ \A o \in JoinedByGroup(kind) : OperationOK(o) /\ o.type = type
           /\ DrawnBy(JoinedByGroup(kind)) = DrawnBy(kind) /\ ApartBy(JoinedByGroup(kind))
<1>1. JoinedByGroup(kind) = UNION {Joined(GroupOf(kind, op)) : op \in kind}
  BY DEF JoinedByGroup, GroupOf
<1>2. ASSUME NEW op \in kind
      PROVE  LET group == GroupOf(kind, op)
             IN  /\ \A o \in Joined(group) : /\ OperationOK(o) /\ o.type = type
                                             /\ Vector(o) = Vector(op) /\ o.color = op.color
                 /\ DrawnBy(Joined(group)) = DrawnBy(group)
                 /\ \A o1, o2 \in Joined(group) :
                      o1 # o2 => PixelsOf(Target(o1)) \cap PixelsOf(Target(o2)) = {}
  <2> DEFINE group == GroupOf(kind, op)
  <2>1. IsGroup(group, op) /\ op.type = type
    BY DEF IsGroup, GroupOf
  <2>2. Bounded(Sources(group))
    <3>1. Sources(group) \subseteq Sources(kind)
      BY DEF Sources, GroupOf
    <3>2. QED
      BY <3>1, SomeAreBounded
  <2> HIDE DEF group
  <2>3. QED
    BY <2>1, <2>2, JoinedGroup DEF group
<1>3. \A o \in JoinedByGroup(kind) : OperationOK(o) /\ o.type = type
  BY <1>1, <1>2
<1>4. DrawnBy(JoinedByGroup(kind)) = DrawnBy(kind)
  <2>1. ASSUME NEW p \in DrawnBy(kind) PROVE p \in DrawnBy(JoinedByGroup(kind))
    <3>1. PICK op \in kind : p \in PixelsOf(Target(op))
      BY DEF DrawnBy
    <3>2. op \in GroupOf(kind, op)
      BY DEF GroupOf
    <3>3. p \in DrawnBy(Joined(GroupOf(kind, op)))
      BY <1>2, <3>1, <3>2 DEF DrawnBy
    <3>4. QED
      BY <1>1, <3>3 DEF DrawnBy
  <2>2. ASSUME NEW p \in DrawnBy(JoinedByGroup(kind)) PROVE p \in DrawnBy(kind)
    <3>1. PICK op \in kind : \E o \in Joined(GroupOf(kind, op)) : p \in PixelsOf(Target(o))
      BY <1>1 DEF DrawnBy
    <3>2. p \in DrawnBy(GroupOf(kind, op))
      BY <1>2, <3>1 DEF DrawnBy
    <3>3. QED
      BY <3>2 DEF DrawnBy, GroupOf
  <2>3. QED
    BY <2>1, <2>2
<1>5. ASSUME NEW o1 \in JoinedByGroup(kind), NEW o2 \in JoinedByGroup(kind), o1 # o2,
             NEW p \in PixelsOf(Target(o1)) \cap PixelsOf(Target(o2))
      PROVE  p \in Outside
  <2>1. PICK a \in kind : o1 \in Joined(GroupOf(kind, a))
    BY <1>1
  <2>2. PICK b \in kind : o2 \in Joined(GroupOf(kind, b))
    BY <1>1
  <2>3. ~(Vector(a) = Vector(b) /\ a.color = b.color)
    <3> SUFFICES ASSUME Vector(a) = Vector(b), a.color = b.color PROVE FALSE
      OBVIOUS
    <3>1. GroupOf(kind, a) = GroupOf(kind, b)
      BY DEF GroupOf
    <3>2. PixelsOf(Target(o1)) \cap PixelsOf(Target(o2)) = {}
      BY <1>2, <1>5, <2>1, <2>2, <3>1
    <3>3. QED
      BY <3>2
  <2>4. PICK c \in GroupOf(kind, a) : p \in PixelsOf(Target(c))
    <3>1. p \in DrawnBy(Joined(GroupOf(kind, a)))
      BY <2>1 DEF DrawnBy
    <3>2. p \in DrawnBy(GroupOf(kind, a))
      BY <1>2, <3>1
    <3>3. QED
      BY <3>2 DEF DrawnBy
  <2>5. PICK d \in GroupOf(kind, b) : p \in PixelsOf(Target(d))
    <3>1. p \in DrawnBy(Joined(GroupOf(kind, b)))
      BY <2>2 DEF DrawnBy
    <3>2. p \in DrawnBy(GroupOf(kind, b))
      BY <1>2, <3>1
    <3>3. QED
      BY <3>2 DEF DrawnBy
  <2>6. c \in kind /\ d \in kind /\ c # d
    BY <2>3, <2>4, <2>5 DEF GroupOf
  <2>7. QED
    BY <2>4, <2>5, <2>6 DEF ApartBy
<1>6. ApartBy(JoinedByGroup(kind))
  BY <1>5 DEF ApartBy
<1>7. QED
  BY <1>3, <1>4, <1>6

\* Operations that are right and draw no pixel twice are so after those of each kind have
\* been joined, and draw the same (ImageComparerOpTools, optimizeUpdateOperations).
THEOREM OptimizedOperations ==
    ASSUME NEW all, \A op \in all : OperationOK(op), Bounded(Sources(all)), ApartBy(all)
    PROVE  LET result == UNION {Optimized({op \in all : op.type = type}) :
                                    type \in {"update", "fill", "move"}}
           IN  /\ \A o \in result : OperationOK(o)
               /\ DrawnBy(result) = DrawnBy(all) /\ ApartBy(result)
<1> DEFINE types == {"update", "fill", "move"}
           kind(type) == {op \in all : op.type = type}
           result == UNION {Optimized(kind(type)) : type \in types}
<1>1. \A op \in all : op.type \in types
  BY DEF OperationOK, Operation
<1>2. ASSUME NEW type
      PROVE  /\ \A o \in Optimized(kind(type)) : OperationOK(o) /\ o.type = type
             /\ DrawnBy(Optimized(kind(type))) = DrawnBy(kind(type))
             /\ ApartBy(Optimized(kind(type)))
  <2>1. \A op \in kind(type) : OperationOK(op) /\ op.type = type
    OBVIOUS
  <2>2. Bounded(Sources(kind(type)))
    <3>1. Sources(kind(type)) \subseteq Sources(all)
      BY DEF Sources
    <3>2. QED
      BY <3>1, SomeAreBounded
  <2>3. ApartBy(kind(type))
    BY DEF ApartBy
  <2> DEFINE k == kind(type)
  <2>4. \A op \in k : OperationOK(op) /\ op.type = type
    BY <2>1
  <2>5. Bounded(Sources(k)) /\ ApartBy(k)
    BY <2>2, <2>3
  <2> HIDE DEF k
  <2>6. /\ \A o \in JoinedByGroup(k) : OperationOK(o) /\ o.type = type
        /\ DrawnBy(JoinedByGroup(k)) = DrawnBy(k) /\ ApartBy(JoinedByGroup(k))
    BY <2>4, <2>5, JoinedKind
  <2>7. Optimized(k) = JoinedByGroup(k) \/ Optimized(k) = k
    BY DEF Optimized, Fewer
  <2>8. /\ \A o \in Optimized(k) : OperationOK(o) /\ o.type = type
        /\ DrawnBy(Optimized(k)) = DrawnBy(k) /\ ApartBy(Optimized(k))
    BY <2>4, <2>5, <2>6, <2>7
  <2>9. QED
    BY <2>8 DEF k
<1>3. \A o \in result : \E type \in types : o \in Optimized(kind(type))
  OBVIOUS
<1>4. \A type \in types : Optimized(kind(type)) \subseteq result
  OBVIOUS
<1>5. \A type : \A op : op \in kind(type) <=> op \in all /\ op.type = type
  OBVIOUS
<1> HIDE DEF kind, result
<1>6. \A o \in result : OperationOK(o)
  BY <1>2, <1>3
<1>7. ASSUME NEW p \in DrawnBy(all) PROVE p \in DrawnBy(result)
  <2>1. PICK op \in all : p \in PixelsOf(Target(op))
    BY DEF DrawnBy
  <2>2. op.type \in types /\ op \in kind(op.type)
    BY <1>1, <1>5
  <2>3. p \in DrawnBy(Optimized(kind(op.type)))
    BY <1>2, <2>1, <2>2 DEF DrawnBy
  <2>4. QED
    BY <1>4, <2>2, <2>3 DEF DrawnBy
<1>8. ASSUME NEW o \in result, NEW p \in PixelsOf(Target(o))
      PROVE  \E op \in all : op.type = o.type /\ p \in PixelsOf(Target(op))
  <2>1. PICK type \in types : o \in Optimized(kind(type))
    BY <1>3
  <2>2. o.type = type /\ p \in DrawnBy(Optimized(kind(type)))
    BY <1>2, <2>1 DEF DrawnBy
  <2>3. p \in DrawnBy(kind(type))
    BY <1>2, <2>2
  <2>4. QED
    BY <1>5, <2>2, <2>3 DEF DrawnBy
<1>9. DrawnBy(result) = DrawnBy(all)
  BY <1>7, <1>8 DEF DrawnBy
<1>10. ASSUME NEW o1 \in result, NEW o2 \in result, o1 # o2
       PROVE  PixelsOf(Target(o1)) \cap PixelsOf(Target(o2)) \subseteq Outside
  <2>1. CASE o1.type = o2.type
    <3>1. PICK type \in types : o1 \in Optimized(kind(type))
      BY <1>3
    <3>2. PICK other \in types : o2 \in Optimized(kind(other))
      BY <1>3
    <3>3. other = type
      BY <1>2, <2>1, <3>1, <3>2
    <3>4. QED
      BY <1>2, <1>10, <3>1, <3>2, <3>3 DEF ApartBy
  <2>2. CASE o1.type # o2.type
    <3> SUFFICES ASSUME NEW p \in PixelsOf(Target(o1)) \cap PixelsOf(Target(o2))
                 PROVE  p \in Outside
      OBVIOUS
    <3>1. PICK a \in all : a.type = o1.type /\ p \in PixelsOf(Target(a))
      BY <1>8
    <3>2. PICK b \in all : b.type = o2.type /\ p \in PixelsOf(Target(b))
      BY <1>8
    <3>3. QED
      BY <2>2, <3>1, <3>2 DEF ApartBy
  <2>3. QED
    BY <2>1, <2>2
<1>11. QED
  BY <1>6, <1>9, <1>10 DEF ApartBy, result, kind

-----------------------------------------------------------------------------
(* The invariant *)

\* What is left of the rectangles, the tiles and the searches, and what is drawn.
Todo == PixelsIn(rects)
InSearch == UNION {PixelsOf(s.tile) : s \in searching}
Work == PixelsIn(tiles) \cup leftovers \cup InSearch
Drawn == DrawnBy(ops)

\* Within the picture, or within the corner.
Within(S) == S \subseteq Pixel \/ S \subseteq Outside

\* What a phase has.
PhaseOK ==
    /\ settings \in Settings
    /\ phase \in {"idle", "rects", "moves", "tiles", "done"}
    /\ phase \notin {"moves", "tiles"} => tiles = <<>>
    /\ phase # "moves" => leftovers = {}
    /\ phase # "tiles" => searching = {}
    /\ phase = "moves" => settings.analyzeMoves /\ settings.fineGrainedMoves
    /\ phase \in {"moves", "tiles"} => settings.minimizeDamageRegion
    /\ phase = "rects" /\ ~settings.minimizeDamageRegion => ops = {}
    /\ searching # {} => ~settings.fineGrainedMoves
    /\ phase = "done" => rects = <<>>

\* The searches under way that may add to the count.
Counting == {s \in searching : s.enabled}

\* The count, and the threads that may still add to it.
CountsOK ==
    /\ misses \in Nat
    /\ enabled \in BOOLEAN /\ (enabled <=> misses < SearchMissesThreshold)
    /\ IsFiniteSet(searching) /\ Cardinality(searching) <= Threads
    /\ misses + Cardinality(Counting) < SearchMissesThreshold + Threads

\* The pictures and the rectangles that differ.
PicturesOK ==
    /\ before \in Picture /\ after \in Picture
    /\ areas \in Seq(Block) /\ rects \in Seq(ToSet(areas))
    /\ minified \in BOOLEAN /\ frames \in 0..MaxFrames

\* The fingerprints have the right type; nothing is said of what they are.
AnalyzerOK ==
    /\ prints \in Prints(TemplateWidth)
    /\ \A r \in damaged : PixelsOf(r) \subseteq Near
    /\ vectors \in Seq(Int \X Int)

\* A rectangle of a tile that has all of it that changed.
HasChanges(minRect, tile) ==
    /\ minRect \in Block /\ PixelsOf(minRect) \subseteq PixelsOf(tile) \cup Outside
    /\ PixelsOf(minRect) \subseteq Near
    /\ PixelsOf(tile) \cap Changed(before, after) \subseteq PixelsOf(minRect)

\* The tiles lie in the picture or in the corner, and those that a search may be made for
\* are not larger than a template there.
PlacesOK ==
    /\ tiles \in Seq(Block)
    /\ \A i \in DOMAIN tiles :
        /\ PixelsOf(tiles[i]) \subseteq Near
        /\ phase = "moves" \/ ~settings.fineGrainedMoves => Searched(tiles[i])
    /\ leftovers \subseteq Near
    /\ \A s \in searching :
        /\ Searched(s.tile) /\ HasChanges(s.minRect, s.tile)
        /\ s.vectors \in Seq(Int \X Int)

\* The operations found draw the new picture.
OperationsOK ==
    \A op \in ops : OperationOK(op) /\ (phase # "done" => PixelsOf(op.src) \subseteq Near)

\* What has changed is still to be done, or drawn.
Covered == phase # "idle" => Changed(before, after) \subseteq Todo \cup Work \cup Drawn

\* Nothing is in two places.
Apart ==
    /\ Disjoint(rects) /\ Disjoint(tiles)
    /\ Todo \cap Work \subseteq Outside
    /\ PixelsIn(tiles) \cap (leftovers \cup InSearch) = {}
    /\ \A s1, s2 \in searching : s1 # s2 => PixelsOf(s1.tile) \cap PixelsOf(s2.tile) = {}
    /\ Drawn \cap (Work \cup Todo) \subseteq Outside
    /\ ApartBy(ops)

\* The inductive invariant.
Inv ==
    PhaseOK /\ CountsOK /\ PicturesOK /\ AnalyzerOK /\ PlacesOK /\ OperationsOK /\ Covered
        /\ Apart

-----------------------------------------------------------------------------
(* The count of misses *)

\* At least one thread processes tiles.
LEMMA ThreadsIsPositive == ASSUME settings \in Settings PROVE Threads \in Nat \ {0}
BY BoundAssumption DEF Threads

\* A thread searches in one area: it misses once and finds nothing, or does not
\* miss.
LEMMA ThreadMissesOnce ==
    ASSUME NEW tile, NEW known, NEW wild
    PROVE  LET search == Search(tile, known, <<>>, wild)
           IN  search.missed = 0 \/ (search.missed = 1 /\ search.src = {})
<1> DEFINE byArea == FoundIn(Append(<<>>, Grown(tile, SearchRadius)), tile, wild)
           byVector == FoundIn([i \in DOMAIN known |->
                                    Translated(tile, <<-known[i][1], -known[i][2]>>)],
                               tile, wild)
           hits == {i \in DOMAIN byVector : byVector[i] # {}}
           ends == {i \in DOMAIN byArea :
                        \/ byArea[i] # {}
                        \/ misses + i = SearchMissesThreshold
                        \/ i = Len(byArea)}
<1>1. DOMAIN byArea = 1..1 /\ Len(byArea) = 1
  <2>1. Append(<<>>, Grown(tile, SearchRadius)) = <<Grown(tile, SearchRadius)>>
    OBVIOUS
  <2>2. QED
    BY <2>1 DEF FoundIn
<1> HIDE DEF byArea, byVector
<1>2. ends = {1}
  BY <1>1
<1>3. Min(ends) = 1
  <2>1. Min({1}) = 1
    BY DEF Min
  <2>2. QED
    BY <1>2, <2>1
<1>4. Search(tile, known, <<>>, wild) = SearchResult(byVector, byArea)
  BY DEF Search, byArea, byVector
<1>5. SearchResult(byVector, byArea) =
        IF hits # {} THEN [src |-> byVector[Min(hits)], missed |-> 0]
        ELSE [src |-> byArea[Min(ends)],
              missed |-> IF byArea[Min(ends)] = {} THEN Min(ends) ELSE Min(ends) - 1]
  BY DEF SearchResult
<1> HIDE DEF hits, ends
<1>6. QED
  BY <1>3, <1>4, <1>5

\* Nothing counts.
LEMMA NoCounting ==
    ASSUME searching = {} PROVE Counting = {} /\ Cardinality(Counting) = 0
<1>1. Counting = {}
  BY DEF Counting
<1>2. QED
  BY <1>1, FS_EmptySet

\* Nothing has been counted.
LEMMA CountsInit == Init => CountsOK
<1> SUFFICES ASSUME Init PROVE CountsOK
  OBVIOUS
<1>1. searching = {} /\ misses = 0 /\ enabled = TRUE /\ settings \in Settings
  BY DEF Init
<1>2. Threads \in Nat \ {0} /\ IsFiniteSet(searching) /\ Cardinality(searching) = 0
  BY <1>1, FS_EmptySet, ThreadsIsPositive
<1>3. QED
  BY <1>1, <1>2, NoCounting, BoundAssumption DEF CountsOK

\* The count stays right if nothing of it changes.
LEMMA CountsSame ==
    ASSUME CountsOK, UNCHANGED <<settings, misses, enabled, searching>> PROVE CountsOK'
<1>1. Counting' = Counting /\ Threads' = Threads
  BY DEF Counting, Threads
<1>2. QED
  BY <1>1 DEF CountsOK

\* A new rectangle starts a new search; no thread is searching then.
LEMMA FindUpdateOperationsCounts ==
    ASSUME PhaseOK, CountsOK, FindUpdateOperations PROVE CountsOK'
<1>1. /\ phase = "rects" /\ settings' = settings /\ searching' = searching /\ searching = {}
  BY DEF FindUpdateOperations, PhaseOK
<1>2. \/ UNCHANGED <<misses, enabled>>
      \/ misses' = 0 /\ enabled' = TRUE
  BY DEF FindUpdateOperations, StartNewSearch
<1>3. CASE UNCHANGED <<misses, enabled>>
  BY <1>1, <1>3, CountsSame
<1>4. CASE misses' = 0 /\ enabled' = TRUE
  <2>1. Counting' = Counting /\ Threads' = Threads
    BY <1>1 DEF Counting, Threads
  <2>2. Threads \in Nat \ {0} /\ Cardinality(Counting) = 0
    BY <1>1, NoCounting, ThreadsIsPositive DEF PhaseOK
  <2>3. QED
    BY <1>1, <1>4, <2>1, <2>2, BoundAssumption DEF CountsOK
<1>5. QED
  BY <1>2, <1>3, <1>4

\* One tile after the other is searched for in fine grained mode; no thread is searching.
LEMMA FindMoveOperationCounts ==
    ASSUME PhaseOK, CountsOK, tiles \in Seq(Block), areas \in Seq(Block),
           vectors \in Seq(Int \X Int), NEW wild, FindMoveOperation(wild)
    PROVE  CountsOK'
<1> DEFINE search == IF enabled THEN Search(Head(tiles), vectors, areas, wild) ELSE NoSearch
<1>1. /\ searching' = searching /\ searching = {} /\ settings' = settings
      /\ CountMisses(search) /\ tiles # <<>>
  BY DEF FindMoveOperation, PhaseOK
<1>2. Counting' = Counting /\ Threads' = Threads /\ Cardinality(Counting) = 0
      /\ Threads \in Nat \ {0}
  BY <1>1, NoCounting, ThreadsIsPositive DEF Counting, Threads, PhaseOK
<1>3. /\ search.missed \in Nat
      /\ enabled =>
            /\ misses + search.missed <= SearchMissesThreshold
            /\ misses + search.missed = SearchMissesThreshold =>
                search.src = {} /\ search.missed > 0
      /\ ~enabled => search.missed = 0
  <2>1. CASE enabled
    <3>1. Head(tiles) \in Rectangle /\ areas \in Seq(Rectangle)
      BY <1>1 DEF Block
    <3>2. misses \in Nat /\ misses < SearchMissesThreshold
      BY <2>1 DEF CountsOK
    <3>3. search = Search(Head(tiles), vectors, areas, wild)
      BY <2>1
    <3>4. /\ search.missed \in Nat
          /\ misses + search.missed <= SearchMissesThreshold
          /\ misses + search.missed = SearchMissesThreshold =>
                search.src = {} /\ search.missed > 0
      BY <3>1, <3>2, <3>3, SearchMisses
    <3>5. QED
      BY <2>1, <3>4
  <2>2. CASE ~enabled
    BY <2>2 DEF NoSearch
  <2>3. QED
    BY <2>1, <2>2
<1> HIDE DEF search
<1>4. /\ misses' = misses + search.missed
      /\ enabled' \in BOOLEAN
      /\ enabled' <=> (enabled /\ ~(search.src = {} /\ search.missed > 0
                                    /\ misses + search.missed = SearchMissesThreshold))
  BY <1>1, Zenon DEF CountMisses
<1>5. misses \in Nat /\ (enabled <=> misses < SearchMissesThreshold)
      /\ misses + Cardinality(Counting) < SearchMissesThreshold + Threads
  BY DEF CountsOK
<1>6. misses' \in Nat /\ misses' + Cardinality(Counting') < SearchMissesThreshold + Threads
  BY <1>2, <1>3, <1>4, <1>5, BoundAssumption
<1>7. enabled' <=> misses' < SearchMissesThreshold
  <2>1. CASE enabled
    <3>1. /\ misses + search.missed <= SearchMissesThreshold
          /\ misses + search.missed = SearchMissesThreshold =>
                search.src = {} /\ search.missed > 0
      BY <1>3, <2>1
    <3>2. misses' < SearchMissesThreshold <=> misses + search.missed # SearchMissesThreshold
      BY <1>3, <1>4, <1>5, <3>1, BoundAssumption
    <3>3. enabled' <=> ~(search.src = {} /\ search.missed > 0
                         /\ misses + search.missed = SearchMissesThreshold)
      BY <1>4, <2>1
    <3>4. QED
      BY <3>1, <3>2, <3>3
  <2>2. CASE ~enabled
    <3>1. misses' = misses /\ ~enabled'
      BY <1>3, <1>4, <1>5, <2>2
    <3>2. QED
      BY <1>5, <2>2, <3>1
  <2>3. QED
    BY <2>1, <2>2
<1>8. QED
  BY <1>1, <1>2, <1>4, <1>6, <1>7 DEF CountsOK

\* A thread begins a search, and may add a miss if the search is enabled.
LEMMA ProcessRectCounts ==
    ASSUME settings \in Settings, CountsOK, NEW i, ProcessRect(i) PROVE CountsOK'
<1>1. /\ phase = "tiles" /\ phase' = "tiles"
      /\ UNCHANGED <<settings, misses, enabled>>
      /\ Cardinality(searching) < Threads
  BY DEF ProcessRect
<1>2. CASE searching' = searching
  BY <1>1, <1>2, CountsSame
<1>3. ASSUME NEW s, searching' = searching \cup {s}, s.enabled = enabled
      PROVE  CountsOK'
  <2>1. Threads' = Threads /\ Threads \in Nat \ {0}
    BY <1>1, ThreadsIsPositive DEF Threads
  <2>3. /\ IsFiniteSet(searching')
        /\ Cardinality(searching') <= Threads
    <3>1. IsFiniteSet(searching) /\ Cardinality(searching) \in Nat
      BY FS_CardinalityType DEF CountsOK
    <3>2. /\ IsFiniteSet(searching \cup {s})
          /\ Cardinality(searching \cup {s}) =
                IF s \in searching THEN Cardinality(searching) ELSE Cardinality(searching) + 1
      BY <3>1, FS_AddElement
    <3>3. QED
      BY <1>1, <1>3, <2>1, <3>1, <3>2
  <2>4. /\ IsFiniteSet(Counting) /\ Cardinality(Counting) \in Nat
        /\ Cardinality(Counting) <= Cardinality(searching) /\ Cardinality(searching) \in Nat
    BY FS_Subset, FS_CardinalityType DEF CountsOK, Counting
  <2>5. misses + Cardinality(Counting') < SearchMissesThreshold + Threads
    <3>1. CASE enabled
      <4>1. Counting' = Counting \cup {s}
        BY <1>3, <3>1 DEF Counting
      <4>2. Cardinality(Counting') <= Cardinality(Counting) + 1
        <5>1. Cardinality(Counting \cup {s}) =
                IF s \in Counting THEN Cardinality(Counting) ELSE Cardinality(Counting) + 1
          BY <2>4, FS_AddElement
        <5>2. QED
          BY <2>4, <4>1, <5>1
      <4>3. misses < SearchMissesThreshold
        BY <3>1 DEF CountsOK
      <4>4. Cardinality(Counting') \in Nat
        BY <2>4, <4>1, FS_AddElement, FS_CardinalityType
      <4>5. misses \in Nat
        BY DEF CountsOK
      <4>6. QED
        BY <1>1, <2>1, <2>4, <4>2, <4>3, <4>4, <4>5, BoundAssumption
    <3>2. CASE ~enabled
      <4>1. Counting' = Counting
        BY <1>3, <3>2 DEF Counting
      <4>2. QED
        BY <4>1 DEF CountsOK
    <3>3. QED
      BY <3>1, <3>2
  <2>6. QED
    BY <1>1, <2>1, <2>3, <2>5 DEF CountsOK
<1>4. \/ searching' = searching
      \/ searching' = searching \cup
            {[tile |-> tiles[i],
              minRect |-> IF minified
                          THEN FindChangedRect(before, after, Visible(tiles[i]))
                          ELSE tiles[i],
              enabled |-> enabled, vectors |-> vectors]}
  BY DEF ProcessRect
<1>5. QED
  BY <1>2, <1>3, <1>4

\* A thread ends its search, adds at most one miss, and sees the threshold.
LEMMA FinishSearchCounts ==
    ASSUME settings \in Settings, CountsOK,
           NEW s \in searching, NEW wild, FinishSearch(s, wild)
    PROVE  CountsOK'
<1> DEFINE search == IF s.enabled THEN Search(s.tile, s.vectors, <<>>, wild) ELSE NoSearch
<1>1. /\ searching' = searching \ {s}
      /\ UNCHANGED <<settings, phase>>
      /\ CountMisses(search)
  BY DEF FinishSearch
<1>2. \/ search.missed = 0
      \/ search.missed = 1 /\ search.src = {} /\ s.enabled
  <2>1. CASE s.enabled
    BY <2>1, ThreadMissesOnce
  <2>2. CASE ~s.enabled
    BY <2>2 DEF NoSearch
  <2>3. QED
    BY <2>1, <2>2
<1> HIDE DEF search
<1>3. Threads' = Threads /\ Threads \in Nat \ {0}
  BY <1>1, ThreadsIsPositive DEF Threads
<1>4. /\ IsFiniteSet(searching') /\ Cardinality(searching') <= Threads
  <2>1. IsFiniteSet(searching) /\ Cardinality(searching) \in Nat /\ searching # {}
    BY FS_CardinalityType DEF CountsOK
  <2>2. /\ IsFiniteSet(searching \ {s})
        /\ Cardinality(searching \ {s}) =
              IF s \in searching THEN Cardinality(searching) - 1 ELSE Cardinality(searching)
    BY <2>1, FS_RemoveElement
  <2>3. QED
    BY <1>1, <1>3, <2>1, <2>2 DEF CountsOK
<1>5. IsFiniteSet(Counting) /\ Cardinality(Counting) \in Nat
  BY FS_Subset, FS_CardinalityType DEF CountsOK, Counting
<1>6. Counting' = Counting \ {s}
  BY <1>1 DEF Counting
<1>7. /\ Cardinality(Counting') \in Nat
      /\ Cardinality(Counting') <= Cardinality(Counting)
      /\ s.enabled => Cardinality(Counting') = Cardinality(Counting) - 1
  <2>1. s.enabled => s \in Counting
    BY DEF Counting
  <2>2. IsFiniteSet(Counting \ {s})
        /\ Cardinality(Counting \ {s}) = IF s \in Counting THEN Cardinality(Counting) - 1
                                                         ELSE Cardinality(Counting)
    BY <1>5, FS_RemoveElement
  <2>3. Cardinality(Counting \ {s}) \in Nat
    BY <2>2, FS_CardinalityType
  <2>4. QED
    BY <1>5, <1>6, <2>1, <2>2, <2>3
<1>8. /\ misses' = misses + search.missed
      /\ enabled' \in BOOLEAN
      /\ enabled' <=> (enabled /\ ~(search.src = {} /\ search.missed > 0
                                    /\ misses + search.missed = SearchMissesThreshold))
  BY <1>1, Zenon DEF CountMisses
<1>9. /\ misses \in Nat /\ (enabled <=> misses < SearchMissesThreshold)
      /\ misses + Cardinality(Counting) < SearchMissesThreshold + Threads
  BY DEF CountsOK
<1>10. /\ misses' \in Nat
       /\ misses' + Cardinality(Counting') < SearchMissesThreshold + Threads
  BY <1>2, <1>3, <1>5, <1>7, <1>8, <1>9, BoundAssumption
<1>11. enabled' <=> misses' < SearchMissesThreshold
  BY <1>2, <1>8, <1>9, BoundAssumption
<1>12. QED
  BY <1>1, <1>3, <1>4, <1>8, <1>10, <1>11 DEF CountsOK

-----------------------------------------------------------------------------
(* What the steps need *)

\* What lies in the picture or in the corner.
LEMMA WithinIsNear == \A S : Within(S) => S \subseteq Near
BY DEF Within, Near, Outside

\* findChangedRect32 finds all that has changed in a rectangle; for one outside of the
\* picture it finds the corner.
LEMMA ChangesFound ==
    ASSUME NEW r \in Block
    PROVE  LET c == FindChangedRect(before, after, Visible(r))
           IN  /\ c = NoRect => PixelsOf(r) \cap Changed(before, after) = {}
               /\ c # NoRect => HasChanges(c, r) /\ Within(PixelsOf(c))
<1> DEFINE roi == Visible(r)
           c == FindChangedRect(before, after, roi)
<1>1. /\ roi \in Block \/ roi = NoRect
      /\ PixelsOf(roi) = PixelsOf(r) \cap Pixel
  BY VisiblePixels DEF Block
<1> HIDE DEF roi
<1>2. /\ roi = NoRect => c = Corner
      /\ roi # NoRect /\ c # NoRect => c \in Block /\ PixelsOf(c) \subseteq PixelsOf(roi)
      /\ \A p \in PixelsOf(roi) : before[p] # after[p] => c # NoRect /\ p \in PixelsOf(c)
  BY <1>1, ChangedRect
<1> HIDE DEF c
<1>3. \A p \in PixelsOf(r) \cap Changed(before, after) : c # NoRect /\ p \in PixelsOf(c)
  BY <1>1, <1>2 DEF Changed
<1>4. Corner \in Block
  BY CornerFacts
<1>5. c # NoRect =>
        c \in Block /\ PixelsOf(c) \subseteq PixelsOf(r) \cup Outside /\ Within(PixelsOf(c))
  BY <1>1, <1>2, <1>4 DEF Outside, Within
<1>6. QED
  BY <1>3, <1>5, WithinIsNear DEF HasChanges, c, roi

\* The pixels near the picture are bounded.
LEMMA NearIsBounded == Bounded(Near)
<1> DEFINE n == Width + Height
<1>1. n \in Nat /\ Width \in Nat /\ Height \in Nat /\ n >= 1 /\ Width <= n /\ Height <= n
  BY SizeAssumption
<1>2. ASSUME NEW p \in Near PROVE p \in ((-n)..n) \X ((-n)..n)
  <2>1. /\ p = <<p[1], p[2]>> /\ p[1] \in Int /\ p[2] \in Int
        /\ -1 <= p[1] /\ p[1] <= n /\ -1 <= p[2] /\ p[2] <= n
    <3>1. CASE p \in Pixel
      BY <1>1, <3>1, PixelCoordinates
    <3>2. CASE p \in PixelsOf(Corner)
      <4>1. p = <<p[1], p[2]>> /\ p[1] \in {-1, 0} /\ p[2] \in {-1, 0}
        BY <3>2, CornerFacts
      <4>2. QED
        BY <1>1, <4>1
    <3>3. QED
      BY <3>1, <3>2 DEF Near
  <2> HIDE DEF n
  <2>2. p[1] \in (-n)..n /\ p[2] \in (-n)..n
    BY <1>1, <2>1
  <2>3. QED
    BY <2>1, <2>2
<1> HIDE DEF n
<1>3. QED
  BY <1>1, <1>2 DEF Bounded

\* Rectangles of the list of areas.
LEMMA RectsAreBlocks ==
    ASSUME PicturesOK PROVE rects \in Seq(Block)
<1>1. ToSet(areas) \subseteq Block
  BY DEF PicturesOK, ToSet
<1>2. QED
  BY <1>1 DEF PicturesOK

\* A sequence is one of its elements.
LEMMA SequenceOfItself ==
    ASSUME NEW S, NEW s \in Seq(S) PROVE s \in Seq(ToSet(s))
<1>1. s = [i \in 1..Len(s) |-> s[i]] /\ Len(s) \in Nat
  OBVIOUS
<1>2. \A i \in 1..Len(s) : s[i] \in ToSet(s)
  BY DEF ToSet
<1> HIDE DEF ToSet
<1>3. QED
  BY <1>1, <1>2

\* The empty sequence of rectangles.
LEMMA EmptySequence ==
    PixelsIn(<<>>) = {} /\ Disjoint(<<>>) /\ ToSet(<<>>) = {} /\ <<>> \in Seq(Block)
BY DEF PixelsIn, Disjoint, ToSet

-----------------------------------------------------------------------------
(* Between the rectangles *)

\* A new display has nothing to draw.
LEMMA InvInit == Init => Inv
<1> SUFFICES ASSUME Init PROVE Inv
  OBVIOUS
<1>1. /\ settings \in Settings /\ before = Clear /\ after = Clear
      /\ phase = "idle" /\ areas = <<>> /\ rects = <<>> /\ tiles = <<>>
      /\ leftovers = {} /\ minified = FALSE /\ searching = {} /\ ops = {}
      /\ prints = UpdateFromImage(EmptyPrints(TemplateWidth), before, Whole, TemplateWidth)
      /\ damaged = {} /\ vectors = <<>> /\ misses = 0 /\ enabled = TRUE /\ frames = 0
  BY DEF Init, TemplateWidth
<1>2. PhaseOK
  BY <1>1 DEF PhaseOK
<1>3. CountsOK
  BY CountsInit
<1>4. 0 \in Color
  BY ModulusAssumption DEF Color
<1>5. PicturesOK
  <2>1. Clear \in Picture
    BY <1>4 DEF Clear, Picture
  <2>2. <<>> \in Seq(Block) /\ <<>> \in Seq(ToSet(<<>>)) /\ 0 \in 0..MaxFrames
    BY BoundAssumption
  <2>3. QED
    BY <1>1, <2>1, <2>2 DEF PicturesOK
<1>6. AnalyzerOK
  <2>1. TemplateWidth \in Nat \ {0} /\ TemplateWidth <= Width
    BY <1>1, TemplateFits
  <2>2. ZeroHash \in Hash
    BY <1>4 DEF ZeroHash, Hash
  <2>3. EmptyPrints(TemplateWidth) \in Prints(TemplateWidth)
    BY <2>2 DEF EmptyPrints, Prints
  <2>4. before \in Picture
    BY <1>5 DEF PicturesOK
  <2>5. prints \in Prints(TemplateWidth)
    BY <1>1, <2>1, <2>3, <2>4, UpdateType
  <2>6. QED
    BY <1>1, <2>5 DEF AnalyzerOK
<1>7. PlacesOK /\ OperationsOK /\ Covered
  BY <1>1, EmptySequence DEF PlacesOK, OperationsOK, Covered, Within
<1>8. Apart
  <2>1. Todo = {} /\ InSearch = {} /\ Drawn = {} /\ Work = {}
    BY <1>1, EmptySequence DEF Todo, InSearch, Drawn, DrawnBy, Work
  <2>2. QED
    BY <1>1, <2>1, EmptySequence DEF Apart, ApartBy
<1>9. QED
  BY <1>2, <1>3, <1>5, <1>6, <1>7, <1>8 DEF Inv

\* Between two rectangles there is no work.
LEMMA NoWork ==
    ASSUME PhaseOK, phase \notin {"moves", "tiles"}
    PROVE  tiles = <<>> /\ leftovers = {} /\ searching = {} /\ Work = {}
<1>1. tiles = <<>> /\ leftovers = {} /\ searching = {}
  BY DEF PhaseOK
<1>2. QED
  BY <1>1, EmptySequence DEF Work, InSearch

\* The fingerprints that are renewed and the vectors that are kept have their types.
LEMMA SwapAnalyzerInv ==
    ASSUME settings \in Settings, AnalyzerOK, after \in Picture, settings' = settings,
           SwapAnalyzer(after)
    PROVE  AnalyzerOK' /\ UNCHANGED <<misses, enabled>>
<1> DEFINE touched == UNION {PixelsOf(r) : r \in damaged}
           region == RegionRects(touched)
           kept == Min({Len(vectors), MaxVectors})
<1>1. Bounded(touched)
  <2>1. touched \subseteq Near
    BY DEF AnalyzerOK
  <2>2. QED
    BY <2>1, NearIsBounded, SomeAreBounded
<1> HIDE DEF touched
<1>2. region \in Seq(Block)
  BY <1>1, RegionPartition DEF Partition
<1>3. prints' = Renewed(prints, after, region)
  BY DEF SwapAnalyzer, Renewed, touched
<1> HIDE DEF region
<1>4. prints' \in Prints(TemplateWidth)
  BY <1>2, <1>3, RenewedType DEF AnalyzerOK
<1>5. TemplateWidth' = TemplateWidth
  BY DEF TemplateWidth
<1>6. vectors' \in Seq(Int \X Int)
  <2>1. Len(vectors) \in Nat /\ MaxVectors \in Nat
    BY BoundAssumption DEF AnalyzerOK
  <2>2. kept \in Nat /\ kept <= Len(vectors)
    BY <2>1, MinAndMaxOfTwo
  <2>3. vectors' = SubSeq(vectors, 1, kept)
    BY DEF SwapAnalyzer
  <2> HIDE DEF kept
  <2>4. \A i \in 1..kept : i \in 1..Len(vectors)
    BY <2>1, <2>2
  <2>5. QED
    BY <2>2, <2>3, <2>4, SubSeqProperties DEF AnalyzerOK
<1>7. damaged' = {} /\ UNCHANGED <<misses, enabled>>
  BY DEF SwapAnalyzer
<1>8. QED
  BY <1>4, <1>5, <1>6, <1>7 DEF AnalyzerOK, Prints

\* The same if nothing of the analyzer changes.
LEMMA AnalyzerSame ==
    ASSUME AnalyzerOK, UNCHANGED <<settings, prints, damaged, vectors>> PROVE AnalyzerOK'
<1>1. TemplateWidth' = TemplateWidth
  BY DEF TemplateWidth
<1>2. QED
  BY <1>1 DEF AnalyzerOK, Prints

\* All that differs from the picture before is to be looked at (findDifferences).
LEMMA PaintUpdatesToBufferInv ==
    ASSUME Inv, NEW scene \in Scenes, PaintUpdatesToBuffer(scene)
    PROVE  Inv'
<1>1. /\ phase \in {"idle", "done"} /\ frames < MaxFrames /\ frames' = frames + 1
      /\ before' = after /\ after' = scene
      /\ areas' = FindDifferences(after, scene) /\ rects' = areas' /\ ops' = {}
      /\ phase' = "rects"
      /\ UNCHANGED <<settings, tiles, leftovers, minified, searching>>
  BY DEF PaintUpdatesToBuffer
<1>2. /\ settings \in Settings /\ after \in Picture /\ scene \in Picture
      /\ minified \in BOOLEAN /\ frames \in 0..MaxFrames
  BY ScenesAssumption DEF Inv, PhaseOK, PicturesOK
<1>3. tiles = <<>> /\ leftovers = {} /\ searching = {}
  BY <1>1, NoWork DEF Inv
<1>4. PhaseOK'
  BY <1>1, <1>2, <1>3 DEF PhaseOK
<1>5. AnalyzerOK' /\ UNCHANGED <<misses, enabled>>
  <2>1. CASE settings.analyzeMoves
    BY <1>1, <1>2, <2>1, SwapAnalyzerInv DEF Inv, PaintUpdatesToBuffer
  <2>2. CASE ~settings.analyzeMoves
    BY <1>1, <2>2, AnalyzerSame DEF Inv, PaintUpdatesToBuffer, analyzerVars
  <2>3. QED
    BY <2>1, <2>2
<1>6. CountsOK'
  BY <1>1, <1>5, CountsSame DEF Inv
<1>7. PICK region : /\ Partition(areas', region)
                    /\ Changed(after, scene) \subseteq region
  BY <1>1, <1>2, DifferencesAreFound
<1>8. /\ areas' \in Seq(Block) /\ Disjoint(rects') /\ PixelsIn(rects') = region
      /\ rects' \in Seq(ToSet(areas'))
  <2>1. areas' \in Seq(Block) /\ Disjoint(areas') /\ PixelsIn(areas') = region
    BY <1>7 DEF Partition
  <2>2. QED
    BY <1>1, <2>1, SequenceOfItself
<1>9. PicturesOK'
  <2>1. frames' \in 0..MaxFrames
    BY <1>1, <1>2, BoundAssumption
  <2>2. QED
    BY <1>1, <1>2, <1>8, <2>1 DEF PicturesOK
<1>10. PlacesOK' /\ OperationsOK'
  BY <1>1, <1>3, EmptySequence DEF PlacesOK, OperationsOK, Within
<1>11. Work' = {} /\ Drawn' = {} /\ Todo' = region
  BY <1>1, <1>3, <1>8, EmptySequence DEF Work, InSearch, Drawn, DrawnBy, Todo
<1>12. Covered'
  BY <1>1, <1>7, <1>11 DEF Covered
<1>13. Apart'
  BY <1>1, <1>3, <1>8, <1>11, EmptySequence DEF Apart, ApartBy
<1>14. QED
  BY <1>4, <1>5, <1>6, <1>9, <1>10, <1>12, <1>13 DEF Inv

\* A full update begins anew.
LEMMA FullUpdateInv == ASSUME Inv, FullUpdate PROVE Inv'
<1>1. /\ phase \in {"idle", "done"} /\ before' = White /\ after' = Clear /\ ops' = {}
      /\ phase' = "idle"
      /\ UNCHANGED <<settings, areas, rects, tiles, leftovers, minified, searching,
                     prints, damaged, vectors, misses, enabled, frames>>
  BY DEF FullUpdate, analyzerVars
<1>2. tiles = <<>> /\ leftovers = {} /\ searching = {}
  BY <1>1, NoWork DEF Inv
<1>3. PhaseOK'
  BY <1>1, <1>2 DEF PhaseOK, Inv
<1>4. CountsOK' /\ AnalyzerOK'
  BY <1>1, CountsSame, AnalyzerSame DEF Inv
<1>5. PicturesOK'
  <2>1. 0 \in Color /\ Modulus - 1 \in Color
    BY ModulusAssumption DEF Color
  <2>2. Clear \in Picture /\ White \in Picture
    BY <2>1 DEF Clear, White, Picture
  <2>3. QED
    BY <1>1, <2>2 DEF PicturesOK, Inv
<1>6. PlacesOK' /\ OperationsOK' /\ Covered'
  BY <1>1, <1>2, EmptySequence DEF PlacesOK, OperationsOK, Covered, Within
<1>7. Apart'
  <2>1. Work' = {} /\ Drawn' = {}
    BY <1>1, <1>2, EmptySequence DEF Work, InSearch, Drawn, DrawnBy
  <2>2. QED
    BY <1>1, <1>2, <2>1, EmptySequence DEF Apart, ApartBy, Inv
<1>8. QED
  BY <1>3, <1>4, <1>5, <1>6, <1>7 DEF Inv

\* As long as the pictures stay, what is right stays so.
LEMMA PicturesSame ==
    ASSUME UNCHANGED <<before, after>>
    PROVE  /\ \A op : OperationOK(op)' <=> OperationOK(op)
           /\ \A minRect, tile : HasChanges(minRect, tile)' <=> HasChanges(minRect, tile)
           /\ Changed(before, after)' = Changed(before, after)
<1>1. \A op : OperationOK(op)' <=> OperationOK(op)
  BY DEF OperationOK, DrawsNewPicture, Draws
<1>2. Changed(before, after)' = Changed(before, after)
  BY DEF Changed
<1>3. \A minRect, tile : HasChanges(minRect, tile)' <=> HasChanges(minRect, tile)
  BY DEF HasChanges, Changed
<1>4. QED
  BY <1>1, <1>2, <1>3

\* The tiles of the next rectangle have all of it that changed.
LEMMA FindUpdateOperationsInv == ASSUME Inv, FindUpdateOperations PROVE Inv'
<1> DEFINE r == Head(rects)
           c == FindChangedRect(before, after, Visible(r))
           fine == settings.analyzeMoves /\ settings.fineGrainedMoves
           size == IF fine THEN TemplateWidth ELSE settings.tileWidth
<1>1. /\ phase = "rects" /\ rects # <<>> /\ settings.minimizeDamageRegion
      /\ rects' = Tail(rects)
      /\ UNCHANGED <<settings, before, after, areas, leftovers, searching, ops, prints,
                     damaged, vectors, frames>>
  BY DEF FindUpdateOperations
<1>2. \/ c = NoRect /\ UNCHANGED <<phase, tiles, minified>>
      \/ /\ c # NoRect /\ tiles' = SplitRectIntoTiles(c, size)
         /\ phase' = IF fine THEN "moves" ELSE "tiles"
         /\ minified' \in BOOLEAN
  BY DEF FindUpdateOperations
<1>3. /\ PhaseOK /\ CountsOK /\ PicturesOK /\ AnalyzerOK /\ PlacesOK /\ OperationsOK
      /\ Covered /\ Apart
  BY DEF Inv
<1>4. tiles = <<>> /\ leftovers = {} /\ searching = {} /\ Work = {}
  BY <1>1, <1>3, NoWork
<1>5. /\ r \in Block /\ rects' \in Seq(Block) /\ Disjoint(rects')
      /\ PixelsIn(rects) = PixelsIn(rects') \cup PixelsOf(r)
      /\ PixelsIn(rects') \cap PixelsOf(r) = {}
  <2>1. rects \in Seq(Block) /\ Disjoint(rects)
    BY <1>3, RectsAreBlocks DEF Apart
  <2>2. QED
    BY <1>1, <2>1, WithoutFirst
<1>6. CountsOK' /\ AnalyzerOK'
  BY <1>1, <1>3, FindUpdateOperationsCounts, AnalyzerSame
<1>7. /\ c = NoRect => PixelsOf(r) \cap Changed(before, after) = {}
      /\ c # NoRect => HasChanges(c, r) /\ Within(PixelsOf(c))
  BY <1>5, ChangesFound
<1>8. /\ TemplateWidth \in Nat \ {0} /\ settings.tileWidth \in Nat \ {0}
      /\ ~settings.fineGrainedMoves => TemplateWidth = settings.tileWidth
  BY <1>3, TemplateFits DEF PhaseOK
<1>9. size \in Nat \ {0} /\ (fine \/ ~settings.fineGrainedMoves => size = TemplateWidth)
  BY <1>8
<1> HIDE DEF r, c, size
<1>10. TemplateWidth' = TemplateWidth
  BY <1>1 DEF TemplateWidth
<1>11. PicturesOK'
  <2>1. rects' \in Seq(ToSet(areas))
    BY <1>1, <1>3 DEF PicturesOK
  <2>2. minified' \in BOOLEAN
    BY <1>2, <1>3 DEF PicturesOK
  <2>3. QED
    BY <1>1, <1>3, <2>1, <2>2 DEF PicturesOK
<1>12. OperationsOK'
  <2>1. phase # "done"
    BY <1>1
  <2>2. QED
    BY <1>1, <1>3, <2>1, PicturesSame DEF OperationsOK
<1>13. PhaseOK'
  BY <1>1, <1>2, <1>3, <1>4 DEF PhaseOK
<1>14. Drawn' = Drawn /\ Todo' = PixelsIn(rects') /\ Todo = PixelsIn(rects)
       /\ Changed(before, after)' = Changed(before, after)
  BY <1>1, PicturesSame DEF Drawn, DrawnBy, Todo
<1>15. CASE c = NoRect
  <2>1. /\ UNCHANGED <<phase, tiles, minified>>
        /\ PixelsOf(r) \cap Changed(before, after) = {}
    BY <1>2, <1>7, <1>15
  <2>2. PlacesOK'
    BY <1>1, <1>3, <1>4, <2>1, EmptySequence DEF PlacesOK
  <2>3. Work' = {}
    BY <1>1, <1>4, <2>1, EmptySequence DEF Work, InSearch
  <2>4. Covered'
    BY <1>1, <1>3, <1>4, <1>5, <1>14, <2>1, <2>3 DEF Covered
  <2>5. Apart'
    BY <1>1, <1>3, <1>4, <1>5, <1>14, <2>1, <2>3, EmptySequence DEF Apart
  <2>6. QED
    BY <1>6, <1>11, <1>12, <1>13, <2>2, <2>4, <2>5 DEF Inv
<1>16. CASE c # NoRect
  <2>1. /\ tiles' = SplitRectIntoTiles(c, size)
        /\ phase' = IF fine THEN "moves" ELSE "tiles"
        /\ HasChanges(c, r) /\ c \in Block /\ Within(PixelsOf(c))
    BY <1>2, <1>7, <1>16 DEF HasChanges
  <2>2. /\ Partition(tiles', PixelsOf(c))
        /\ \A i \in DOMAIN tiles' : tiles'[i].w \in 1..size /\ tiles'[i].h \in 1..size
    BY <1>9, <2>1, SplitPartition
  <2>3. tiles' \in Seq(Block) /\ Disjoint(tiles') /\ PixelsIn(tiles') = PixelsOf(c)
    BY <2>2 DEF Partition
  <2>4. PlacesOK'
    <3>1. ASSUME NEW i \in DOMAIN tiles'
          PROVE  /\ PixelsOf(tiles'[i]) \subseteq Near
                 /\ phase' = "moves" \/ ~settings.fineGrainedMoves => Searched(tiles'[i])
      <4>1. PixelsOf(tiles'[i]) \subseteq PixelsOf(c) /\ tiles'[i] \in Block
        BY <2>3 DEF PixelsIn
      <4>2. Within(PixelsOf(tiles'[i]))
        BY <2>1, <4>1 DEF Within
      <4>3. phase' = "moves" \/ ~settings.fineGrainedMoves => size = TemplateWidth
        BY <1>9, <2>1
      <4>4. tiles'[i].w <= size /\ tiles'[i].h <= size
        BY <1>9, <2>2
      <4>5. QED
        BY <4>1, <4>2, <4>3, <4>4, WithinIsNear DEF Searched, IsCornerTile, Within, Outside
    <3>2. \A tile : Searched(tile)' <=> Searched(tile)
      BY <1>10 DEF Searched, IsCornerTile
    <3>3. QED
      BY <1>1, <1>4, <2>3, <3>1, <3>2 DEF PlacesOK
  <2>5. Work' = PixelsOf(c) /\ InSearch' = {} /\ leftovers' = {}
    BY <1>1, <1>4, <2>3 DEF Work, InSearch
  <2>6. /\ PixelsOf(c) \subseteq PixelsOf(r) \cup Outside
        /\ PixelsOf(r) \cap Changed(before, after) \subseteq PixelsOf(c)
    BY <2>1 DEF HasChanges
  <2>7. Covered'
    BY <1>1, <1>3, <1>4, <1>5, <1>14, <2>5, <2>6 DEF Covered
  <2>8. Apart'
    <3>1. Todo' \cap Work' \subseteq Outside
      BY <1>5, <1>14, <2>5, <2>6
    <3>2. Drawn' \cap (Work' \cup Todo') \subseteq Outside
      BY <1>3, <1>5, <1>14, <2>5, <2>6 DEF Apart
    <3>3. ApartBy(ops')
      BY <1>1, <1>3 DEF Apart
    <3>4. QED
      BY <1>1, <1>4, <1>5, <2>3, <2>5, <3>1, <3>2, <3>3 DEF Apart
  <2>9. QED
    BY <1>6, <1>11, <1>12, <1>13, <2>4, <2>7, <2>8 DEF Inv
<1>17. QED
  BY <1>15, <1>16

\* Where no move was found is cut into tiles again, as a whole.
LEMMA SplitLeftoversInv == ASSUME Inv, SplitLeftovers PROVE Inv'
<1> DEFINE united == VerticallyUniteRects(RegionRects(leftovers))
<1>1. /\ phase = "moves" /\ tiles = <<>> /\ phase' = "tiles"
      /\ tiles' = FlattenSeq([i \in DOMAIN united |->
                        SplitRectIntoTiles(united[i], settings.tileWidth)])
      /\ leftovers' = {} /\ minified' \in BOOLEAN
      /\ UNCHANGED <<settings, before, after, areas, rects, searching, ops,
                     prints, damaged, vectors, misses, enabled, frames>>
  BY DEF SplitLeftovers, analyzerVars, UseMinifiedTile
<1>2. /\ PhaseOK /\ CountsOK /\ PicturesOK /\ AnalyzerOK /\ PlacesOK /\ OperationsOK
      /\ Covered /\ Apart
  BY DEF Inv
<1>3. searching = {} /\ settings.fineGrainedMoves /\ settings.minimizeDamageRegion
  BY <1>1, <1>2 DEF PhaseOK
<1>4. /\ tiles' \in Seq(Block) /\ Disjoint(tiles') /\ PixelsIn(tiles') = leftovers
  <2>1. Bounded(leftovers)
    BY <1>2, NearIsBounded, SomeAreBounded DEF PlacesOK
  <2>2. Partition(united, leftovers)
    BY <2>1, UnitedRectsPartitionRegion
  <2> HIDE DEF united
  <2>3. settings.tileWidth \in Nat \ {0}
    BY <1>2, TemplateFits DEF PhaseOK
  <2>4. Partition(tiles', leftovers)
    BY <1>1, <2>2, <2>3, TilesOfAll
  <2>5. QED
    BY <2>4 DEF Partition
<1> HIDE DEF united
<1>5. PhaseOK'
  BY <1>1, <1>2, <1>3 DEF PhaseOK
<1>6. CountsOK' /\ AnalyzerOK'
  BY <1>1, <1>2, CountsSame, AnalyzerSame
<1>7. PicturesOK'
  BY <1>1, <1>2 DEF PicturesOK
<1>8. PlacesOK'
  <2>1. ASSUME NEW i \in DOMAIN tiles' PROVE PixelsOf(tiles'[i]) \subseteq Near
    <3>1. PixelsOf(tiles'[i]) \subseteq leftovers
      BY <1>4 DEF PixelsIn
    <3>2. QED
      BY <1>2, <3>1 DEF PlacesOK
  <2>2. QED
    BY <1>1, <1>3, <1>4, <2>1 DEF PlacesOK
<1>9. OperationsOK'
  BY <1>1, <1>2, PicturesSame DEF OperationsOK
<1>10. /\ Work' = Work /\ Drawn' = Drawn /\ Todo' = Todo /\ InSearch' = {}
       /\ Changed(before, after)' = Changed(before, after)
  BY <1>1, <1>3, <1>4, EmptySequence, PicturesSame
     DEF Work, InSearch, Drawn, DrawnBy, Todo
<1>11. Covered'
  BY <1>1, <1>2, <1>10 DEF Covered
<1>12. Apart'
  BY <1>1, <1>2, <1>3, <1>4, <1>10 DEF Apart
<1>13. QED
  BY <1>5, <1>6, <1>7, <1>8, <1>9, <1>11, <1>12 DEF Inv

\* A rectangle is done if no tile and no search is left.
LEMMA EndOfRectInv == ASSUME Inv, EndOfRect PROVE Inv'
<1>1. /\ phase = "tiles" /\ tiles = <<>> /\ searching = {} /\ phase' = "rects"
      /\ UNCHANGED <<settings, before, after, areas, rects, tiles, leftovers, minified,
                     searching, ops, prints, damaged, vectors, misses, enabled, frames>>
  BY DEF EndOfRect, analyzerVars
<1>2. /\ PhaseOK /\ CountsOK /\ PicturesOK /\ AnalyzerOK /\ PlacesOK /\ OperationsOK
      /\ Covered /\ Apart
  BY DEF Inv
<1>3. PhaseOK'
  BY <1>1, <1>2 DEF PhaseOK
<1>4. CountsOK' /\ AnalyzerOK' /\ PicturesOK'
  BY <1>1, <1>2, CountsSame, AnalyzerSame DEF PicturesOK
<1>5. PlacesOK'
  BY <1>1, <1>2, EmptySequence DEF PlacesOK
<1>6. OperationsOK'
  BY <1>1, <1>2, PicturesSame DEF OperationsOK
<1>7. /\ Work' = Work /\ Drawn' = Drawn /\ Todo' = Todo /\ InSearch' = InSearch
      /\ Changed(before, after)' = Changed(before, after)
  BY <1>1, PicturesSame DEF Work, InSearch, Drawn, DrawnBy, Todo
<1>8. Covered' /\ Apart'
  BY <1>1, <1>2, <1>7 DEF Covered, Apart
<1>9. QED
  BY <1>3, <1>4, <1>5, <1>6, <1>8 DEF Inv

\* Joined operations draw the same.
LEMMA OptimizeUpdateOperationsInv == ASSUME Inv, OptimizeUpdateOperations PROVE Inv'
<1>1. /\ phase = "rects" /\ rects = <<>> /\ phase' = "done"
      /\ ops' = UNION {Optimized({op \in ops : op.type = type}) :
                            type \in {"update", "fill", "move"}}
      /\ UNCHANGED <<settings, before, after, areas, rects, tiles, leftovers, minified,
                     searching, prints, damaged, vectors, misses, enabled, frames>>
  BY DEF OptimizeUpdateOperations, analyzerVars
<1>2. /\ PhaseOK /\ CountsOK /\ PicturesOK /\ AnalyzerOK /\ PlacesOK /\ OperationsOK
      /\ Covered /\ Apart
  BY DEF Inv
<1>3. tiles = <<>> /\ leftovers = {} /\ searching = {} /\ Work = {}
  BY <1>1, <1>2, NoWork
<1>4. /\ \A o \in ops' : OperationOK(o)
      /\ DrawnBy(ops') = DrawnBy(ops) /\ ApartBy(ops')
  <2>1. \A op \in ops : OperationOK(op) /\ PixelsOf(op.src) \subseteq Near
    BY <1>1, <1>2 DEF OperationsOK
  <2>2. Bounded(Sources(ops))
    <3>1. Sources(ops) \subseteq Near
      BY <2>1 DEF Sources
    <3>2. QED
      BY <3>1, NearIsBounded, SomeAreBounded
  <2>3. ApartBy(ops)
    BY <1>2 DEF Apart
  <2>4. QED
    BY <1>1, <2>1, <2>2, <2>3, OptimizedOperations
<1>5. PhaseOK'
  BY <1>1, <1>2, <1>3 DEF PhaseOK
<1>6. CountsOK' /\ AnalyzerOK' /\ PicturesOK'
  BY <1>1, <1>2, CountsSame, AnalyzerSame DEF PicturesOK
<1>7. PlacesOK'
  BY <1>1, <1>2, <1>3, EmptySequence DEF PlacesOK
<1>8. OperationsOK'
  BY <1>1, <1>4, PicturesSame DEF OperationsOK
<1>9. /\ Work' = Work /\ Drawn' = Drawn /\ Todo' = Todo /\ InSearch' = InSearch
      /\ Changed(before, after)' = Changed(before, after)
  BY <1>1, <1>4, PicturesSame DEF Work, InSearch, Drawn, DrawnBy, Todo
<1>10. Covered'
  BY <1>1, <1>2, <1>9 DEF Covered
<1>11. Apart'
  BY <1>1, <1>2, <1>4, <1>9 DEF Apart
<1>12. QED
  BY <1>5, <1>6, <1>7, <1>8, <1>10, <1>11 DEF Inv

\* The rectangles as they are have all that changed.
LEMMA UpdateRectsInv == ASSUME Inv, UpdateRects PROVE Inv'
<1>1. /\ phase = "rects" /\ ~settings.minimizeDamageRegion /\ phase' = "done"
      /\ ops' = {UpdateOf(r) : r \in ToSet(rects)} /\ rects' = <<>>
      /\ UNCHANGED <<settings, before, after, areas, tiles, leftovers, minified,
                     searching, prints, damaged, vectors, misses, enabled, frames>>
  BY DEF UpdateRects, analyzerVars
<1>2. /\ PhaseOK /\ CountsOK /\ PicturesOK /\ AnalyzerOK /\ PlacesOK /\ OperationsOK
      /\ Covered /\ Apart
  BY DEF Inv
<1>3. tiles = <<>> /\ leftovers = {} /\ searching = {} /\ Work = {}
  BY <1>1, <1>2, NoWork
<1>4. rects \in Seq(Block) /\ Disjoint(rects)
  BY <1>2, RectsAreBlocks DEF Apart
<1>5. ToSet(rects) = {rects[i] : i \in DOMAIN rects} /\ ToSet(rects) \subseteq Block
  BY <1>4 DEF ToSet
<1>6. \A r \in ToSet(rects) :
        OperationOK(UpdateOf(r)) /\ PixelsOf(Target(UpdateOf(r))) = PixelsOf(r)
  BY <1>5, UpdateIsRight
<1>7. DrawnBy(ops') = Todo
  <2>1. DrawnBy(ops') = UNION {PixelsOf(r) : r \in ToSet(rects)}
    BY <1>1, <1>6 DEF DrawnBy
  <2>2. QED
    BY <1>5, <2>1 DEF Todo, PixelsIn
<1>8. ApartBy(ops')
  <2> SUFFICES ASSUME NEW r \in ToSet(rects), NEW s \in ToSet(rects),
                      UpdateOf(r) # UpdateOf(s)
               PROVE  PixelsOf(r) \cap PixelsOf(s) = {}
    BY <1>1, <1>6 DEF ApartBy
  <2>1. PICK i \in DOMAIN rects : r = rects[i]
    BY <1>5
  <2>2. PICK j \in DOMAIN rects : s = rects[j]
    BY <1>5
  <2>3. i # j
    BY <2>1, <2>2
  <2>4. QED
    BY <1>4, <2>1, <2>2, <2>3 DEF Disjoint
<1>9. PhaseOK'
  BY <1>1, <1>2, <1>3 DEF PhaseOK
<1>10. CountsOK' /\ AnalyzerOK'
  BY <1>1, <1>2, CountsSame, AnalyzerSame
<1>11. PicturesOK'
  <2>1. <<>> \in Seq(ToSet(areas))
    OBVIOUS
  <2>2. QED
    BY <1>1, <1>2, <2>1 DEF PicturesOK
<1>12. PlacesOK'
  BY <1>1, <1>2, <1>3, EmptySequence DEF PlacesOK
<1>13. OperationsOK'
  BY <1>1, <1>6, PicturesSame DEF OperationsOK
<1>14. /\ Work' = Work /\ Drawn' = Todo /\ Todo' = {} /\ InSearch' = InSearch
       /\ Changed(before, after)' = Changed(before, after)
  BY <1>1, <1>7, EmptySequence, PicturesSame DEF Work, InSearch, Drawn, Todo
<1>15. ops = {} /\ Drawn = {}
  BY <1>1, <1>2 DEF PhaseOK, Drawn, DrawnBy
<1>16. Covered'
  BY <1>1, <1>2, <1>14, <1>15 DEF Covered
<1>17. Apart'
  BY <1>1, <1>2, <1>3, <1>8, <1>14, EmptySequence DEF Apart
<1>18. QED
  BY <1>9, <1>10, <1>11, <1>12, <1>13, <1>16, <1>17 DEF Inv

\* What a search gives, if it is made at all.
LEMMA SearchOutcome ==
    ASSUME settings \in Settings, NEW tile, Searched(tile),
           NEW known \in Seq(Int \X Int), NEW additional \in Seq(Block), NEW wild,
           misses \in Nat, NEW on
    PROVE  LET search == IF on THEN Search(tile, known, additional, wild) ELSE NoSearch
           IN  (\A src \in search.src : Found(src, tile)) /\ AtMostOne(search.src)
<1> DEFINE search == IF on THEN Search(tile, known, additional, wild) ELSE NoSearch
<1>1. CASE on
  <2>1. tile \in Rectangle /\ additional \in Seq(Rectangle)
    <3>1. Block \subseteq Rectangle
      BY DEF Block
    <3>2. QED
      BY <3>1 DEF Searched
  <2>2. \A src \in Search(tile, known, additional, wild).src : Found(src, tile)
    BY <2>1, SearchFindsThePicture
  <2>3. AtMostOne(Search(tile, known, additional, wild).src)
    BY <2>1, SearchFindsOne
  <2>4. QED
    BY <1>1, <2>2, <2>3
<1>2. CASE ~on
  BY <1>2 DEF NoSearch, AtMostOne
<1>3. QED
  BY <1>1, <1>2

\* The moves that a search gives draw the tile, or there is none.
LEMMA MovesFound ==
    ASSUME NEW tile \in Block, NEW search,
           \A src \in search.src : Found(src, tile), AtMostOne(search.src)
    PROVE  LET new == MoveFound(search, tile)
           IN  /\ \A op \in new : OperationOK(op) /\ PixelsOf(op.src) \subseteq Near
               /\ ApartBy(new)
               /\ DrawnBy(new) = IF search.src = {} THEN {} ELSE PixelsOf(tile)
<1> DEFINE new == MoveFound(search, tile)
<1>1. new = {MoveOf(src, tile) : src \in search.src}
  BY DEF MoveFound
<1> HIDE DEF new
<1>2. \A src \in search.src :
        /\ OperationOK(MoveOf(src, tile)) /\ PixelsOf(MoveOf(src, tile).src) \subseteq Pixel
        /\ PixelsOf(Target(MoveOf(src, tile))) = PixelsOf(tile)
  BY MoveIsRight
<1>3. \A op \in new : OperationOK(op) /\ PixelsOf(op.src) \subseteq Near
  BY <1>1, <1>2 DEF Near
<1>4. ApartBy(new)
  BY <1>1 DEF ApartBy, AtMostOne
<1>5. DrawnBy(new) = IF search.src = {} THEN {} ELSE PixelsOf(tile)
  <2>1. DrawnBy(new) = UNION {PixelsOf(tile) : src \in search.src}
    BY <1>1, <1>2 DEF DrawnBy
  <2>2. QED
    BY <2>1
<1>6. QED
  BY <1>3, <1>4, <1>5 DEF new

\* Work is drawn: all of it that has changed, and nothing else.
LEMMA WorkDrawn ==
    ASSUME Covered, Apart, OperationsOK, phase \notin {"idle", "done"},
           UNCHANGED <<before, after, rects>>,
           NEW T, NEW new, ops' = ops \cup new, Work = Work' \cup T, Work' \cap T = {},
           \A op \in new : OperationOK(op) /\ PixelsOf(op.src) \subseteq Near,
           DrawnBy(new) \subseteq T \cup Outside,
           T \cap Changed(before, after) \subseteq DrawnBy(new), ApartBy(new)
    PROVE  /\ OperationsOK' /\ Covered'
           /\ Todo' \cap Work' \subseteq Outside
           /\ Drawn' \cap (Work' \cup Todo') \subseteq Outside /\ ApartBy(ops')
<1>1. Todo' = Todo /\ Changed(before, after)' = Changed(before, after)
  BY PicturesSame DEF Todo
<1>2. OperationsOK'
  BY PicturesSame DEF OperationsOK
<1>3. /\ ApartBy(ops) /\ Todo \cap Work \subseteq Outside
      /\ Drawn \cap (Work \cup Todo) \subseteq Outside
  BY DEF Apart
<1> DEFINE R == Work' \cup Todo
<1>4. /\ DrawnBy(ops) \cap (T \cup R) \subseteq Outside
      /\ T \cap R \subseteq Outside
  BY <1>3 DEF Drawn
<1> HIDE DEF R
<1>5. /\ ApartBy(ops \cup new) /\ DrawnBy(ops \cup new) = DrawnBy(ops) \cup DrawnBy(new)
      /\ DrawnBy(ops \cup new) \cap R \subseteq Outside
  BY <1>3, <1>4, OperationsAdded
<1>6. Drawn' = Drawn \cup DrawnBy(new) /\ ApartBy(ops')
      /\ Drawn' \cap (Work' \cup Todo) \subseteq Outside
  BY <1>5 DEF Drawn, R
<1>7. Covered'
  BY <1>1, <1>6 DEF Covered
<1>8. QED
  BY <1>1, <1>2, <1>3, <1>6, <1>7

\* No operation is added.
LEMMA NothingAdded ==
    /\ ops = ops \cup {} /\ DrawnBy({}) = {} /\ ApartBy({})
BY DEF DrawnBy, ApartBy

\* A tile becomes a move, or is left over.
LEMMA FindMoveOperationInv ==
    ASSUME Inv, NEW wild, FindMoveOperation(wild) PROVE Inv'
<1> DEFINE tile == Head(tiles)
           search == IF enabled THEN Search(tile, vectors, areas, wild) ELSE NoSearch
<1>1. /\ phase = "moves" /\ tiles # <<>> /\ tiles' = Tail(tiles)
      /\ damaged' = damaged \cup {tile} /\ KeepVector(search, tile)
      /\ ops' = ops \cup MoveFound(search, tile)
      /\ leftovers' = IF search.src = {} THEN leftovers \cup PixelsOf(tile) ELSE leftovers
      /\ UNCHANGED <<settings, before, after, phase, areas, rects, minified, searching,
                     prints, frames>>
  BY DEF FindMoveOperation
<1>2. /\ PhaseOK /\ CountsOK /\ PicturesOK /\ AnalyzerOK /\ PlacesOK /\ OperationsOK
      /\ Covered /\ Apart
  BY DEF Inv
<1>3. /\ settings \in Settings /\ searching = {} /\ misses \in Nat
      /\ areas \in Seq(Block) /\ vectors \in Seq(Int \X Int)
      /\ tiles \in Seq(Block) /\ Disjoint(tiles)
  BY <1>1, <1>2 DEF PhaseOK, CountsOK, PicturesOK, AnalyzerOK, PlacesOK, Apart
<1>4. /\ tile \in Block /\ tiles' \in Seq(Block) /\ Disjoint(tiles')
      /\ tile \in ToSet(tiles) /\ ToSet(tiles') \subseteq ToSet(tiles)
      /\ PixelsIn(tiles) = PixelsIn(tiles') \cup PixelsOf(tile)
      /\ PixelsIn(tiles') \cap PixelsOf(tile) = {}
  BY <1>1, <1>3, WithoutFirst
<1>5. \A t \in ToSet(tiles) : PixelsOf(t) \subseteq Near /\ Searched(t)
  BY <1>1, <1>2 DEF PlacesOK, ToSet
<1>6. Searched(tile) /\ PixelsOf(tile) \subseteq Near
  BY <1>4, <1>5
<1>7. (\A src \in search.src : Found(src, tile)) /\ AtMostOne(search.src)
  BY <1>3, <1>6, SearchOutcome
<1>8. CountsOK'
  BY <1>2, <1>3, FindMoveOperationCounts
<1> HIDE DEF tile, search
<1>9. PhaseOK' /\ PicturesOK'
  BY <1>1, <1>2 DEF PhaseOK, PicturesOK
<1>10. AnalyzerOK'
  <2>1. vectors' \in Seq(Int \X Int)
    BY <1>1, <1>3, <1>4, <1>7, KeptVector DEF Found, Block
  <2>2. TemplateWidth' = TemplateWidth
    BY <1>1 DEF TemplateWidth
  <2>3. QED
    BY <1>1, <1>2, <1>6, <2>1, <2>2 DEF AnalyzerOK, Prints
<1>11. PlacesOK'
  <2>1. \A t : Searched(t)' <=> Searched(t)
    BY <1>1 DEF Searched, IsCornerTile, TemplateWidth
  <2>2. \A i \in DOMAIN tiles' : tiles'[i] \in ToSet(tiles)
    BY <1>4 DEF ToSet
  <2>3. \A i \in DOMAIN tiles' : PixelsOf(tiles'[i]) \subseteq Near /\ Searched(tiles'[i])
    BY <1>5, <2>2
  <2>4. leftovers' \subseteq Near
    BY <1>1, <1>2, <1>6 DEF PlacesOK
  <2>5. QED
    BY <1>1, <1>3, <1>4, <2>1, <2>3, <2>4 DEF PlacesOK
<1> DEFINE new == MoveFound(search, tile)
           T == IF search.src = {} THEN {} ELSE PixelsOf(tile)
<1>12. /\ \A op \in new : OperationOK(op) /\ PixelsOf(op.src) \subseteq Near
       /\ ApartBy(new) /\ DrawnBy(new) = T
  BY <1>4, <1>7, MovesFound
<1>13. InSearch = {} /\ InSearch' = {} /\ PixelsIn(tiles) \cap leftovers = {}
  BY <1>1, <1>2, <1>3 DEF InSearch, Apart
<1>14. Work = Work' \cup T /\ Work' \cap T = {}
  BY <1>1, <1>4, <1>13 DEF Work
<1> HIDE DEF new, T
<1>15. /\ OperationsOK' /\ Covered'
       /\ Todo' \cap Work' \subseteq Outside
       /\ Drawn' \cap (Work' \cup Todo') \subseteq Outside /\ ApartBy(ops')
  <2>1. ops' = ops \cup new
    BY <1>1 DEF new
  <2>2. /\ DrawnBy(new) \subseteq T \cup Outside
        /\ T \cap Changed(before, after) \subseteq DrawnBy(new)
    BY <1>12
  <2>3. QED
    BY <1>1, <1>2, <1>12, <1>14, <2>1, <2>2, WorkDrawn
<1>16. Apart'
  <2>1. PixelsIn(tiles') \cap (leftovers' \cup InSearch') = {}
    BY <1>1, <1>4, <1>13
  <2>2. QED
    BY <1>1, <1>2, <1>3, <1>4, <1>15, <2>1 DEF Apart
<1>17. QED
  BY <1>8, <1>9, <1>10, <1>11, <1>15, <1>16 DEF Inv

\* A tile becomes a fill or an image, a search begins, or nothing in it changed.
LEMMA ProcessRectInv ==
    ASSUME Inv, NEW i \in DOMAIN tiles, ProcessRect(i) PROVE Inv'
<1> DEFINE tile == tiles[i]
           changed == FindChangedRect(before, after, Visible(tile))
           minRect == IF minified THEN changed ELSE tile
           solid == IF settings.analyzeFills THEN SolidColor(after, Visible(minRect)) ELSE {}
           moves == settings.analyzeMoves /\ ~settings.fineGrainedMoves
           fills == {FillOf(minRect, color) : color \in solid}
           s == [tile |-> tile, minRect |-> minRect, enabled |-> enabled, vectors |-> vectors]
           T == PixelsOf(tile)
<1>1. /\ phase = "tiles" /\ tiles' = RemoveAt(tiles, i)
      /\ UNCHANGED <<settings, before, after, phase, areas, rects, leftovers, minified,
                     prints, vectors, misses, enabled, frames>>
  BY DEF ProcessRect
<1>2. \/ changed = NoRect /\ UNCHANGED <<ops, searching, damaged>>
      \/ /\ changed # NoRect /\ solid # {} /\ ops' = ops \cup fills
         /\ UNCHANGED <<searching, damaged>>
      \/ /\ changed # NoRect /\ solid = {} /\ moves
         /\ searching' = searching \cup {s} /\ damaged' = damaged \cup {tile}
         /\ ops' = ops
      \/ /\ changed # NoRect /\ solid = {} /\ ops' = ops \cup {UpdateOf(minRect)}
         /\ UNCHANGED <<searching, damaged>>
  BY DEF ProcessRect
<1>3. /\ PhaseOK /\ CountsOK /\ PicturesOK /\ AnalyzerOK /\ PlacesOK /\ OperationsOK
      /\ Covered /\ Apart
  BY DEF Inv
<1>4. /\ settings \in Settings /\ leftovers = {} /\ after \in Picture
      /\ vectors \in Seq(Int \X Int)
      /\ tiles \in Seq(Block) /\ Disjoint(tiles)
  BY <1>1, <1>3 DEF PhaseOK, PicturesOK, AnalyzerOK, PlacesOK, Apart
<1>5. /\ tile \in Block /\ tiles' \in Seq(Block) /\ Disjoint(tiles')
      /\ tile \in ToSet(tiles) /\ ToSet(tiles') \subseteq ToSet(tiles)
      /\ PixelsIn(tiles) = PixelsIn(tiles') \cup T
      /\ PixelsIn(tiles') \cap T = {}
  BY <1>1, <1>4, WithoutPlace
<1>6. \A t \in ToSet(tiles) :
        PixelsOf(t) \subseteq Near /\ (~settings.fineGrainedMoves => Searched(t))
  BY <1>3 DEF PlacesOK, ToSet
<1>7. T \subseteq Near /\ (~settings.fineGrainedMoves => Searched(tile))
  BY <1>5, <1>6
<1>8. /\ changed = NoRect => T \cap Changed(before, after) = {}
      /\ changed # NoRect => HasChanges(changed, tile)
  BY <1>5, ChangesFound
<1>9. CountsOK'
  BY <1>3, <1>4, ProcessRectCounts
<1> HIDE DEF changed
<1>10. changed # NoRect => HasChanges(minRect, tile)
  <2>1. HasChanges(tile, tile)
    BY <1>5, <1>7 DEF HasChanges
  <2>2. QED
    BY <1>8, <2>1
<1> HIDE DEF minRect, tile
<1>11. PicturesOK'
  BY <1>1, <1>3 DEF PicturesOK
<1>12. TemplateWidth' = TemplateWidth
  BY <1>1 DEF TemplateWidth
<1>13. AnalyzerOK'
  <2>1. damaged' \subseteq damaged \cup {tile}
    BY <1>2
  <2>2. QED
    BY <1>1, <1>3, <1>7, <1>12, <2>1 DEF AnalyzerOK, Prints
<1>14. /\ \A t : Searched(t)' <=> Searched(t)
       /\ \A m, t : HasChanges(m, t)' <=> HasChanges(m, t)
  BY <1>1, <1>12, PicturesSame DEF Searched, IsCornerTile
<1>15. \A k \in DOMAIN tiles' :
        /\ PixelsOf(tiles'[k]) \subseteq Near
        /\ ~settings.fineGrainedMoves => Searched(tiles'[k])
  <2>1. \A k \in DOMAIN tiles' : tiles'[k] \in ToSet(tiles)
    BY <1>5 DEF ToSet
  <2>2. QED
    BY <1>6, <2>1
<1>16. PixelsIn(tiles) \cap InSearch = {}
  BY <1>3 DEF Apart
<1>17. ASSUME NEW new, ops' = ops \cup new, searching' = searching,
              \A op \in new : OperationOK(op) /\ PixelsOf(op.src) \subseteq Near,
              DrawnBy(new) \subseteq T \cup Outside,
              T \cap Changed(before, after) \subseteq DrawnBy(new), ApartBy(new)
       PROVE  Inv'
  <2>1. PhaseOK'
    BY <1>1, <1>3, <1>17 DEF PhaseOK
  <2>2. PlacesOK'
    BY <1>1, <1>3, <1>5, <1>14, <1>15, <1>17 DEF PlacesOK
  <2>3. InSearch' = InSearch
    BY <1>17 DEF InSearch
  <2>4. Work = Work' \cup T /\ Work' \cap T = {}
    BY <1>1, <1>4, <1>5, <1>16, <2>3 DEF Work
  <2> HIDE DEF T
  <2>5. /\ OperationsOK' /\ Covered'
        /\ Todo' \cap Work' \subseteq Outside
        /\ Drawn' \cap (Work' \cup Todo') \subseteq Outside /\ ApartBy(ops')
    BY <1>1, <1>3, <1>17, <2>4, WorkDrawn
  <2>6. PixelsIn(tiles') \cap (leftovers' \cup InSearch') = {}
    BY <1>1, <1>4, <1>5, <1>16, <2>3
  <2>7. Apart'
    BY <1>1, <1>3, <1>5, <1>17, <2>5, <2>6 DEF Apart
  <2>8. QED
    BY <1>9, <1>11, <1>13, <2>1, <2>2, <2>5, <2>7 DEF Inv
<1>18. CASE changed = NoRect /\ UNCHANGED <<ops, searching, damaged>>
  <2>1. ops' = ops \cup {} /\ searching' = searching
    BY <1>18
  <2>2. /\ T \cap Changed(before, after) \subseteq DrawnBy({})
        /\ DrawnBy({}) \subseteq T \cup Outside /\ ApartBy({})
    BY <1>8, <1>18, NothingAdded
  <2> HIDE DEF T
  <2>3. QED
    BY <1>17, <2>1, <2>2
<1>19. CASE changed # NoRect /\ solid # {} /\ ops' = ops \cup fills
            /\ UNCHANGED <<searching, damaged>>
  <2>1. /\ HasChanges(minRect, tile) /\ minRect \in Block /\ PixelsOf(minRect) \subseteq Near
        /\ PixelsOf(minRect) \subseteq T \cup Outside
        /\ T \cap Changed(before, after) \subseteq PixelsOf(minRect)
    BY <1>10, <1>19 DEF HasChanges
  <2>2. solid \subseteq SolidColor(after, Visible(minRect)) /\ solid # {}
    BY <1>19
  <2> HIDE DEF solid, T
  <2>3. \A color \in solid :
            LET op == FillOf(minRect, color)
            IN  /\ OperationOK(op) /\ op.src = minRect
                /\ PixelsOf(Target(op)) = PixelsOf(minRect)
    BY <1>4, <2>1, <2>2, FillIsRight
  <2>4. \A a, b \in solid : a = b
    BY <2>2 DEF SolidColor
  <2>5. \A op \in fills : OperationOK(op) /\ PixelsOf(op.src) \subseteq Near
    BY <2>1, <2>3
  <2>6. DrawnBy(fills) = PixelsOf(minRect)
    BY <2>2, <2>3 DEF DrawnBy
  <2>7. ApartBy(fills)
    BY <2>4 DEF ApartBy
  <2> HIDE DEF fills
  <2>8. QED
    BY <1>17, <1>19, <2>1, <2>5, <2>6, <2>7
<1>20. CASE changed # NoRect /\ ops' = ops \cup {UpdateOf(minRect)}
            /\ UNCHANGED <<searching, damaged>>
  <2>1. /\ HasChanges(minRect, tile) /\ minRect \in Block /\ PixelsOf(minRect) \subseteq Near
        /\ PixelsOf(minRect) \subseteq T \cup Outside
        /\ T \cap Changed(before, after) \subseteq PixelsOf(minRect)
    BY <1>10, <1>20 DEF HasChanges
  <2> HIDE DEF T
  <2> DEFINE op == UpdateOf(minRect)
  <2>2. OperationOK(op) /\ op.src = minRect /\ PixelsOf(Target(op)) = PixelsOf(minRect)
    BY <2>1, UpdateIsRight
  <2> HIDE DEF op
  <2>3. \A o \in {op} : OperationOK(o) /\ PixelsOf(o.src) \subseteq Near
    BY <2>1, <2>2
  <2>4. DrawnBy({op}) = PixelsOf(minRect) /\ ApartBy({op})
    BY <2>2 DEF DrawnBy, ApartBy
  <2>5. ops' = ops \cup {op}
    BY <1>20 DEF op
  <2>6. QED
    BY <1>17, <1>20, <2>1, <2>3, <2>4, <2>5
<1>21. CASE changed # NoRect /\ moves
            /\ searching' = searching \cup {s} /\ damaged' = damaged \cup {tile}
            /\ ops' = ops
  <2>1. /\ s.tile = tile /\ s.minRect = minRect /\ s.vectors = vectors
    OBVIOUS
  <2>2. Searched(tile) /\ HasChanges(minRect, tile) /\ ~settings.fineGrainedMoves
    BY <1>7, <1>10, <1>21
  <2> HIDE DEF s
  <2>3. PhaseOK'
    BY <1>1, <1>3, <1>21, <2>2 DEF PhaseOK
  <2>4. PlacesOK'
    <3>1. \A e \in searching' :
            Searched(e.tile) /\ HasChanges(e.minRect, e.tile) /\ e.vectors \in Seq(Int \X Int)
      BY <1>3, <1>4, <1>21, <2>1, <2>2 DEF PlacesOK
    <3>2. QED
      BY <1>1, <1>3, <1>5, <1>14, <1>15, <3>1 DEF PlacesOK
  <2>5. InSearch' = InSearch \cup T
    BY <1>21, <2>1 DEF InSearch
  <2>6. Work = Work' \cup {} /\ Work' \cap {} = {}
    BY <1>1, <1>4, <1>5, <2>5 DEF Work
  <2>7. /\ OperationsOK' /\ Covered'
        /\ Todo' \cap Work' \subseteq Outside
        /\ Drawn' \cap (Work' \cup Todo') \subseteq Outside /\ ApartBy(ops')
    <3>1. ops' = ops \cup {}
      BY <1>21
    <3>2. QED
      BY <1>1, <1>3, <2>6, <3>1, NothingAdded, WorkDrawn
  <2>8. PixelsIn(tiles') \cap (leftovers' \cup InSearch') = {}
    BY <1>1, <1>4, <1>5, <1>16, <2>5
  <2>9. \A s1, s2 \in searching' : s1 # s2 => PixelsOf(s1.tile) \cap PixelsOf(s2.tile) = {}
    <3>1. \A e \in searching : PixelsOf(e.tile) \cap PixelsOf(s.tile) = {}
      BY <1>5, <1>16, <2>1 DEF InSearch
    <3>2. QED
      BY <1>3, <1>21, <3>1 DEF Apart
  <2>10. Apart'
    BY <1>1, <1>3, <1>5, <2>7, <2>8, <2>9 DEF Apart
  <2>11. QED
    BY <1>9, <1>11, <1>13, <2>3, <2>4, <2>7, <2>10 DEF Inv
<1>22. QED
  BY <1>2, <1>18, <1>19, <1>20, <1>21

\* A search ends with a move or an image, whatever other threads did meanwhile.
LEMMA FinishSearchInv ==
    ASSUME Inv, NEW s \in searching, NEW wild, FinishSearch(s, wild) PROVE Inv'
<1> DEFINE search == IF s.enabled THEN Search(s.tile, s.vectors, <<>>, wild) ELSE NoSearch
           new == IF search.src = {} THEN {UpdateOf(s.minRect)} ELSE MoveFound(search, s.tile)
           T == PixelsOf(s.tile)
<1>1. /\ searching' = searching \ {s} /\ KeepVector(search, s.tile)
      /\ ops' = ops \cup new
      /\ UNCHANGED <<settings, before, after, phase, areas, rects, tiles, leftovers,
                     minified, prints, damaged, frames>>
  BY DEF FinishSearch
<1>2. /\ PhaseOK /\ CountsOK /\ PicturesOK /\ AnalyzerOK /\ PlacesOK /\ OperationsOK
      /\ Covered /\ Apart
  BY DEF Inv
<1>3. phase = "tiles" /\ settings \in Settings /\ misses \in Nat /\ leftovers = {}
      /\ vectors \in Seq(Int \X Int)
  BY <1>2 DEF PhaseOK, CountsOK, AnalyzerOK
<1>4. /\ Searched(s.tile) /\ HasChanges(s.minRect, s.tile) /\ s.vectors \in Seq(Int \X Int)
      /\ s.tile \in Block
  BY <1>2 DEF PlacesOK, Searched
<1>5. (\A src \in search.src : Found(src, s.tile)) /\ AtMostOne(search.src)
  <2>1. <<>> \in Seq(Block)
    OBVIOUS
  <2>2. QED
    BY <1>3, <1>4, <2>1, SearchOutcome
<1>6. CountsOK'
  BY <1>2, <1>3, FinishSearchCounts
<1> HIDE DEF search
<1>7. PhaseOK' /\ PicturesOK'
  BY <1>1, <1>2, <1>3 DEF PhaseOK, PicturesOK
<1>8. AnalyzerOK'
  <2>1. vectors' \in Seq(Int \X Int)
    BY <1>1, <1>3, <1>4, <1>5, KeptVector DEF Found, Block
  <2>2. TemplateWidth' = TemplateWidth
    BY <1>1 DEF TemplateWidth
  <2>3. QED
    BY <1>1, <1>2, <2>1, <2>2 DEF AnalyzerOK, Prints
<1>9. PlacesOK'
  <2>1. /\ \A t : Searched(t)' <=> Searched(t)
        /\ \A m, t : HasChanges(m, t)' <=> HasChanges(m, t)
    BY <1>1, PicturesSame DEF Searched, IsCornerTile, TemplateWidth
  <2>2. QED
    BY <1>1, <1>2, <2>1 DEF PlacesOK
<1>10. /\ \A op \in new : OperationOK(op) /\ PixelsOf(op.src) \subseteq Near
       /\ ApartBy(new) /\ DrawnBy(new) \subseteq T \cup Outside
       /\ T \cap Changed(before, after) \subseteq DrawnBy(new)
  <2>1. CASE search.src = {}
    <3> DEFINE op == UpdateOf(s.minRect)
    <3>1. /\ s.minRect \in Block /\ PixelsOf(s.minRect) \subseteq Near
          /\ PixelsOf(s.minRect) \subseteq T \cup Outside
          /\ T \cap Changed(before, after) \subseteq PixelsOf(s.minRect)
      BY <1>4 DEF HasChanges
    <3>2. OperationOK(op) /\ op.src = s.minRect
          /\ PixelsOf(Target(op)) = PixelsOf(s.minRect)
      BY <3>1, UpdateIsRight
    <3>3. new = {op}
      BY <2>1
    <3> HIDE DEF op, new, T
    <3>4. DrawnBy(new) = PixelsOf(s.minRect) /\ ApartBy(new)
      BY <3>2, <3>3 DEF DrawnBy, ApartBy
    <3>5. QED
      BY <3>1, <3>2, <3>3, <3>4
  <2>2. CASE search.src # {}
    <3>1. new = MoveFound(search, s.tile)
      BY <2>2
    <3> HIDE DEF new
    <3>2. /\ \A op \in new : OperationOK(op) /\ PixelsOf(op.src) \subseteq Near
          /\ ApartBy(new) /\ DrawnBy(new) = T
      BY <1>4, <1>5, <2>2, <3>1, MovesFound
    <3>3. QED
      BY <3>2
  <2>3. QED
    BY <2>1, <2>2
<1>11. /\ InSearch = InSearch' \cup T /\ InSearch' \cap T = {}
       /\ PixelsIn(tiles) \cap InSearch = {}
  <2>1. /\ \A s1, s2 \in searching : s1 # s2 => PixelsOf(s1.tile) \cap PixelsOf(s2.tile) = {}
        /\ PixelsIn(tiles) \cap InSearch = {}
    BY <1>2 DEF Apart
  <2>2. QED
    BY <1>1, <2>1 DEF InSearch
<1>12. Work = Work' \cup T /\ Work' \cap T = {}
  BY <1>1, <1>3, <1>11 DEF Work
<1> HIDE DEF new, T
<1>13. /\ OperationsOK' /\ Covered'
       /\ Todo' \cap Work' \subseteq Outside
       /\ Drawn' \cap (Work' \cup Todo') \subseteq Outside /\ ApartBy(ops')
  BY <1>1, <1>2, <1>3, <1>10, <1>12, WorkDrawn
<1>14. Apart'
  <2>1. PixelsIn(tiles') \cap (leftovers' \cup InSearch') = {}
    BY <1>1, <1>3, <1>11
  <2>2. QED
    BY <1>1, <1>2, <1>13, <2>1 DEF Apart
<1>15. QED
  BY <1>6, <1>7, <1>8, <1>9, <1>13, <1>14 DEF Inv

-----------------------------------------------------------------------------
(* Every step keeps the invariant *)

\* Nothing changes.
LEMMA StutterInv == ASSUME Inv, UNCHANGED vars PROVE Inv'
<1>1. UNCHANGED <<settings, before, after, phase, areas, rects, tiles, leftovers, minified,
                  searching, ops, prints, damaged, vectors, misses, enabled, frames>>
  BY DEF vars, analyzerVars
<1>2. /\ PhaseOK /\ CountsOK /\ PicturesOK /\ AnalyzerOK /\ PlacesOK /\ OperationsOK
      /\ Covered /\ Apart
  BY DEF Inv
<1>3. CountsOK' /\ AnalyzerOK'
  BY <1>1, <1>2, CountsSame, AnalyzerSame
<1>4. PhaseOK' /\ PicturesOK'
  BY <1>1, <1>2 DEF PhaseOK, PicturesOK
<1>5. PlacesOK' /\ OperationsOK'
  <2>1. \A t : Searched(t)' <=> Searched(t)
    BY <1>1 DEF Searched, IsCornerTile, TemplateWidth
  <2>2. QED
    BY <1>1, <1>2, <2>1, PicturesSame DEF PlacesOK, OperationsOK
<1>6. Todo' = Todo /\ Work' = Work /\ Drawn' = Drawn /\ InSearch' = InSearch
  BY <1>1 DEF Todo, Work, Drawn, InSearch, DrawnBy
<1>7. Covered' /\ Apart'
  BY <1>1, <1>2, <1>6, PicturesSame DEF Covered, Apart
<1>8. QED
  BY <1>3, <1>4, <1>5, <1>7 DEF Inv

\* One case for each action.
LEMMA InvStep == Inv /\ [Next]_vars => Inv'
<1> SUFFICES ASSUME Inv, [Next]_vars PROVE Inv'
  OBVIOUS
<1>1. ASSUME NEW scene \in Scenes, PaintUpdatesToBuffer(scene) PROVE Inv'
  BY <1>1, PaintUpdatesToBufferInv
<1>2. CASE FullUpdate
  BY <1>2, FullUpdateInv
<1>3. CASE FindUpdateOperations
  BY <1>3, FindUpdateOperationsInv
<1>4. ASSUME NEW wild \in Wild(Head(tiles)), FindMoveOperation(wild) PROVE Inv'
  BY <1>4, FindMoveOperationInv
<1>5. CASE SplitLeftovers
  BY <1>5, SplitLeftoversInv
<1>6. ASSUME NEW i \in DOMAIN tiles, ProcessRect(i) PROVE Inv'
  BY <1>6, ProcessRectInv
<1>7. ASSUME NEW s \in searching, NEW wild \in Wild(s.tile), FinishSearch(s, wild) PROVE Inv'
  BY <1>7, FinishSearchInv
<1>8. CASE EndOfRect
  BY <1>8, EndOfRectInv
<1>9. CASE OptimizeUpdateOperations
  BY <1>9, OptimizeUpdateOperationsInv
<1>10. CASE UpdateRects
  BY <1>10, UpdateRectsInv
<1>11. CASE UNCHANGED vars
  BY <1>11, StutterInv
<1>12. QED
  BY <1>1, <1>2, <1>3, <1>4, <1>5, <1>6, <1>7, <1>8, <1>9, <1>10, <1>11 DEF Next

\* What the invariant says of the types.
LEMMA InvTypes == Inv => TypeOK
<1> SUFFICES ASSUME Inv PROVE TypeOK
  OBVIOUS
<1>1. /\ PhaseOK /\ CountsOK /\ PicturesOK /\ AnalyzerOK /\ PlacesOK /\ OperationsOK
  BY DEF Inv
<1>2. \A r \in Block : PixelsOf(r) # {}
  BY PixelsByEdges DEF Block
<1>3. \A i \in DOMAIN areas : PixelsOf(areas[i]) # {}
  BY <1>1, <1>2 DEF PicturesOK
<1>4. \A i \in DOMAIN tiles : PixelsOf(tiles[i]) # {} /\ PixelsOf(tiles[i]) \subseteq Near
  <2>1. tiles \in Seq(Block)
    BY <1>1 DEF PlacesOK
  <2>2. \A i \in DOMAIN tiles : tiles[i] \in Block
    BY <2>1
  <2>3. QED
    BY <1>1, <1>2, <2>2 DEF PlacesOK
<1>5. Cardinality(searching) <= MaxThreads
  <2>1. IsFiniteSet(searching) /\ Cardinality(searching) <= Threads
    BY <1>1 DEF CountsOK
  <2>2. Cardinality(searching) \in Nat
    BY <2>1, FS_CardinalityType
  <2>3. Threads \in Nat /\ Threads <= MaxThreads /\ MaxThreads \in Nat
    BY BoundAssumption DEF Threads
  <2>4. QED
    BY <2>1, <2>2, <2>3
<1>6. /\ ops \subseteq Operation
      /\ \A op \in ops : op.type = "move" => PixelsOf(op.src) \subseteq Pixel
  BY <1>1 DEF OperationsOK, OperationOK
<1>7. prints \in [0..(Width - TemplateWidth) ->
                    [0..(Height - 1) -> [hash : Color, average : Color]]]
  BY <1>1 DEF AnalyzerOK, Prints, Hash
<1>8. QED
  BY <1>1, <1>3, <1>4, <1>5, <1>6, <1>7
     DEF TypeOK, PhaseOK, CountsOK, PicturesOK, AnalyzerOK, PlacesOK

-----------------------------------------------------------------------------
(* The theorems *)

\* FoundOperationsAreRight, whatever the pictures, the settings and the threads: stale or
\* colliding fingerprints, vectors of other frames and tiles outside of the picture never
\* make an operation that draws anything but the new picture (ImageComparer::processRect,
\* findMoveOperations; MoveAnalyzer::processRect).
THEOREM FoundOperationsAreRightCorrect == Spec => []FoundOperationsAreRight
<1>1. Inv => FoundOperationsAreRight
  <2> SUFFICES ASSUME Inv PROVE FoundOperationsAreRight
    OBVIOUS
  <2>1. \A op \in ops : DrawsNewPicture(op)
    BY DEF Inv, OperationsOK, OperationOK
  <2>2. QED
    BY <2>1, InvTypes DEF FoundOperationsAreRight
<1>2. QED
  BY <1>1, InvInit, InvStep, PTL DEF Spec

\* OperationsRebuildPicture: what findUpdateOperations and optimizeUpdateOperations return
\* draws nothing wrong and all that has changed, in any order the threads work.
THEOREM OperationsRebuildPictureCorrect == Spec => []OperationsRebuildPicture
<1>1. Inv => OperationsRebuildPicture
  <2> SUFFICES ASSUME Inv, phase = "done" PROVE OperationsRebuildPicture
    BY DEF OperationsRebuildPicture
  <2>1. \A op \in ops : DrawsNewPicture(op)
    BY DEF Inv, OperationsOK, OperationOK
  <2>2. Work = {} /\ Todo = {}
    <3>1. rects = <<>>
      BY DEF Inv, PhaseOK
    <3>2. QED
      BY <3>1, NoWork, EmptySequence DEF Inv, Todo
  <2>3. Changed(before, after) \subseteq Drawn
    BY <2>2 DEF Inv, Covered
  <2>4. \A p \in Pixel : before[p] # after[p] => \E op \in ops : p \in PixelsOf(Target(op))
    BY <2>3 DEF Changed, Drawn, DrawnBy
  <2>5. QED
    BY <2>1, <2>4 DEF OperationsRebuildPicture
<1>2. QED
  BY <1>1, InvInit, InvStep, PTL DEF Spec

\* DrawnOnce: no pixel is drawn twice, but for the corner, before and after the operations
\* are joined (splitRectIntoTiles, verticallyUniteRects, optimizeUpdateOperations).
THEOREM DrawnOnceCorrect == Spec => []DrawnOnce
<1>1. Inv => DrawnOnce
  BY DEF Inv, Apart, ApartBy, Outside, DrawnOnce
<1>2. QED
  BY <1>1, InvInit, InvStep, PTL DEF Spec

\* SearchGivesUp: the count of misses that the threads share passes the threshold only
\* after the search was disabled, and by less than the number of threads
\* (MoveAnalyzer::processRect, searchMisses_, searchEnabled_).
THEOREM SearchGivesUpCorrect == Spec => []SearchGivesUp
<1>1. Inv => SearchGivesUp
  BY DEF Inv, CountsOK, SearchGivesUp, Counting
<1>2. QED
  BY <1>1, InvInit, InvStep, PTL DEF Spec

=============================================================================
