-------------------------- MODULE GridLayoutProofs --------------------------
(***************************************************************************)
(* The two computations of the grid agree: for every window, gap and       *)
(* padding the number of records the loop asks for is the number of cards  *)
(* the views lay out.                                                      *)
(***************************************************************************)
EXTENDS GridLayout, TLAPS

Columns == 1 .. GRID_MAX_COLS

FitCount(window) ==
  Clamp((ContentW(window) + Gap) \div (GRID_MIN_CARD_W + Gap), 1, GRID_MAX_COLS)

(* The loop of current_items_per_page: each number of columns against the one
   chosen so far. *)
Folded(window, f) ==
  [c \in 1 .. GRID_MAX_COLS |->
     IF c = 1 THEN 1
     ELSE IF Score(window, c) < Score(window, f[c - 1]) THEN c
     ELSE f[c - 1]]

(* The first of the best scores among 1 .. n. *)
FirstBest(window, n, cols) ==
  /\ cols \in 1 .. n
  /\ \A c \in 1 .. n : Score(window, cols) <= Score(window, c)
  /\ \A c \in 1 .. cols - 1 : Score(window, cols) < Score(window, c)

LEMMA ScoresAreIntegers ==
  ASSUME NEW window, window.w \in Nat, NEW c \in Columns
  PROVE  Score(window, c) \in Int
  <1>1. ContentW(window) \in Int
    BY LayoutAssumption DEF ContentW, AtLeast, SIDEBAR_W
  <1>2. CardW(window, c) \in Int
    BY <1>1, LayoutAssumption DEF CardW, Columns, GRID_MAX_COLS
  <1> QED
    BY <1>2 DEF Score, Abs, GRID_TARGET_CARD_W, GRID_MAX_CARD_W

(* The loop has a result: its six turns, written out. *)
LEMMA FoldExists ==
  ASSUME NEW window
  PROVE  \E f : f = Folded(window, f)
  <1> DEFINE g1 == 1
             g2 == IF Score(window, 2) < Score(window, g1) THEN 2 ELSE g1
             g3 == IF Score(window, 3) < Score(window, g2) THEN 3 ELSE g2
             g4 == IF Score(window, 4) < Score(window, g3) THEN 4 ELSE g3
             g5 == IF Score(window, 5) < Score(window, g4) THEN 5 ELSE g4
             g6 == IF Score(window, 6) < Score(window, g5) THEN 6 ELSE g5
             f == [c \in 1 .. GRID_MAX_COLS |->
                     IF c = 1 THEN g1 ELSE IF c = 2 THEN g2
                     ELSE IF c = 3 THEN g3 ELSE IF c = 4 THEN g4
                     ELSE IF c = 5 THEN g5 ELSE g6]
  <1> HIDE DEF g2, g3, g4, g5, g6
  <1>1. f[1] = g1 /\ f[2] = g2 /\ f[3] = g3 /\ f[4] = g4 /\ f[5] = g5 /\ f[6] = g6
    BY DEF GRID_MAX_COLS
  <1>2. f[2] = IF Score(window, 2) < Score(window, f[1]) THEN 2 ELSE f[1]
    BY <1>1 DEF g2
  <1>3. f[3] = IF Score(window, 3) < Score(window, f[2]) THEN 3 ELSE f[2]
    BY <1>1 DEF g3
  <1>4. f[4] = IF Score(window, 4) < Score(window, f[3]) THEN 4 ELSE f[3]
    BY <1>1 DEF g4
  <1>5. f[5] = IF Score(window, 5) < Score(window, f[4]) THEN 5 ELSE f[4]
    BY <1>1 DEF g5
  <1>6. f[6] = IF Score(window, 6) < Score(window, f[5]) THEN 6 ELSE f[5]
    BY <1>1 DEF g6
  <1>7. f[1] = 1
    BY <1>1
  <1>8. f = [c \in 1 .. GRID_MAX_COLS |-> f[c]]
    OBVIOUS
  <1> HIDE DEF f, g1
  <1>9. ASSUME NEW c \in 1 .. GRID_MAX_COLS
        PROVE  f[c] = Folded(window, f)[c]
    <2>1. c \in {1, 2, 3, 4, 5, 6}
      BY DEF GRID_MAX_COLS
    <2>2. Folded(window, f)[c] =
            IF c = 1 THEN 1
            ELSE IF Score(window, c) < Score(window, f[c - 1]) THEN c
            ELSE f[c - 1]
      BY DEF Folded
    <2> QED
      BY <1>2, <1>3, <1>4, <1>5, <1>6, <1>7, <2>1, <2>2
  <1>10. f = Folded(window, f)
    BY <1>8, <1>9 DEF Folded
  <1> QED
    BY <1>10

(* One turn keeps the first of the best. *)
LEMMA TurnKeepsFirstBest ==
  ASSUME NEW window, window.w \in Nat, NEW c \in 2 .. GRID_MAX_COLS, NEW cols,
         FirstBest(window, c - 1, cols)
  PROVE  FirstBest(window, c,
                   IF Score(window, c) < Score(window, cols) THEN c ELSE cols)
  <1>1. \A k \in 1 .. c : Score(window, k) \in Int
    BY ScoresAreIntegers DEF Columns, GRID_MAX_COLS
  <1>2. /\ cols \in 1 .. c - 1 /\ c \in Nat
        /\ \A k \in 1 .. c : k \in 1 .. c - 1 \/ k = c
    BY DEF FirstBest, GRID_MAX_COLS
  <1>3. CASE Score(window, c) < Score(window, cols)
    <2>1. \A k \in 1 .. c - 1 : Score(window, c) < Score(window, k)
      BY <1>1, <1>2, <1>3 DEF FirstBest
    <2>2. FirstBest(window, c, c)
      BY <1>1, <1>2, <2>1 DEF FirstBest
    <2> QED
      BY <1>3, <2>2
  <1>4. CASE ~(Score(window, c) < Score(window, cols))
    <2>1. FirstBest(window, c, cols)
      BY <1>1, <1>2, <1>4 DEF FirstBest
    <2> QED
      BY <1>4, <2>1
  <1> QED
    BY <1>3, <1>4

LEMMA FoldIsFirstBest ==
  ASSUME NEW window, window.w \in Nat, NEW f, f = Folded(window, f), NEW n \in Columns
  PROVE  FirstBest(window, n, f[n])
  <1>1. f[1] = 1
    BY DEF Folded, GRID_MAX_COLS
  <1>2. \A c \in 2 .. GRID_MAX_COLS :
          f[c] = IF Score(window, c) < Score(window, f[c - 1]) THEN c ELSE f[c - 1]
    BY DEF Folded, GRID_MAX_COLS
  <1>3. FirstBest(window, 1, f[1])
    BY <1>1, ScoresAreIntegers DEF FirstBest, Columns, GRID_MAX_COLS
  <1>4. ASSUME NEW c \in 2 .. GRID_MAX_COLS, FirstBest(window, c - 1, f[c - 1])
        PROVE  FirstBest(window, c, f[c])
    BY <1>2, <1>4, TurnKeepsFirstBest
  <1> HIDE DEF FirstBest
  <1>5. FirstBest(window, 2, f[2])
    BY <1>3, <1>4 DEF GRID_MAX_COLS
  <1>6. FirstBest(window, 3, f[3])
    BY <1>5, <1>4 DEF GRID_MAX_COLS
  <1>7. FirstBest(window, 4, f[4])
    BY <1>6, <1>4 DEF GRID_MAX_COLS
  <1>8. FirstBest(window, 5, f[5])
    BY <1>7, <1>4 DEF GRID_MAX_COLS
  <1>9. FirstBest(window, 6, f[6])
    BY <1>8, <1>4 DEF GRID_MAX_COLS
  <1> QED
    BY <1>3, <1>5, <1>6, <1>7, <1>8, <1>9 DEF Columns, GRID_MAX_COLS

LEMMA FitCountInColumns ==
  ASSUME NEW window, window.w \in Nat
  PROVE  FitCount(window) \in Columns
  <1>1. ContentW(window) \in Int
    BY LayoutAssumption DEF ContentW, AtLeast, SIDEBAR_W
  <1>2. (ContentW(window) + Gap) \div (GRID_MIN_CARD_W + Gap) \in Int
    BY <1>1, LayoutAssumption DEF GRID_MIN_CARD_W
  <1> QED
    BY <1>2 DEF FitCount, Clamp, AtLeast, Columns, GRID_MAX_COLS

(* app_grid_spec keeps the first of the best columns, current_items_per_page
   the columns that won against those before: the same. *)
THEOREM SameColumns ==
  ASSUME NEW window, window.w \in Nat
  PROVE  ChosenCols(window) = BestCols(window)
  <1>1. FitCount(window) \in Columns
    BY FitCountInColumns
  <1>2. PICK f : f = Folded(window, f) /\ ChosenCols(window) = f[FitCount(window)]
    <2>1. ChosenCols(window) =
            (CHOOSE f : f = [c \in 1 .. GRID_MAX_COLS |->
                               IF c = 1 THEN 1
                               ELSE IF Score(window, c) < Score(window, f[c - 1]) THEN c
                               ELSE f[c - 1]])[FitCount(window)]
      BY DEF ChosenCols, FitCount
    <2>2. ChosenCols(window) = (CHOOSE f : f = Folded(window, f))[FitCount(window)]
      BY <2>1 DEF Folded
    <2> QED
      BY <2>2, FoldExists
  <1>3. FirstBest(window, FitCount(window), ChosenCols(window))
    BY <1>1, <1>2, FoldIsFirstBest
  <1>4. BestCols(window) =
          CHOOSE cols \in 1 .. FitCount(window) :
            /\ \A c \in 1 .. FitCount(window) : Score(window, cols) <= Score(window, c)
            /\ \A c \in 1 .. cols - 1 : Score(window, cols) < Score(window, c)
    BY DEF BestCols, FitCols, FitCount
  <1>5. FirstBest(window, FitCount(window), BestCols(window))
    BY <1>3, <1>4 DEF FirstBest
  <1>6. ASSUME NEW x, NEW y, x < y,
               FirstBest(window, FitCount(window), x),
               FirstBest(window, FitCount(window), y)
        PROVE  FALSE
    <2>1. /\ x \in 1 .. y - 1
          /\ x \in Columns /\ y \in Columns
          /\ x \in 1 .. FitCount(window) /\ y \in 1 .. FitCount(window)
      BY <1>1, <1>6 DEF FirstBest, Columns, GRID_MAX_COLS
    <2>2. Score(window, y) < Score(window, x) /\ Score(window, x) <= Score(window, y)
      BY <1>6, <2>1 DEF FirstBest
    <2> QED
      BY <2>1, <2>2, ScoresAreIntegers
  <1>7. ChosenCols(window) \in Int /\ BestCols(window) \in Int
    BY <1>1, <1>3, <1>5 DEF FirstBest, Columns, GRID_MAX_COLS
  <1> QED
    BY <1>3, <1>5, <1>6, <1>7

(* Under a header, with the buttons of the pages, a page that is asked for is
   a page that is laid out. *)
THEOREM AsksForWhatIsLaidOut ==
  ASSUME NEW window, window.w \in Nat
  PROVE  current_items_per_page(window, TRUE, TRUE)
           = app_grid_spec(window, CONTENT_HEADER_H, TRUE)
  BY SameColumns DEF current_items_per_page, app_grid_spec

-----------------------------------------------------------------------------
(* The number of cards is between one and the largest grid, and a page without
   a header has room for as many rows as one with it. *)
LEMMA ColumnsChosen ==
  ASSUME NEW window, window.w \in Nat
  PROVE  BestCols(window) \in Columns
  <1>1. FitCount(window) \in Columns
    BY FitCountInColumns
  <1>2. PICK f : f = Folded(window, f)
    BY FoldExists
  <1>3. FirstBest(window, FitCount(window), f[FitCount(window)])
    BY <1>1, <1>2, FoldIsFirstBest
  <1>4. BestCols(window) =
          CHOOSE cols \in 1 .. FitCount(window) :
            /\ \A c \in 1 .. FitCount(window) : Score(window, cols) <= Score(window, c)
            /\ \A c \in 1 .. cols - 1 : Score(window, cols) < Score(window, c)
    BY DEF BestCols, FitCols, FitCount
  <1>5. BestCols(window) \in 1 .. FitCount(window)
    BY <1>3, <1>4 DEF FirstBest
  <1> QED
    BY <1>1, <1>5 DEF Columns, GRID_MAX_COLS

LEMMA RowsInRange ==
  ASSUME NEW window, window.h \in Nat, NEW reserve \in Nat, NEW paging
  PROVE  Rows(window, reserve, paging) \in 1 .. 12
  <1>1. ContentH(window, reserve, paging) \in Int
    BY LayoutAssumption
      DEF ContentH, AtLeast, CARD_H, TITLEBAR_H, GRID_PAGE_H
  <1>2. (ContentH(window, reserve, paging) + Gap) \div (CARD_H + Gap) \in Int
    BY <1>1, LayoutAssumption DEF CARD_H
  <1> QED
    BY <1>2 DEF Rows, Clamp, AtLeast

LEMMA QuotientsKeepOrder ==
  ASSUME NEW a \in Int, NEW b \in Int, a <= b, NEW d \in Nat \ {0}
  PROVE  a \div d <= b \div d
  OBVIOUS

LEMMA RowsUnderHeader ==
  ASSUME NEW window, window.h \in Nat, NEW paging
  PROVE  Rows(window, CONTENT_HEADER_H, paging) <= Rows(window, 0, paging)
  <1> DEFINE under == ContentH(window, CONTENT_HEADER_H, paging) + Gap
             alone == ContentH(window, 0, paging) + Gap
             d == CARD_H + Gap
  <1>1. under \in Int /\ alone \in Int /\ under <= alone
    BY LayoutAssumption
      DEF ContentH, AtLeast, CARD_H, TITLEBAR_H, GRID_PAGE_H, CONTENT_HEADER_H
  <1>2. d \in Nat \ {0}
    BY LayoutAssumption DEF CARD_H
  <1> HIDE DEF under, alone, d
  <1>3. under \div d <= alone \div d /\ under \div d \in Int /\ alone \div d \in Int
    BY <1>1, <1>2, QuotientsKeepOrder
  <1>4. Clamp(under \div d, 1, 12) <= Clamp(alone \div d, 1, 12)
    BY <1>3 DEF Clamp, AtLeast
  <1> QED
    BY <1>4 DEF Rows, under, alone, d

LEMMA ProductsKeepOrder ==
  ASSUME NEW a \in Nat, NEW b \in Nat, a <= b, NEW d \in Nat
  PROVE  d * a \in Nat /\ d * b \in Nat /\ d * a <= d * b
  OBVIOUS

(* What a window holds under a header and without one. *)
LEMMA CardCounts ==
  ASSUME NEW window, window.w \in Nat, window.h \in Nat
  PROVE  /\ \A headed, paging \in BOOLEAN :
              current_items_per_page(window, headed, paging) \in 1 .. GRID_MAX_COLS * 12
         /\ \A paging \in BOOLEAN :
              app_grid_spec(window, CONTENT_HEADER_H, paging) \in 1 .. GRID_MAX_COLS * 12
         /\ current_items_per_page(window, TRUE, TRUE)
              <= current_items_per_page(window, FALSE, TRUE)
  <1> DEFINE cols == BestCols(window)
  <1>1. cols \in 1 .. 6
    BY ColumnsChosen DEF Columns, GRID_MAX_COLS
  <1>2. ChosenCols(window) = cols
    BY SameColumns
  <1> HIDE DEF cols
  <1>3. ASSUME NEW rows \in 1 .. 12
        PROVE  cols * rows \in 1 .. GRID_MAX_COLS * 12
    <2>1. /\ 1 \in Nat /\ 12 \in Nat /\ rows \in Nat /\ cols \in Nat
          /\ 1 <= rows /\ rows <= 12
      BY <1>1
    <2>2. cols * 1 <= cols * rows
      BY <2>1, ProductsKeepOrder
    <2>3. cols * rows <= cols * 12 /\ cols * rows \in Nat
      BY <2>1, ProductsKeepOrder
    <2> QED
      BY <1>1, <2>2, <2>3 DEF GRID_MAX_COLS
  <1>4. /\ 0 \in Nat /\ CONTENT_HEADER_H \in Nat
    BY DEF CONTENT_HEADER_H
  <1>5. ASSUME NEW reserve \in {0, CONTENT_HEADER_H}, NEW paging \in BOOLEAN
        PROVE  cols * Rows(window, reserve, paging) \in 1 .. GRID_MAX_COLS * 12
    <2>1. Rows(window, reserve, paging) \in 1 .. 12
      BY <1>4, RowsInRange
    <2> QED
      BY <1>3, <2>1
  <1>6. ASSUME NEW paging \in BOOLEAN
        PROVE  cols * Rows(window, CONTENT_HEADER_H, paging)
                 <= cols * Rows(window, 0, paging)
    <2>1. PICK under, alone :
            /\ under = Rows(window, CONTENT_HEADER_H, paging)
            /\ alone = Rows(window, 0, paging)
      OBVIOUS
    <2>2. under \in 1 .. 12 /\ alone \in 1 .. 12
      BY <1>4, <2>1, RowsInRange
    <2>3. under <= alone
      BY <2>1, RowsUnderHeader
    <2>4. cols * under <= cols * alone
      BY <1>1, <2>2, <2>3, ProductsKeepOrder
    <2> QED
      BY <2>1, <2>4
  <1> QED
    BY <1>2, <1>5, <1>6 DEF current_items_per_page, app_grid_spec, cols

-----------------------------------------------------------------------------
(* The number of pages *)

LEMMA Quotient ==
  ASSUME NEW a \in Nat, NEW d \in Nat \ {0}
  PROVE  /\ a \div d \in Nat
         /\ d * (a \div d) <= a
         /\ a < d * (a \div d) + d
         /\ a \div d <= a
  OBVIOUS

LEMMA PageCountBounds ==
  ASSUME NEW records \in Nat, NEW size \in Nat \ {0}
  PROVE  /\ PageCount(records, size) \in 1 .. AtLeast(1, records)
         /\ PageCount(records, size) <= 1 <=> records <= size
  <1> DEFINE q == (records + size - 1) \div size
  <1>1. records + size - 1 \in Nat
    OBVIOUS
  <1>2. q \in Nat /\ size * q <= records + size - 1 /\ records + size - 1 < size * q + size
    BY <1>1, Quotient
  <1> HIDE DEF q
  <1>3. q <= records
    <2>1. CASE q = 0
      BY <2>1
    <2>2. CASE q > 0
      <3>1. size * q = size * (q - 1) + size
        BY <1>2
      <3>2. size * (q - 1) <= records - 1
        BY <1>2, <3>1
      <3>3. q - 1 <= size * (q - 1)
        BY <1>2, <2>2
      <3> QED
        BY <1>2, <3>2, <3>3
    <2> QED
      BY <1>2, <2>1, <2>2
  <1>4. q <= 1 <=> records <= size
    <2>1. CASE q <= 1
      <3>1. size * q <= size
        BY <1>2, <2>1
      <3> QED
        BY <1>2, <2>1, <3>1
    <2>2. CASE q > 1
      <3>1. size * 2 <= size * q
        BY <1>2, <2>2
      <3> QED
        BY <1>2, <2>2, <3>1
    <2> QED
      BY <1>2, <2>1, <2>2
  <1> QED
    BY <1>2, <1>3, <1>4 DEF PageCount, AtLeast, q

(* A page that has a record is one of the pages. *)
LEMMA PageOfRecord ==
  ASSUME NEW records \in Nat, NEW size \in Nat \ {0}, NEW page \in Nat,
         page * size < records
  PROVE  page < PageCount(records, size)
  <1> DEFINE q == (records + size - 1) \div size
  <1>1. records + size - 1 \in Nat
    OBVIOUS
  <1>2. q \in Nat /\ records + size - 1 < size * q + size
    BY <1>1, Quotient
  <1> HIDE DEF q
  <1>3. page < q
    <2> SUFFICES ASSUME q <= page PROVE FALSE
      BY <1>2
    <2>1. size * q <= size * page
      BY <1>2, ProductsKeepOrder
    <2>2. size * page = page * size /\ size * page \in Nat /\ size * q \in Nat
      BY <1>2
    <2> QED
      BY <1>2, <2>1, <2>2
  <1> QED
    BY <1>2, <1>3 DEF PageCount, AtLeast, q

LEMMA LayoutBounds ==
  ASSUME NEW paged \in Nat \ {0}, NEW whole \in Nat \ {0}, NEW records \in Nat
  PROVE  /\ Layout(paged, whole, records).pages \in 1 .. AtLeast(1, records)
         /\ Layout(paged, whole, records).size \in {paged, whole}
  BY PageCountBounds DEF Layout

(* When each record of the list belongs to the page of so many, paging by the
   size the buttons leave room for, the layout agrees about the page. *)
THEOREM LayoutTilesList ==
  ASSUME NEW paged \in Nat \ {0}, NEW whole \in Nat \ {0},
         NEW records \in Nat, NEW page \in Nat, page * paged < records
  PROVE  LET layout == Layout(paged, whole, records)
         IN /\ page < layout.pages
            /\ \/ layout.size = paged /\ records > paged
               \/ layout.size = whole /\ records <= paged /\ page = 0
  <1>1. CASE records > paged
    <2>1. Layout(paged, whole, records) =
            [size |-> paged, pages |-> PageCount(records, paged)]
      BY <1>1, PageCountBounds DEF Layout
    <2> QED
      BY <1>1, <2>1, PageOfRecord
  <1>2. CASE records <= paged
    <2>1. page = 0
      <3> SUFFICES ASSUME page # 0 PROVE FALSE
        OBVIOUS
      <3>1. paged * 1 <= paged * page
        BY ProductsKeepOrder
      <3>2. paged * page = page * paged /\ paged * 1 = paged
        OBVIOUS
      <3> QED
        BY <1>2, <3>1, <3>2
    <2>2. Layout(paged, whole, records) =
            [size |-> whole, pages |-> PageCount(records, whole)]
      BY <1>2, PageCountBounds DEF Layout
    <2>3. PageCount(records, whole) \in 1 .. AtLeast(1, records)
      BY PageCountBounds
    <2>4. PageCount(records, whole) > 0
      BY <2>3 DEF AtLeast
    <2> QED
      BY <1>2, <2>1, <2>2, <2>4
  <1> QED
    BY <1>1, <1>2
=============================================================================
