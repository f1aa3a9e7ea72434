----------------------------- MODULE GridLayout -----------------------------
(***************************************************************************)
(* How many cards fit the window: current_items_per_page of ui/main.c asks *)
(* the server for that many, app_grid_spec of ui/store_ui.c lays them out. *)
(* Two computations of one number.                                         *)
(***************************************************************************)
EXTENDS Integers

CONSTANTS
  Gap,       \* DS_SPACE_3 of kilnui
  Padding    \* DS_SPACE_4 of kilnui

ASSUME LayoutAssumption == Gap \in Nat /\ Padding \in Nat

SIDEBAR_W == 180
CARD_H == 88
GRID_MIN_CARD_W == 320
GRID_TARGET_CARD_W == 380
GRID_MAX_CARD_W == 480
GRID_MAX_COLS == 6
TITLEBAR_H == 52
CONTENT_HEADER_H == 44
GRID_PAGE_H == 40

AtLeast(low, v) == IF v < low THEN low ELSE v
Clamp(v, low, high) == IF v > high THEN high ELSE AtLeast(low, v)

Abs(v) == IF v < 0 THEN -v ELSE v

ContentW(window) == AtLeast(1, window.w - SIDEBAR_W - Padding * 2)
ContentH(window, reserve, paging) ==
  AtLeast(CARD_H, window.h - TITLEBAR_H - reserve - Padding * 2
                  - (IF paging THEN GRID_PAGE_H ELSE 0))

CardW(window, cols) == (ContentW(window) - Gap * (cols - 1)) \div cols

(* How far a grid of cols columns is from the width a card should have. *)
Score(window, cols) ==
  Abs(CardW(window, cols) - GRID_TARGET_CARD_W)
    + (IF CardW(window, cols) > GRID_MAX_CARD_W
       THEN (CardW(window, cols) - GRID_MAX_CARD_W) * 2 ELSE 0)

FitCols(window) ==
  1 .. Clamp((ContentW(window) + Gap) \div (GRID_MIN_CARD_W + Gap), 1, GRID_MAX_COLS)

Rows(window, reserve, paging) ==
  Clamp((ContentH(window, reserve, paging) + Gap) \div (CARD_H + Gap), 1, 12)

-----------------------------------------------------------------------------
(* app_grid_spec keeps the first of the best scores. *)
BestCols(window) ==
  CHOOSE cols \in FitCols(window) :
    /\ \A c \in FitCols(window) : Score(window, cols) <= Score(window, c)
    /\ \A c \in 1 .. cols - 1 : Score(window, cols) < Score(window, c)

app_grid_spec(window, reserve, paging) ==
  BestCols(window) * Rows(window, reserve, paging)

(* current_items_per_page compares each width with that of the columns chosen
   so far: a fold over the columns, starting from one. *)
ChosenCols(window) ==
  LET chosen[c \in 1 .. GRID_MAX_COLS] ==
        IF c = 1 THEN 1
        ELSE IF Score(window, c) < Score(window, chosen[c - 1]) THEN c
        ELSE chosen[c - 1]
  IN chosen[Clamp((ContentW(window) + Gap) \div (GRID_MIN_CARD_W + Gap), 1, GRID_MAX_COLS)]

current_items_per_pageUnpaged(window, headed, paging) ==
  ChosenCols(window)
    * Rows(window, IF headed THEN CONTENT_HEADER_H ELSE 0, FALSE)

(* Its last line falls back to 30 when the product is 0, which it never is. *)
current_items_per_page(window, headed, paging) ==
  ChosenCols(window)
    * Rows(window, IF headed THEN CONTENT_HEADER_H ELSE 0, paging)

-----------------------------------------------------------------------------
PageCount(records, size) == AtLeast(1, (records + size - 1) \div size)

(* Both views lay a list of so many records out twice: first with room for the
   buttons of the pages, and in whole when one page is enough. *)
Layout(paged, whole, records) ==
  LET size == IF PageCount(records, paged) > 1 THEN paged ELSE whole
  IN [size |-> size, pages |-> PageCount(records, size)]
=============================================================================
