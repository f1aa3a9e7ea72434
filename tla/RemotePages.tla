----------------------------- MODULE RemotePages -----------------------------
(***************************************************************************)
(* The pages of remote apps of ui/main.c and the views that show them: the *)
(* user picks a page, a category, a ranking or types a search; a detached  *)
(* thread asks the server; the main loop takes its answer if it still fits *)
(* what is selected, and draws.                                            *)
(*                                                                         *)
(* A thread in flight is a record in a set: when it ends, and in which     *)
(* order its event is taken from the queue of SDL, is left open.           *)
(***************************************************************************)
EXTENDS GridLayout, FiniteSets

CONSTANTS
  Navs,          \* the sidebar entries the user clicks
  Tabs,          \* the category tabs the user clicks
  Windows,       \* the sizes the window may get
  Total,         \* how many apps the server has in every list
  Installed,     \* how many apps are installed
  MaxTyped,      \* bound: the characters of the search box
  MaxThreads,    \* bound: the user asks for nothing after so many threads
  MaxTroubles    \* bound: changes of the window size, threads pthread_create
                 \* refuses and posts without an answer


AllNavs == {"recommended", "all", "ranking", "updates",
            "office", "system", "dev", "games"}
AllTabs == {"all", "network", "social", "dev", "video",
            "edu", "games", "office", "system", "lifestyle"}

StartWindow == [w |-> 1280, h |-> 720]

ASSUME PagesAssumption ==
  /\ Navs \subseteq AllNavs
  /\ Tabs \subseteq AllTabs
  /\ \A window \in Windows : window.w \in Nat /\ window.h \in Nat
  /\ StartWindow \in Windows
  /\ Total \in Nat
  /\ Installed \in Nat
  /\ MaxTyped \in Nat
  /\ MaxThreads \in Nat \ {0}
  /\ MaxTroubles \in Nat

(* get_category_id_by_nav and get_category_id_by_tab; NULL asks for all. *)
NoCategory == "NULL"
Categories == {NoCategory, "__welcome__", "03", "06", "07", "08"}

CategoryOfNav(n) ==
  CASE n = "recommended" -> "__welcome__"
    [] n = "office" -> "07"
    [] n = "system" -> "08"
    [] n = "dev" -> "03"
    [] n = "games" -> "06"
    [] OTHER -> NoCategory

CategoryOfTab(t) ==
  CASE t = "office" -> "07"
    [] t = "system" -> "08"
    [] t = "dev" -> "03"
    [] t = "games" -> "06"
    [] OTHER -> NoCategory

(* The pages under a header, where the grid of search_results is shown. *)
GridNavs == AllNavs \ {"ranking", "updates"}

VARIABLES
  nav,         \* active_nav
  tab,         \* active_cat
  rtab,        \* ranking_tab
  page,        \* current_page
  buf,         \* the length of search_buf; a keyword is modelled by its length
  focused,     \* search_focused
  searching,   \* is_searching
  window,      \* window_w and window_h
  cards,       \* the page sizes of that window, which the code computes again
               \* every time it needs one
  shown,       \* search_results, with the request it answers
  total,       \* remote_total
  loading,     \* loading_remote
  refetch,     \* need_refetch_on_load_complete
  lastSize,    \* last_page_size
  lastCount,   \* last_page_data_count
  rlist,       \* ranking_list, with the request it answers
  rloading,    \* loading_ranking
  fetches,     \* the threads of start_remote_fetch that have not been heard of
  rfetches,    \* the threads of start_ranking_fetch
  dirty,       \* dirty
  drawn,       \* what the last frame put on the screen
  started,     \* history: the threads of start_remote_fetch started so far
  rstarted,    \* history: the threads of start_ranking_fetch started so far
  resized,     \* history: the number of resizes
  refused,     \* history: the number of threads refused
  empty,       \* history: the number of posts without an answer
  kept,        \* history: the window has had the size search_results was asked
               \* for ever since it came
  spared,      \* history: the window grew while an answer was on its way, and
               \* the list at hand was long enough for no fetch to follow
  fate,        \* history: what became of the last start_remote_fetch
  rfate        \* history: what became of the last start_ranking_fetch

select == <<nav, tab, rtab, page, searching>>
input == <<buf, focused, window, cards, resized>>
grid == <<shown, total, loading, refetch, lastSize, lastCount, fetches,
          started, kept, spared, fate>>
ranking == <<rlist, rloading, rfetches, rstarted, rfate>>
vars == <<select, input, grid, ranking, dirty, drawn, refused, empty>>

-----------------------------------------------------------------------------
(* What is asked for *)

current_remote_category ==
  IF nav = "all" THEN CategoryOfTab(tab) ELSE CategoryOfNav(nav)

(* What is asked for on a page with a header and on one without, and what is
   laid out under the header, with the buttons of the pages and without. *)
CardsOf(w) ==
  [headed |-> current_items_per_page(w, TRUE, TRUE),
   bare |-> current_items_per_page(w, FALSE, TRUE),
   paged |-> app_grid_spec(w, CONTENT_HEADER_H, TRUE),
   whole |-> app_grid_spec(w, CONTENT_HEADER_H, FALSE)]

PageSize(c, n) == IF n \in GridNavs THEN c.headed ELSE c.bare

LayoutOf(records) == Layout(cards.paged, cards.whole, records)

(* A request, and the answer with the number of records it brought. id 0 is
   the list of installed apps, or no list. *)
Request(id, typed, category, p, size, w) ==
  [id |-> id, typed |-> typed, category |-> category, page |-> p,
   size |-> size, window |-> w]

Answer(f, count) ==
  [id |-> f.id, typed |-> f.typed, category |-> f.category, page |-> f.page,
   size |-> f.size, count |-> count]

InstalledList == Answer(Request(0, 0, NoCategory, 0, 0, StartWindow), Installed)

NoRanking == [id |-> 0, tab |-> 0, page |-> 0, some |-> FALSE]

(* What the server has of a page of so many records. *)
Records(f) ==
  LET rest == AtLeast(0, Total - (f.page - 1) * f.size)
  IN IF rest < f.size THEN rest ELSE f.size

NewFetch(typed, category, p) ==
  Request(started + 1, typed, category, p, PageSize(cards', nav'), window')

MoreThreads == started + rstarted < MaxThreads
Calm == resized + refused + empty < MaxTroubles

(* When memory or the thread is refused the loading flag is reset, and the list
   on the screen stays. *)
FetchRefusedLoading(others) ==
  /\ Calm
  /\ refused' = refused + 1
  /\ fetches' = others
  /\ lastSize' = PageSize(cards', nav')
  /\ loading' = TRUE
  /\ fate' = "refused"
  /\ UNCHANGED <<started, spared>>

FetchRefused(others) ==
  /\ Calm
  /\ refused' = refused + 1
  /\ fetches' = others
  /\ lastSize' \in {lastSize, PageSize(cards', nav')}
  /\ loading' = FALSE
  /\ fate' = "refused"
  /\ UNCHANGED <<started, spared>>

(* start_remote_fetch, after nav', window' and page' are known. others are the
   threads that go on. *)
start_remote_fetch(others, typed, category, p) ==
  \/ /\ fetches' = others \cup {NewFetch(typed, category, p)}
     /\ started' = started + 1
     /\ lastSize' = PageSize(cards', nav')
     /\ loading' = TRUE
     /\ spared' = FALSE
     /\ fate' = "asked"
     /\ UNCHANGED refused
  \/ FetchRefused(others)

(* The tab and the page travel in one integer; the thread reads the window by
   itself, so how many records it asks for is left open. *)
start_ranking_fetch(t, p) ==
  \/ /\ rfetches' = rfetches \cup {[id |-> rstarted + 1, tab |-> t, page |-> p]}
     /\ rstarted' = rstarted + 1
     /\ rloading' = TRUE
     /\ rfate' = "asked"
     /\ UNCHANGED refused
  \/ /\ Calm
     /\ refused' = refused + 1
     /\ rloading' = FALSE
     /\ rfate' = "refused"
     /\ UNCHANGED <<rfetches, rstarted>>

-----------------------------------------------------------------------------
(* The screen *)

(* view_app_grid pages through the total of the server, or without one through
   the records at hand. *)
GridLayoutNow == LayoutOf(IF total > 0 THEN total ELSE shown.count)

GridHasCards == ~loading /\ shown.count > 0

(* view_app_grid moves a page that is out of range to the last one. *)
PageLaidOut ==
  IF nav \in GridNavs /\ GridHasCards /\ page >= GridLayoutNow.pages
  THEN GridLayoutNow.pages - 1 ELSE page

RankingHasCards == ~rloading /\ rlist.some
RankingPages == LayoutOf(Total).pages

(* What store_ui_build draws: which view, of which list, and whether there are
   category tabs. *)
Screen ==
  [nav |-> nav,
   tabs |-> nav = "all" /\ ~searching,
   view |->
     IF nav = "updates" THEN "updates"
     ELSE IF nav = "ranking"
          THEN IF rloading THEN "skeleton"
               ELSE IF RankingHasCards THEN "cards" ELSE "empty"
     ELSE IF loading THEN "skeleton"
     ELSE IF shown.count > 0 THEN "cards" ELSE "empty",
   list |-> IF nav = "ranking" THEN rlist.id ELSE shown.id]

-----------------------------------------------------------------------------
(* store_state_init and the start of main. *)
Init ==
  /\ nav = "recommended" /\ tab = "all" /\ rtab = 0 /\ page = 0
  /\ buf = 0 /\ focused = FALSE /\ searching = FALSE
  /\ window = StartWindow /\ cards = CardsOf(StartWindow)
  /\ shown = InstalledList /\ total = 0 /\ lastCount = 0
  /\ refetch = FALSE /\ kept = FALSE /\ spared = FALSE
  /\ loading = TRUE
  /\ fetches = {Request(1, 0, "__welcome__", 1, PageSize(cards, nav), window)}
  /\ lastSize = PageSize(cards, nav)
  /\ rlist = NoRanking /\ rloading = FALSE /\ rfetches = {}
  /\ dirty = TRUE
  /\ drawn = [nav |-> nav, tabs |-> FALSE, view |-> "nothing", list |-> 0]
  /\ started = 1 /\ rstarted = 0 /\ resized = 0 /\ refused = 0 /\ empty = 0
  /\ fate = "asked" /\ rfate = "none"

-----------------------------------------------------------------------------
(* Answers: handle_user_event *)

FitsAnyCategory(f) == f.typed \in {0, buf} /\ f.page = page + 1

Fits(f) ==
  /\ IF f.typed > 0 THEN f.typed = buf ELSE f.category = current_remote_category
  /\ f.page = page + 1

RefetchZeroBased(others) ==
  \/ searching' /\ start_remote_fetch(others, buf, NoCategory, 1)
  \/ /\ ~searching' /\ nav \in GridNavs
     /\ current_remote_category # NoCategory
     /\ start_remote_fetch(others, 0, current_remote_category, page)

(* The fetch for a window that grew: a search is asked again from its first
   page with what the box holds now, and a page of all apps not at all. *)
Refetch(others) ==
  \/ searching' /\ start_remote_fetch(others, buf, NoCategory, 1)
  \/ /\ ~searching' /\ nav \in GridNavs
     /\ current_remote_category # NoCategory
     /\ start_remote_fetch(others, 0, current_remote_category, page + 1)

NoRefetch ==
  /\ ~searching'
  /\ nav \notin GridNavs \/ current_remote_category = NoCategory

(* The frame after this event is drawn. *)
RepaintForgotten == UNCHANGED dirty
Repaint == dirty' = TRUE

(* A post without an answer that parses, or with another code than 200, gives
   an empty list. *)
PostFails == Calm /\ empty' = empty + 1

FateOf(f, how) == IF f.id = started /\ fate = "asked" THEN how ELSE fate

RemoteShown(f) ==
  /\ f \in fetches
  /\ Fits(f)
  /\ \/ shown' = Answer(f, Records(f)) /\ total' = Total /\ UNCHANGED empty
     \/ shown' = Answer(f, 0) /\ total' = 0 /\ PostFails
  /\ lastCount' = shown'.count
  /\ kept' = (f.window = window)
  /\ searching' = (searching \/ f.typed > 0)
  /\ Repaint
  /\ refetch' = FALSE
  /\ UNCHANGED <<nav, tab, rtab, page, input>>
  /\ \/ refetch /\ Refetch(fetches \ {f})
     \/ /\ ~refetch \/ NoRefetch
        /\ fetches' = fetches \ {f}
        /\ loading' = FALSE
        /\ fate' = FateOf(f, "shown")
        /\ UNCHANGED <<lastSize, started, spared, refused>>
  /\ UNCHANGED <<ranking, drawn>>

RemoteDropped(f) ==
  /\ f \in fetches
  /\ ~Fits(f)
  /\ fetches' = fetches \ {f}
  /\ fate' = FateOf(f, "dropped")
  /\ UNCHANGED <<select, input, shown, total, loading, refetch, lastSize,
                 lastCount, started, kept, spared, ranking, dirty, drawn,
                 refused, empty>>

RankingFateOf(f, how) == IF f.id = rstarted /\ rfate = "asked" THEN how ELSE rfate

(* Whether the page has an app: the thread read the window when it began, and
   which one it saw is left open. *)
RankingOutcomes(f) ==
  {Total > (f.page - 1) * PageSize(CardsOf(w), "ranking") : w \in Windows}

RankingFitsPage(f) == page = f.page - 1
RankingFits(f) == rtab = f.tab /\ page = f.page - 1

(* The list of a ranking, when the tab and the page are still those. Another
   answer is freed, and the loading flag stays. *)
RankingReady(f) ==
  /\ f \in rfetches
  /\ rfetches' = rfetches \ {f}
  /\ IF RankingFits(f)
     THEN /\ \E some \in BOOLEAN :
               /\ \/ some \in RankingOutcomes(f) /\ UNCHANGED empty
                  \/ ~some /\ PostFails
               /\ rlist' = [id |-> f.id, tab |-> f.tab, page |-> f.page, some |-> some]
          /\ rloading' = FALSE
          /\ rfate' = RankingFateOf(f, "shown")
          /\ Repaint
     ELSE /\ rfate' = RankingFateOf(f, "dropped")
          /\ UNCHANGED <<rlist, rloading, dirty, empty>>
  /\ UNCHANGED <<select, input, grid, rstarted, drawn, refused>>

-----------------------------------------------------------------------------
(* Keys and the window: handle_sdl_event *)

Key ==
  /\ focused
  /\ Repaint
  /\ UNCHANGED <<nav, tab, rtab, searching, window, cards, resized, ranking, drawn,
                 shown, total, refetch, lastCount, kept, empty>>

NoFetch == UNCHANGED <<loading, lastSize, fetches, started, spared, fate, refused>>
NoRankingFetch == UNCHANGED <<rloading, rfetches, rstarted, rfate>>

handle_text_input ==
  /\ Key
  /\ buf < MaxTyped
  /\ buf' = buf + 1
  /\ NoFetch
  /\ UNCHANGED <<focused, page>>

BackspaceBelow ==
  /\ Key
  /\ buf' = buf - 1
  /\ NoFetch
  /\ UNCHANGED <<focused, page>>

Backspace ==
  /\ Key
  /\ buf' = AtLeast(0, buf - 1)
  /\ NoFetch
  /\ UNCHANGED <<focused, page>>

Escape == Key /\ focused' = FALSE /\ NoFetch /\ UNCHANGED <<buf, page>>

(* A search starts from its first page, whichever page is shown. *)
Enter ==
  /\ Key
  /\ focused' = FALSE
  /\ UNCHANGED buf
  /\ \/ buf = 0 /\ NoFetch /\ UNCHANGED page
     \/ /\ buf > 0
        /\ MoreThreads
        /\ page' = 0
        /\ start_remote_fetch(fetches, buf, NoCategory, 1)

(* More cards fit than were asked for, and fewer are at hand. *)
Outgrown == PageSize(cards', nav) > lastSize
WantsMore == Outgrown /\ lastCount < PageSize(cards', nav)

(* While a page is loading the fetch waits for its answer. *)
RefetchNever == refetch
RefetchLater == refetch \/ (WantsMore /\ loading)

Resize(w) ==
  /\ Calm
  /\ w # window
  /\ window' = w /\ cards' = CardsOf(w)
  /\ resized' = resized + 1
  /\ kept' = FALSE
  /\ Repaint
  /\ UNCHANGED <<select, buf, focused, ranking, drawn, shown, total, lastCount,
                 empty>>
  /\ \/ WantsMore /\ ~loading /\ Refetch(fetches) /\ UNCHANGED refetch
     \/ /\ ~WantsMore \/ loading \/ NoRefetch
        /\ refetch' = RefetchLater
        /\ spared' = (spared \/ (fetches # {} /\ Outgrown /\ ~WantsMore))
        /\ UNCHANGED <<loading, lastSize, fetches, started, fate, refused>>

-----------------------------------------------------------------------------
(* Frames: main lays the views out, which act on a click as they go, draws and
   clears dirty last, also what the layout itself set. A control takes a click
   when the last frame drew it and this one builds it. *)

DrawAll ==
  /\ page' = PageLaidOut
  /\ drawn' = Screen
  /\ UNCHANGED <<nav, tab, rtab, searching, buf, window, cards, resized, grid, ranking,
                 refused, empty>>

Redraw == dirty /\ dirty' = FALSE /\ DrawAll /\ UNCHANGED focused

(* A click on the search box gives it the focus, one elsewhere takes it; or
   only the pointer moved, or D-Bus had news. *)
RedrawFor(onSearch) ==
  /\ focused' = onSearch
  /\ dirty' = FALSE
  /\ DrawAll

Clicked ==
  /\ focused' = FALSE
  /\ dirty' = FALSE
  /\ UNCHANGED <<buf, window, cards, resized, shown, refetch, lastCount, kept, empty>>

store_ui_trigger_change_nav(n) ==
  /\ drawn.view # "nothing"
  /\ nav # n \/ searching
  /\ Clicked
  /\ nav' = n
  /\ page' = 0
  /\ total' = 0
  /\ searching' = FALSE
  /\ tab' = IF n \in {"all", "recommended"} THEN "all" ELSE tab
  /\ n # "updates" => MoreThreads
  /\ IF n \in GridNavs
     THEN start_remote_fetch(fetches, 0, CategoryOfNav(n), 1)
     ELSE UNCHANGED <<loading, lastSize, fetches, started, spared, fate>>
  /\ IF n = "ranking" THEN start_ranking_fetch(rtab, 1) ELSE NoRankingFetch
  /\ n = "updates" => UNCHANGED refused
  /\ UNCHANGED <<rtab, rlist>>
  /\ drawn' = Screen'

store_ui_trigger_change_category_tab(t) ==
  /\ drawn.tabs /\ nav = "all" /\ ~searching
  /\ tab # t
  /\ MoreThreads
  /\ Clicked
  /\ tab' = t
  /\ page' = 0
  /\ total' = 0
  /\ UNCHANGED <<nav, rtab, searching, ranking>>
  /\ start_remote_fetch(fetches, 0, CategoryOfTab(t), 1)
  /\ drawn' = Screen'

store_ui_trigger_change_ranking_tab(t) ==
  /\ drawn.nav = "ranking" /\ nav = "ranking"
  /\ rtab # t
  /\ MoreThreads
  /\ Clicked
  /\ rtab' = t
  /\ page' = 0
  /\ UNCHANGED <<nav, tab, searching, total, loading, lastSize, fetches,
                 started, spared, fate, rlist>>
  /\ start_ranking_fetch(t, 1)
  /\ drawn' = Screen'

(* The buttons act after the cards were laid out: the frame still shows the
   cards of the page before. With no total from the server only the number of
   the page changes. *)
store_ui_trigger_remote_page(step) ==
  /\ drawn.nav \in GridNavs /\ drawn.view = "cards"
  /\ nav \in GridNavs /\ GridHasCards
  /\ PageLaidOut + step \in 0 .. GridLayoutNow.pages - 1
  /\ MoreThreads
  /\ Clicked
  /\ page' = PageLaidOut + step
  /\ UNCHANGED <<nav, tab, rtab, searching, total, ranking>>
  /\ IF total > 0
     THEN start_remote_fetch(fetches, 0, current_remote_category, page' + 1)
     ELSE NoFetch
  /\ drawn' = Screen

store_ui_trigger_change_ranking_page(step) ==
  /\ drawn.nav = "ranking" /\ drawn.view = "cards"
  /\ nav = "ranking" /\ RankingHasCards
  /\ page + step \in 0 .. RankingPages - 1
  /\ MoreThreads
  /\ Clicked
  /\ page' = page + step
  /\ rlist' = NoRanking
  /\ UNCHANGED <<nav, tab, rtab, searching, total, loading, lastSize, fetches,
                 started, spared, fate>>
  /\ start_ranking_fetch(rtab, page' + 1)
  /\ drawn' = Screen

-----------------------------------------------------------------------------
(* A resize starts one thread at most, when it happens or later. *)
Ids == 1 .. MaxThreads + MaxTroubles

Arrival == \E f \in fetches : RemoteShown(f) \/ RemoteDropped(f)

User ==
  \/ handle_text_input \/ Backspace \/ Escape \/ Enter
  \/ \E w \in Windows : Resize(w)
  \/ \E onSearch \in BOOLEAN : RedrawFor(onSearch)
  \/ \E n \in Navs : store_ui_trigger_change_nav(n)
  \/ \E t \in Tabs : store_ui_trigger_change_category_tab(t)
  \/ \E t \in {0, 1} : store_ui_trigger_change_ranking_tab(t)
  \/ \E step \in {-1, 1} :
       \/ store_ui_trigger_remote_page(step)
       \/ store_ui_trigger_change_ranking_page(step)

Next == User \/ Redraw \/ Arrival \/ \E f \in rfetches : RankingReady(f)

Spec == Init /\ [][Next]_vars

-----------------------------------------------------------------------------
Sizes == 1 .. GRID_MAX_COLS * 12
MaxPages == AtLeast(1, AtLeast(Total, Installed))

TypeOK ==
  /\ nav \in Navs \cup {"recommended"} /\ tab \in Tabs \cup {"all"}
  /\ rtab \in {0, 1} /\ page \in 0 .. MaxPages - 1
  /\ buf \in 0 .. MaxTyped
  /\ {focused, searching, loading, refetch, kept, spared, rloading, dirty} \subseteq BOOLEAN
  /\ window \in Windows /\ cards \in [{"headed", "bare", "paged", "whole"} -> Sizes]
  /\ total \in {0, Total}
  /\ lastSize \in Sizes /\ lastCount \in 0 .. Total
  /\ shown.count \in 0 .. AtLeast(Total, Installed)
  /\ \A f \in fetches :
       /\ f.id \in Ids /\ f.typed \in 0 .. MaxTyped
       /\ f.category \in Categories /\ f.page \in 1 .. MaxPages
       /\ f.size \in Sizes /\ f.window \in Windows
  /\ \A f \in rfetches : f.id \in 1 .. MaxThreads /\ f.page \in 1 .. MaxPages
  /\ started \in Ids /\ rstarted \in 0 .. MaxThreads
  /\ fate \in {"asked", "shown", "dropped", "refused"}
  /\ rfate \in {"none", "asked", "shown", "dropped", "refused"}

(* The grid never keeps the apps of a page the user left: when nothing is
   loading, it holds the category that is selected, or the search that came
   last, however the answers overtake each other and the clicks. Only a thread
   that could not be started leaves the old list there. *)
ShownIsSelected ==
  nav \in GridNavs /\ ~loading /\ fate # "refused" =>
    \/ shown.id > 0 /\ shown.typed = 0 /\ shown.category = current_remote_category
    \/ shown.typed > 0 /\ searching

(* As long as the window keeps the size the page was asked for, the grid shows
   under "page p of n" just the p-th part of the list of the server: no app is
   on two pages and none is on no page. Once the window was another the layout
   may have moved the page (PageLaidOut) without asking for it, and the old
   apps stay under the new number, also when the window is as before. *)
PageIsTrue ==
  nav \in GridNavs /\ GridHasCards /\ fate # "refused"
    /\ shown.typed = 0 /\ kept /\ total > 0 =>
    LET size == GridLayoutNow.size
        laid == IF shown.count < size THEN shown.count ELSE size
        rest == AtLeast(0, total - page * size)
    IN /\ page < GridLayoutNow.pages
       /\ (shown.page - 1) * shown.size = page * size
       /\ laid = IF rest < size THEN rest ELSE size

(* After the window grew, what is at hand fills it or as much as it holds was
   asked for, also when it grew while a page was loading - unless the list at
   hand was long enough then (spared): the handler asks for nothing, and the
   answer that was on its way replaces that list and may be too short. Pages
   of all apps are never asked for again, and a search mixes pages. *)
WindowIsFilled ==
  nav \in GridNavs /\ ~loading /\ ~searching /\ fate # "refused" /\ ~spared
    /\ current_remote_category # NoCategory =>
    lastSize >= PageSize(cards, nav) \/ lastCount >= PageSize(cards, nav)

(* A ranking on the screen is that of the tab and of the page, unless a search
   was started there, which takes the page back to the first. *)
RankingIsSelected ==
  nav = "ranking" /\ ~rloading /\ rfate # "refused" =>
    rlist.tab = rtab /\ (rlist.page = page + 1 \/ page = 0)

(* While the loop sleeps, the screen has the list that is in the state: no
   answer waits for the next event to be seen. *)
SleepsDrawn ==
  /\ ~dirty /\ nav \in GridNavs /\ ~loading =>
       drawn.nav = nav /\ drawn.list = shown.id /\ drawn.view # "skeleton"
  /\ ~dirty /\ nav = "ranking" /\ ~rloading /\ rfate # "refused" =>
       drawn.nav = nav /\ drawn.list = rlist.id /\ drawn.view # "skeleton"

(* A thread is only started for what is selected at that moment, so that its
   answer is dropped only when the user moved on. The fetch for a window that
   grew in a search asks for what the box holds now instead. *)
AsksForSelected ==
  [][\A f \in fetches' \ fetches :
       \/ f.page = page' + 1
          /\ \/ f.typed = 0 /\ f.category = current_remote_category'
             \/ f.typed > 0 /\ f.typed = buf'
       \/ searching /\ (window' # window \/ refetch)]_vars

(* A skeleton has a thread that will end it: the last one that was started is
   still on its way, or its answer came when the user had moved on. *)
LoadingHasReason ==
  /\ loading => fate = "dropped" \/ \E f \in fetches : f.id = started
  /\ rloading => rfate = "dropped" \/ \E f \in rfetches : f.id = rstarted
=============================================================================
