-------------------------- MODULE RemotePagesProofs --------------------------
(***************************************************************************)
(* The remote pages for every server, every set of windows and any number  *)
(* of threads: what is shown is what is selected, what is asked for too,   *)
(* and a skeleton has a reason.                                            *)
(***************************************************************************)
EXTENDS RemotePages, GridLayoutProofs

(* A thread has an id, and one that searches asks for the first page. *)
ThreadsOK ==
  /\ started \in Nat /\ buf \in Nat
  /\ \A f \in fetches :
       /\ f.id \in Nat /\ f.id > 0 /\ f.typed \in Nat
       /\ f.typed > 0 => f.page = 1

(* While something loads, the last thread was not heard of or its answer came
   too late: nothing was shown for it. *)
Reason == loading => \/ fate = "dropped"
                     \/ fate = "asked" /\ \E f \in fetches : f.id = started

RankingReason == rloading => \/ rfate = "dropped"
                             \/ rfate = "asked" /\ \E f \in rfetches : f.id = rstarted

RankingPagesOK == (nav = "ranking" => page \in Int) /\ \A f \in rfetches : f.page \in Int

GridInv == ThreadsOK /\ Reason /\ ShownIsSelected

RankingInv == RankingReason /\ RankingPagesOK /\ RankingIsSelected

PagesInv == GridInv /\ RankingInv

(* The step of AsksForSelected. *)
Asks ==
  \A f \in fetches' \ fetches :
       \/ f.page = page' + 1
          /\ \/ f.typed = 0 /\ f.category = current_remote_category'
             \/ f.typed > 0 /\ f.typed = buf'
       \/ searching /\ (window' # window \/ refetch)

-----------------------------------------------------------------------------
(* Starting a thread *)

LEMMA Started ==
  ASSUME ThreadsOK, NEW others, others \subseteq fetches, NEW typed \in Nat,
         NEW category, NEW p, typed > 0 => p = 1,
         start_remote_fetch(others, typed, category, p), buf' \in Nat
  PROVE  /\ ThreadsOK' /\ Reason' /\ ShownIsSelected'
         /\ \A f \in fetches' \ fetches :
              f.typed = typed /\ f.category = category /\ f.page = p
  <1>1. CASE FetchRefused(others)
    BY <1>1 DEF FetchRefused, ThreadsOK, Reason, ShownIsSelected
  <1>2. CASE /\ fetches' = others \cup {NewFetch(typed, category, p)}
             /\ started' = started + 1 /\ loading' = TRUE /\ fate' = "asked"
    <2>1. PICK new : new = NewFetch(typed, category, p)
      OBVIOUS
    <2>2. /\ new.id = started + 1 /\ new.typed = typed
          /\ new.category = category /\ new.page = p
      BY <2>1 DEF NewFetch, Request
    <2>3. fetches' = others \cup {new}
      BY <1>2, <2>1
    <2>4. ThreadsOK'
      BY <1>2, <2>2, <2>3 DEF ThreadsOK
    <2>5. Reason' /\ ShownIsSelected'
      BY <1>2, <2>2, <2>3 DEF Reason, ShownIsSelected
    <2> QED
      BY <2>2, <2>3, <2>4, <2>5
  <1> QED
    BY <1>1, <1>2 DEF start_remote_fetch

(* The selection and the grid, when neither changes. *)
LEMMA GridStays ==
  ASSUME GridInv, buf' \in Nat,
         UNCHANGED <<nav, tab, searching, shown, loading, fetches, started, fate>>
  PROVE  GridInv'
  BY DEF GridInv, ThreadsOK, Reason, ShownIsSelected, current_remote_category

LEMMA RankingStarted ==
  ASSUME RankingInv, NEW t, NEW p \in Int, start_ranking_fetch(t, p),
         nav' = "ranking" => page' \in Int
  PROVE  RankingInv'
  <1>1. CASE rfetches' = rfetches /\ rloading' = FALSE /\ rfate' = "refused"
    BY <1>1 DEF RankingInv, RankingReason, RankingPagesOK, RankingIsSelected
  <1>2. CASE /\ rfetches' = rfetches \cup {[id |-> rstarted + 1, tab |-> t, page |-> p]}
             /\ rstarted' = rstarted + 1 /\ rloading' = TRUE /\ rfate' = "asked"
    <2>1. PICK new : new = [id |-> rstarted + 1, tab |-> t, page |-> p]
      OBVIOUS
    <2>2. rfetches' = rfetches \cup {new} /\ new.id = rstarted' /\ new.page = p
      BY <1>2, <2>1
    <2> QED
      BY <1>2, <2>2 DEF RankingInv, RankingReason, RankingPagesOK, RankingIsSelected
  <1> QED
    BY <1>1, <1>2 DEF start_ranking_fetch

LEMMA RankingStays ==
  ASSUME RankingInv, UNCHANGED <<rtab, rlist, rloading, rfetches, rstarted, rfate>>,
         nav' # "ranking" \/ (nav' = nav /\ page' \in {page, 0})
  PROVE  RankingInv'
  BY DEF RankingInv, RankingReason, RankingPagesOK, RankingIsSelected

-----------------------------------------------------------------------------
(* Answers *)

LEMMA RefetchKeeps ==
  ASSUME ThreadsOK, NEW others, others \subseteq fetches, Refetch(others),
         UNCHANGED <<nav, tab, page, buf>>
  PROVE  /\ ThreadsOK' /\ Reason' /\ ShownIsSelected'
         /\ \A f \in fetches' \ fetches :
              \/ searching' /\ f.typed = buf /\ f.page = 1
              \/ /\ f.typed = 0 /\ f.category = current_remote_category'
                 /\ f.page = page' + 1
  <1>1. CASE searching' /\ start_remote_fetch(others, buf, NoCategory, 1)
    <2>1. buf \in Nat /\ buf' \in Nat
      BY DEF ThreadsOK
    <2> QED
      BY <1>1, <2>1, Started
  <1>2. CASE start_remote_fetch(others, 0, current_remote_category, page + 1)
    <2>1. buf' \in Nat /\ current_remote_category' = current_remote_category
      BY DEF ThreadsOK, current_remote_category
    <2>2. PICK category : category = current_remote_category
      OBVIOUS
    <2>3. PICK p : p = page + 1
      OBVIOUS
    <2>4. start_remote_fetch(others, 0, category, p)
      BY <1>2, <2>2, <2>3
    <2> QED
      BY <2>1, <2>2, <2>3, <2>4, Started
  <1> QED
    BY <1>1, <1>2 DEF Refetch

LEMMA RemoteShownKeeps ==
  ASSUME GridInv, NEW f \in fetches, RemoteShown(f)
  PROVE  GridInv'
  <1>1. /\ UNCHANGED <<nav, tab, page, buf>> /\ Fits(f)
        /\ searching' = (searching \/ f.typed > 0)
        /\ \E count : shown' = Answer(f, count)
    BY DEF RemoteShown, input
  <1>2. CASE Refetch(fetches \ {f})
    BY <1>1, <1>2, RefetchKeeps DEF GridInv
  <1>3. CASE /\ fetches' = fetches \ {f} /\ loading' = FALSE
             /\ UNCHANGED started
    <2>1. ThreadsOK' /\ Reason'
      BY <1>1, <1>3 DEF GridInv, ThreadsOK, Reason
    <2>2. shown'.id = f.id /\ shown'.typed = f.typed /\ shown'.category = f.category
      BY <1>1 DEF Answer
    <2>3. f.id \in Nat /\ f.id > 0 /\ f.typed \in Nat
      BY DEF GridInv, ThreadsOK
    <2>4. f.typed = 0 => f.category = current_remote_category'
      BY <1>1 DEF Fits, current_remote_category
    <2>5. CASE f.typed = 0
      BY <2>1, <2>2, <2>3, <2>4, <2>5 DEF ShownIsSelected, GridInv
    <2>6. CASE f.typed > 0
      <3>1. searching'
        BY <1>1, <2>6
      <3> QED
        BY <2>1, <2>2, <2>6, <3>1 DEF ShownIsSelected, GridInv
    <2> QED
      BY <2>3, <2>5, <2>6
  <1> QED
    BY <1>2, <1>3 DEF RemoteShown

LEMMA RemoteDroppedKeeps ==
  ASSUME GridInv, NEW f \in fetches, RemoteDropped(f)
  PROVE  GridInv'
  <1>1. /\ UNCHANGED <<nav, tab, searching, buf, shown, loading, started>>
        /\ fetches' = fetches \ {f}
        /\ fate' = IF f.id = started /\ fate = "asked" THEN "dropped" ELSE fate
    BY DEF RemoteDropped, FateOf, select, input
  <1>2. ThreadsOK'
    BY <1>1 DEF GridInv, ThreadsOK
  <1>3. Reason'
    BY <1>1 DEF GridInv, Reason
  <1>4. ShownIsSelected'
    BY <1>1 DEF GridInv, ShownIsSelected, current_remote_category
  <1> QED
    BY <1>2, <1>3, <1>4 DEF GridInv

LEMMA RankingReadyKeeps ==
  ASSUME RankingInv, NEW f \in rfetches, RankingReady(f)
  PROVE  RankingInv'
  <1>1. /\ UNCHANGED <<nav, rtab, page, rstarted>> /\ rfetches' = rfetches \ {f}
        /\ f.page \in Int
    BY DEF RankingReady, select, RankingInv, RankingPagesOK
  <1>2. CASE RankingFits(f)
    <2>1. rlist'.tab = f.tab /\ rlist'.page = f.page /\ rloading' = FALSE
      BY <1>2 DEF RankingReady
    <2>2. nav = "ranking" => f.page = page + 1
      BY <1>1, <1>2 DEF RankingFits, RankingInv, RankingPagesOK
    <2> QED
      BY <1>1, <1>2, <2>1, <2>2
        DEF RankingInv, RankingReason, RankingPagesOK, RankingIsSelected, RankingFits
  <1>3. CASE ~RankingFits(f)
    <2>1. /\ UNCHANGED <<rlist, rloading>>
          /\ rfate' = IF f.id = rstarted /\ rfate = "asked" THEN "dropped" ELSE rfate
      BY <1>3 DEF RankingReady, RankingFateOf
    <2> QED
      BY <1>1, <2>1 DEF RankingInv, RankingReason, RankingPagesOK, RankingIsSelected
  <1> QED
    BY <1>2, <1>3

LEMMA ArrivalAsks ==
  ASSUME GridInv, NEW f \in fetches, RemoteShown(f) \/ RemoteDropped(f)
  PROVE  Asks
  <1>1. CASE fetches' \subseteq fetches
    BY <1>1 DEF Asks
  <1>2. CASE RemoteShown(f) /\ refetch /\ Refetch(fetches \ {f})
    <2>1. /\ UNCHANGED <<nav, tab, page, buf>> /\ Fits(f)
          /\ searching' = (searching \/ f.typed > 0)
      BY <1>2 DEF RemoteShown, input
    <2> SUFFICES ASSUME NEW g \in fetches' \ fetches
                 PROVE  \/ g.page = page' + 1
                           /\ \/ g.typed = 0 /\ g.category = current_remote_category'
                              \/ g.typed > 0 /\ g.typed = buf'
                        \/ searching /\ (window' # window \/ refetch)
      BY DEF Asks
    <2>2. \/ searching' /\ g.typed = buf /\ g.page = 1
          \/ /\ g.typed = 0 /\ g.category = current_remote_category'
             /\ g.page = page' + 1
      BY <1>2, <2>1, RefetchKeeps DEF GridInv
    <2>3. CASE searching' /\ g.typed = buf /\ g.page = 1
      <3>1. searching \/ f.typed > 0
        BY <2>1, <2>3
      <3>2. CASE f.typed > 0
        <4>1. f.page = 1
          BY <3>2 DEF GridInv, ThreadsOK
        <4>2. f.typed = buf /\ f.page = page + 1
          BY <2>1, <3>2 DEF Fits
        <4> QED
          BY <2>1, <2>3, <3>2, <4>1, <4>2
      <3> QED
        BY <1>2, <3>1, <3>2
    <2> QED
      BY <2>2, <2>3
  <1> QED
    BY <1>1, <1>2 DEF RemoteShown, RemoteDropped

-----------------------------------------------------------------------------
(* The user *)

(* Steps that ask for nothing. *)
LEMMA NothingAsked ==
  ASSUME PagesInv, buf' \in Nat, nav' = "ranking" => page' \in {page, 0},
         UNCHANGED <<nav, tab, searching, shown, loading, fetches, started, fate>>,
         UNCHANGED <<rtab, ranking>>
  PROVE  PagesInv' /\ Asks
  <1>1. GridInv'
    BY GridStays DEF PagesInv
  <1>2. RankingInv'
    BY RankingStays DEF PagesInv, ranking
  <1> QED
    BY <1>1, <1>2 DEF PagesInv, Asks

LEMMA KeysKeep ==
  ASSUME PagesInv, handle_text_input \/ Backspace \/ Escape
  PROVE  PagesInv' /\ Asks
  <1>1. buf' \in Nat
    BY DEF handle_text_input, Backspace, Escape, AtLeast, PagesInv, GridInv, ThreadsOK
  <1>2. /\ UNCHANGED <<nav, tab, page, searching, shown, loading, fetches, started, fate>>
        /\ UNCHANGED <<rtab, ranking>>
    BY DEF handle_text_input, Backspace, Escape, Key, NoFetch
  <1> QED
    BY <1>1, <1>2, NothingAsked

LEMMA FramesKeep ==
  ASSUME PagesInv, DrawAll
  PROVE  PagesInv' /\ Asks
  <1>1. /\ UNCHANGED <<nav, tab, searching, shown, loading, fetches, started, fate>>
        /\ UNCHANGED <<rtab, ranking, buf>>
    BY DEF DrawAll, grid
  <1>2. nav' = "ranking" => page' = page
    BY <1>1 DEF DrawAll, PageLaidOut, GridNavs
  <1>3. buf' \in Nat
    BY <1>1 DEF PagesInv, GridInv, ThreadsOK
  <1> QED
    BY <1>1, <1>2, <1>3, NothingAsked

LEMMA EnterKeeps ==
  ASSUME PagesInv, Enter
  PROVE  PagesInv' /\ Asks
  <1>1. /\ UNCHANGED <<nav, tab, rtab, searching, shown, ranking, buf>> /\ buf \in Nat
    BY DEF Enter, Key, PagesInv, GridInv, ThreadsOK
  <1>2. CASE NoFetch /\ UNCHANGED page
    BY <1>1, <1>2, NothingAsked DEF NoFetch
  <1>3. CASE buf > 0 /\ page' = 0 /\ start_remote_fetch(fetches, buf, NoCategory, 1)
    <2>1. /\ GridInv'
          /\ \A f \in fetches' \ fetches : f.typed = buf /\ f.page = 1
      BY <1>1, <1>3, Started DEF PagesInv, GridInv
    <2>2. RankingInv'
      BY <1>1, <1>3, RankingStays DEF PagesInv, ranking, RankingInv, RankingPagesOK
    <2> QED
      BY <1>1, <1>3, <2>1, <2>2 DEF PagesInv, Asks
  <1> QED
    BY <1>2, <1>3 DEF Enter

LEMMA ResizeKeeps ==
  ASSUME PagesInv, NEW w \in Windows, Resize(w)
  PROVE  PagesInv' /\ Asks
  <1>1. /\ UNCHANGED <<nav, tab, rtab, page, searching, shown, ranking, buf>>
        /\ window' # window /\ buf \in Nat
    BY DEF Resize, select, PagesInv, GridInv, ThreadsOK
  <1>2. CASE UNCHANGED <<loading, fetches, started, fate>>
    BY <1>1, <1>2, NothingAsked
  <1>3. CASE Refetch(fetches)
    <2>1. /\ GridInv'
          /\ \A f \in fetches' \ fetches :
               \/ searching' /\ f.typed = buf /\ f.page = 1
               \/ /\ f.typed = 0 /\ f.category = current_remote_category'
                  /\ f.page = page' + 1
      BY <1>1, <1>3, RefetchKeeps DEF PagesInv, GridInv
    <2>2. RankingInv'
      BY <1>1, RankingStays DEF PagesInv, ranking
    <2>3. Asks
      BY <1>1, <2>1 DEF Asks
    <2> QED
      BY <2>1, <2>2, <2>3 DEF PagesInv
  <1> QED
    BY <1>2, <1>3 DEF Resize

-----------------------------------------------------------------------------
(* Clicks *)

LEMMA NavKeeps ==
  ASSUME PagesInv, NEW n \in Navs, store_ui_trigger_change_nav(n)
  PROVE  PagesInv' /\ Asks
  <1>1. /\ nav' = n /\ page' = 0 /\ UNCHANGED <<rtab, rlist, buf, shown>>
        /\ n \in {"all", "recommended"} => tab' = "all"
        /\ buf' \in Nat
    BY DEF store_ui_trigger_change_nav, Clicked, PagesInv, GridInv, ThreadsOK
  <1>2. GridInv' /\ Asks
    <2>1. CASE n \in GridNavs
      <3>1. PICK category : category = CategoryOfNav(n)
        OBVIOUS
      <3>2. start_remote_fetch(fetches, 0, category, 1)
        BY <2>1, <3>1 DEF store_ui_trigger_change_nav
      <3>3. category = current_remote_category'
        BY <1>1, <3>1 DEF current_remote_category, CategoryOfNav, CategoryOfTab
      <3>4. /\ ThreadsOK' /\ Reason' /\ ShownIsSelected'
            /\ \A f \in fetches' \ fetches :
                 f.typed = 0 /\ f.category = category /\ f.page = 1
        BY <1>1, <3>2, Started DEF PagesInv, GridInv
      <3> QED
        BY <1>1, <3>3, <3>4 DEF GridInv, Asks
    <2>2. CASE n \notin GridNavs
      <3>1. UNCHANGED <<loading, fetches, started, fate>>
        BY <2>2 DEF store_ui_trigger_change_nav
      <3> QED
        BY <1>1, <2>2, <3>1
          DEF PagesInv, GridInv, ThreadsOK, Reason, ShownIsSelected, Asks
    <2> QED
      BY <2>1, <2>2
  <1>3. RankingInv'
    <2>1. CASE n = "ranking"
      BY <1>1, <2>1, RankingStarted DEF store_ui_trigger_change_nav, PagesInv
    <2>2. CASE n # "ranking"
      BY <1>1, <2>2, RankingStays
        DEF store_ui_trigger_change_nav, NoRankingFetch, PagesInv
    <2> QED
      BY <2>1, <2>2
  <1> QED
    BY <1>2, <1>3 DEF PagesInv

LEMMA CategoryTabKeeps ==
  ASSUME PagesInv, NEW t \in Tabs, store_ui_trigger_change_category_tab(t)
  PROVE  PagesInv' /\ Asks
  <1>1. /\ nav = "all" /\ tab' = t /\ page' = 0 /\ buf' \in Nat
        /\ UNCHANGED <<nav, rtab, ranking>>
    BY DEF store_ui_trigger_change_category_tab, Clicked, PagesInv, GridInv, ThreadsOK
  <1>2. PICK category : category = CategoryOfTab(t)
    OBVIOUS
  <1>3. start_remote_fetch(fetches, 0, category, 1)
    BY <1>2 DEF store_ui_trigger_change_category_tab
  <1>4. category = current_remote_category'
    BY <1>1, <1>2 DEF current_remote_category
  <1>5. /\ GridInv'
        /\ \A f \in fetches' \ fetches :
             f.typed = 0 /\ f.category = category /\ f.page = 1
    BY <1>1, <1>3, Started DEF PagesInv, GridInv
  <1>6. RankingInv'
    BY <1>1, RankingStays DEF PagesInv, ranking
  <1> QED
    BY <1>1, <1>4, <1>5, <1>6 DEF PagesInv, Asks

LEMMA RankingTabKeeps ==
  ASSUME PagesInv, NEW t, store_ui_trigger_change_ranking_tab(t)
  PROVE  PagesInv' /\ Asks
  <1>1. /\ page' = 0 /\ buf' \in Nat /\ start_ranking_fetch(t, 1)
        /\ UNCHANGED <<nav, tab, searching, shown, loading, fetches, started, fate>>
    BY DEF store_ui_trigger_change_ranking_tab, Clicked, PagesInv, GridInv, ThreadsOK
  <1>2. GridInv'
    BY <1>1, GridStays DEF PagesInv
  <1>3. RankingInv'
    BY <1>1, RankingStarted DEF PagesInv
  <1> QED
    BY <1>1, <1>2, <1>3 DEF PagesInv, Asks

LEMMA RemotePageKeeps ==
  ASSUME PagesInv, NEW step, store_ui_trigger_remote_page(step)
  PROVE  PagesInv' /\ Asks
  <1>1. /\ nav \in GridNavs /\ buf' \in Nat
        /\ UNCHANGED <<nav, tab, rtab, searching, shown, ranking>>
    BY DEF store_ui_trigger_remote_page, Clicked, PagesInv, GridInv, ThreadsOK
  <1>2. nav' # "ranking"
    BY <1>1 DEF GridNavs
  <1>3. CASE NoFetch
    BY <1>1, <1>2, <1>3, NothingAsked DEF NoFetch
  <1>4. CASE start_remote_fetch(fetches, 0, current_remote_category, page' + 1)
    <2>1. PICK category, p : category = current_remote_category /\ p = page' + 1
      OBVIOUS
    <2>2. start_remote_fetch(fetches, 0, category, p)
      BY <1>4, <2>1
    <2>3. category = current_remote_category'
      BY <1>1, <2>1 DEF current_remote_category
    <2>4. /\ GridInv'
          /\ \A f \in fetches' \ fetches :
               f.typed = 0 /\ f.category = category /\ f.page = p
      BY <1>1, <2>2, Started DEF PagesInv, GridInv
    <2>5. RankingInv'
      BY <1>1, <1>2, RankingStays DEF PagesInv, ranking
    <2> QED
      BY <2>1, <2>3, <2>4, <2>5 DEF PagesInv, Asks
  <1> QED
    BY <1>3, <1>4 DEF store_ui_trigger_remote_page

LEMMA RankingPageKeeps ==
  ASSUME PagesInv, NEW step \in {-1, 1}, store_ui_trigger_change_ranking_page(step)
  PROVE  PagesInv' /\ Asks
  <1>1. /\ nav = "ranking" /\ page \in Int /\ page' = page + step /\ buf' \in Nat
        /\ start_ranking_fetch(rtab, page' + 1)
        /\ UNCHANGED <<nav, tab, searching, shown, loading, fetches, started, fate>>
    BY DEF store_ui_trigger_change_ranking_page, Clicked,
           PagesInv, GridInv, ThreadsOK, RankingInv, RankingPagesOK
  <1>2. GridInv'
    BY <1>1, GridStays DEF PagesInv
  <1>3. PICK p \in Int : p = page' + 1
    BY <1>1
  <1>4. start_ranking_fetch(rtab, p)
    BY <1>1, <1>3
  <1>5. page' \in Int
    BY <1>1
  <1>6. RankingInv'
    BY <1>4, <1>5, RankingStarted DEF PagesInv
  <1> QED
    BY <1>1, <1>2, <1>6 DEF PagesInv, Asks

-----------------------------------------------------------------------------
(* Every step *)

LEMMA PagesInit == Init => PagesInv
  <1> SUFFICES ASSUME Init PROVE PagesInv
    OBVIOUS
  <1>1. PICK first : first = Request(1, 0, "__welcome__", 1, PageSize(cards, nav), window)
    OBVIOUS
  <1>2. first.id = 1 /\ first.typed = 0 /\ first.page = 1
    BY <1>1 DEF Request
  <1>3. fetches = {first} /\ started = 1 /\ buf = 0 /\ loading = TRUE /\ fate = "asked"
    BY <1>1 DEF Init
  <1>4. nav = "recommended" /\ rfetches = {} /\ rloading = FALSE
    BY DEF Init
  <1> QED
    BY <1>2, <1>3, <1>4
      DEF PagesInv, GridInv, ThreadsOK, Reason, ShownIsSelected,
          RankingInv, RankingReason, RankingPagesOK, RankingIsSelected

LEMMA PagesStep == PagesInv /\ [Next]_vars => PagesInv' /\ [Asks]_vars
  <1> SUFFICES ASSUME PagesInv, [Next]_vars PROVE PagesInv' /\ Asks
    OBVIOUS
  <1>1. CASE User
    <2>1. CASE handle_text_input \/ Backspace \/ Escape
      BY <2>1, KeysKeep
    <2>2. CASE Enter
      BY <2>2, EnterKeeps
    <2>3. CASE \E w \in Windows : Resize(w)
      BY <2>3, ResizeKeeps
    <2>4. CASE \E onSearch \in BOOLEAN : RedrawFor(onSearch)
      BY <2>4, FramesKeep DEF RedrawFor
    <2>5. CASE \E n \in Navs : store_ui_trigger_change_nav(n)
      BY <2>5, NavKeeps
    <2>6. CASE \E t \in Tabs : store_ui_trigger_change_category_tab(t)
      BY <2>6, CategoryTabKeeps
    <2>7. CASE \E t \in {0, 1} : store_ui_trigger_change_ranking_tab(t)
      BY <2>7, RankingTabKeeps
    <2>8. CASE \E step \in {-1, 1} : store_ui_trigger_remote_page(step)
      BY <2>8, RemotePageKeeps
    <2>9. CASE \E step \in {-1, 1} : store_ui_trigger_change_ranking_page(step)
      BY <2>9, RankingPageKeeps
    <2> QED
      BY <1>1, <2>1, <2>2, <2>3, <2>4, <2>5, <2>6, <2>7, <2>8, <2>9 DEF User
  <1>2. CASE Redraw
    BY <1>2, FramesKeep DEF Redraw
  <1>3. ASSUME NEW f \in fetches, RemoteShown(f) \/ RemoteDropped(f)
        PROVE  PagesInv' /\ Asks
    <2>1. GridInv' /\ Asks
      BY <1>3, RemoteShownKeeps, RemoteDroppedKeeps, ArrivalAsks DEF PagesInv
    <2>2. RankingInv'
      BY <1>3, RankingStays DEF RemoteShown, RemoteDropped, PagesInv, ranking, select
    <2> QED
      BY <2>1, <2>2 DEF PagesInv
  <1>4. ASSUME NEW f \in rfetches, RankingReady(f)
        PROVE  PagesInv' /\ Asks
    <2>1. RankingInv'
      BY <1>4, RankingReadyKeeps DEF PagesInv
    <2>2. UNCHANGED <<nav, tab, searching, buf, shown, loading, fetches, started, fate>>
      BY <1>4 DEF RankingReady, select, input, grid
    <2>3. buf' \in Nat
      BY <2>2 DEF PagesInv, GridInv, ThreadsOK
    <2>4. GridInv'
      BY <2>2, <2>3, GridStays DEF PagesInv
    <2> QED
      BY <2>1, <2>2, <2>4 DEF PagesInv, Asks
  <1>5. CASE UNCHANGED vars
    <2>1. /\ UNCHANGED <<nav, tab, page, searching, buf, shown, loading, fetches, started, fate>>
          /\ UNCHANGED <<rtab, ranking>>
      BY <1>5 DEF vars, select, input, grid
    <2>2. buf' \in Nat
      BY <2>1 DEF PagesInv, GridInv, ThreadsOK
    <2> QED
      BY <2>1, <2>2, NothingAsked
  <1> QED
    BY <1>1, <1>2, <1>3, <1>4, <1>5 DEF Next, Arrival

LEMMA PagesInvariant == Spec => []PagesInv
  <1>1. PagesInv /\ [Next]_vars => PagesInv'
    BY PagesStep
  <1> QED
    BY <1>1, PagesInit, PTL DEF Spec

(* However clicks, searches, resizes and late answers mix, a grid that is not
   loading holds the category that is selected or the last search: the test of
   handle_user_event is enough. *)
THEOREM GridShowsSelected == Spec => []ShownIsSelected
  <1>1. PagesInv => ShownIsSelected
    BY DEF PagesInv, GridInv
  <1> QED
    BY <1>1, PagesInvariant, PTL

(* The same of the ranking and its tab and page. *)
THEOREM RankingShowsSelected == Spec => []RankingIsSelected
  <1>1. PagesInv => RankingIsSelected
    BY DEF PagesInv, RankingInv
  <1> QED
    BY <1>1, PagesInvariant, PTL

(* Each path that starts a thread, refuses one or drops an answer leaves
   loading_remote and loading_ranking with a reason. *)
THEOREM LoadingReasons == Spec => []LoadingHasReason
  <1>1. PagesInv => LoadingHasReason
    BY DEF PagesInv, GridInv, RankingInv, Reason, RankingReason, LoadingHasReason
  <1> QED
    BY <1>1, PagesInvariant, PTL

(* Every handler asks for what it has just selected. *)
THEOREM PagesAskForSelected == Spec => AsksForSelected
  <1>1. PagesInv /\ [Next]_vars => [Asks]_vars
    BY PagesStep
  <1>2. Spec => [][Asks]_vars
    BY <1>1, PagesInvariant, PTL DEF Spec
  <1> QED
    BY <1>2, PTL DEF AsksForSelected, Asks

-----------------------------------------------------------------------------
(* Frames *)

(* A frame that shows the state leaves nothing to be drawn. *)
LEMMA ScreenIsEnough ==
  ASSUME drawn' = Screen'
  PROVE  SleepsDrawn'
  <1>1. CASE nav' \in GridNavs
    <2>1. nav' # "updates" /\ nav' # "ranking"
      BY <1>1 DEF GridNavs
    <2> QED
      BY <1>1, <2>1 DEF SleepsDrawn, Screen
  <1>2. CASE nav' = "ranking"
    <2>1. nav' \notin GridNavs
      BY <1>2 DEF GridNavs
    <2> QED
      BY <1>2, <2>1 DEF SleepsDrawn, Screen
  <1>3. CASE nav' \notin GridNavs /\ nav' # "ranking"
    BY <1>3 DEF SleepsDrawn
  <1> QED
    BY <1>1, <1>2, <1>3

LEMMA FrameDraws ==
  ASSUME DrawAll
  PROVE  SleepsDrawn'
  <1>1. drawn' = Screen /\ UNCHANGED <<nav, searching, loading, shown, rloading, rlist>>
    BY DEF DrawAll, grid, ranking
  <1>2. Screen' = Screen
    BY <1>1 DEF Screen, RankingHasCards
  <1> QED
    BY <1>1, <1>2, ScreenIsEnough

(* What the buttons of the pages change after the cards were laid out cannot be
   seen until an answer comes. *)
LEMMA RemotePageDraws ==
  ASSUME NEW step, store_ui_trigger_remote_page(step)
  PROVE  SleepsDrawn'
  <1>1. /\ nav \in GridNavs /\ ~loading /\ drawn' = Screen
        /\ UNCHANGED <<nav, shown>>
    BY DEF store_ui_trigger_remote_page, Clicked, GridHasCards
  <1>2. nav # "ranking" /\ nav # "updates"
    BY <1>1 DEF GridNavs
  <1>3. drawn'.nav = nav /\ drawn'.list = shown.id /\ drawn'.view # "skeleton"
    BY <1>1, <1>2 DEF Screen
  <1> QED
    BY <1>1, <1>2, <1>3 DEF SleepsDrawn

LEMMA RankingPageDraws ==
  ASSUME NEW step, store_ui_trigger_change_ranking_page(step)
  PROVE  SleepsDrawn'
  <1>1. nav' = "ranking" /\ (rloading' \/ rfate' = "refused")
    BY DEF store_ui_trigger_change_ranking_page, start_ranking_fetch
  <1>2. nav' \notin GridNavs
    BY <1>1 DEF GridNavs
  <1> QED
    BY <1>1, <1>2 DEF SleepsDrawn

LEMMA AnswersDraw ==
  ASSUME SleepsDrawn
  PROVE  /\ \A f \in fetches : RemoteShown(f) \/ RemoteDropped(f) => SleepsDrawn'
         /\ \A f \in rfetches : RankingReady(f) => SleepsDrawn'
  <1>1. ASSUME NEW f \in fetches, RemoteShown(f)
        PROVE  SleepsDrawn'
    BY <1>1 DEF RemoteShown, Repaint, SleepsDrawn
  <1>2. ASSUME NEW f \in fetches, RemoteDropped(f)
        PROVE  SleepsDrawn'
    BY <1>2 DEF RemoteDropped, select, ranking, SleepsDrawn
  <1>3. ASSUME NEW f \in rfetches, RankingReady(f)
        PROVE  SleepsDrawn'
    <2>1. UNCHANGED <<nav, loading, shown, drawn>>
      BY <1>3 DEF RankingReady, select, grid
    <2>2. CASE RankingFits(f)
      BY <1>3, <2>2 DEF RankingReady, Repaint, SleepsDrawn
    <2>3. CASE ~RankingFits(f)
      <3>1. UNCHANGED <<rlist, rloading, dirty>> /\ (rfate = "refused" => rfate' = "refused")
        BY <1>3, <2>3 DEF RankingReady, RankingFateOf
      <3> QED
        BY <2>1, <3>1 DEF SleepsDrawn
    <2> QED
      BY <2>2, <2>3
  <1> QED
    BY <1>1, <1>2, <1>3

LEMMA DrawnStep == SleepsDrawn /\ [Next]_vars => SleepsDrawn'
  <1> SUFFICES ASSUME SleepsDrawn, [Next]_vars PROVE SleepsDrawn'
    OBVIOUS
  <1>1. CASE User
    <2>1. CASE handle_text_input \/ Backspace \/ Escape \/ Enter
      BY <2>1 DEF handle_text_input, Backspace, Escape, Enter, Key, Repaint, SleepsDrawn
    <2>2. CASE \E w \in Windows : Resize(w)
      BY <2>2 DEF Resize, Repaint, SleepsDrawn
    <2>3. CASE \E onSearch \in BOOLEAN : RedrawFor(onSearch)
      BY <2>3, FrameDraws DEF RedrawFor
    <2>4. CASE \E n \in Navs : store_ui_trigger_change_nav(n)
      BY <2>4, ScreenIsEnough DEF store_ui_trigger_change_nav
    <2>5. CASE \E t \in Tabs : store_ui_trigger_change_category_tab(t)
      BY <2>5, ScreenIsEnough DEF store_ui_trigger_change_category_tab
    <2>6. CASE \E t \in {0, 1} : store_ui_trigger_change_ranking_tab(t)
      BY <2>6, ScreenIsEnough DEF store_ui_trigger_change_ranking_tab
    <2>7. CASE \E step \in {-1, 1} : store_ui_trigger_remote_page(step)
      BY <2>7, RemotePageDraws
    <2>8. CASE \E step \in {-1, 1} : store_ui_trigger_change_ranking_page(step)
      BY <2>8, RankingPageDraws
    <2> QED
      BY <1>1, <2>1, <2>2, <2>3, <2>4, <2>5, <2>6, <2>7, <2>8 DEF User
  <1>2. CASE Redraw
    BY <1>2, FrameDraws DEF Redraw
  <1>3. CASE Arrival \/ \E f \in rfetches : RankingReady(f)
    BY <1>3, AnswersDraw DEF Arrival
  <1>4. CASE UNCHANGED vars
    BY <1>4 DEF vars, select, grid, ranking, SleepsDrawn
  <1> QED
    BY <1>1, <1>2, <1>3, <1>4 DEF Next

(* Every handler leaves the frame with the state or asks for another one, also
   those the layout runs before main clears dirty. *)
THEOREM FramesShowState == Spec => []SleepsDrawn
  <1>1. Init => SleepsDrawn
    BY DEF Init, SleepsDrawn
  <1>2. SleepsDrawn /\ [Next]_vars => SleepsDrawn'
    BY DrawnStep
  <1> QED
    BY <1>1, <1>2, PTL DEF Spec

-----------------------------------------------------------------------------
(* Types. The parts of TypeOK, with what makes them inductive: the cards are
   those of the window, and a resize is good for one thread more at most. *)

SelectTypes ==
  /\ nav \in Navs \cup {"recommended"} /\ tab \in Tabs \cup {"all"}
  /\ rtab \in {0, 1} /\ page \in 0 .. MaxPages - 1 /\ searching \in BOOLEAN

InputTypes ==
  /\ buf \in 0 .. MaxTyped /\ focused \in BOOLEAN /\ dirty \in BOOLEAN
  /\ window \in Windows /\ cards = CardsOf(window)

ListTypes ==
  /\ total \in {0, Total} /\ lastCount \in 0 .. Total
  /\ shown.count \in 0 .. AtLeast(Total, Installed)
  /\ refetch \in BOOLEAN /\ kept \in BOOLEAN

RequestOK(f) ==
  /\ f.id \in Ids /\ f.typed \in 0 .. MaxTyped
  /\ f.category \in Categories /\ f.page \in 1 .. MaxPages
  /\ f.size \in Sizes /\ f.window \in Windows

FetchTypes ==
  /\ loading \in BOOLEAN /\ spared \in BOOLEAN /\ lastSize \in Sizes
  /\ fate \in {"asked", "shown", "dropped", "refused"}
  /\ \A f \in fetches : RequestOK(f)

RankingTypes ==
  /\ rloading \in BOOLEAN
  /\ rfate \in {"none", "asked", "shown", "dropped", "refused"}
  /\ \A f \in rfetches : f.id \in 1 .. MaxThreads /\ f.page \in 1 .. MaxPages

(* The user asks only below MaxThreads; a resize asks once, or leaves refetch
   for an answer to ask once. *)
ThreadsCounted ==
  /\ started \in Nat \ {0} /\ rstarted \in 0 .. MaxThreads
  /\ resized \in 0 .. MaxTroubles /\ refused \in Nat /\ empty \in Nat
  /\ started + rstarted <= MaxThreads + resized
  /\ refetch => resized > 0 /\ started + rstarted + 1 <= MaxThreads + resized

TypesInv ==
  /\ SelectTypes /\ InputTypes /\ ListTypes
  /\ FetchTypes /\ RankingTypes /\ ThreadsCounted

(* How many cards fit one of the windows. *)
LEMMA CardsOfWindow ==
  ASSUME NEW w \in Windows
  PROVE  /\ CardsOf(w) \in [{"headed", "bare", "paged", "whole"} -> Sizes]
         /\ CardsOf(w).headed \in Sizes /\ CardsOf(w).bare \in Sizes
         /\ CardsOf(w).paged \in Sizes /\ CardsOf(w).whole \in Sizes
         /\ CardsOf(w).headed = CardsOf(w).paged
         /\ CardsOf(w).headed <= CardsOf(w).bare
  <1>1. w.w \in Nat /\ w.h \in Nat
    BY PagesAssumption
  <1>2. PICK headed, bare, paged, whole :
          /\ headed = current_items_per_page(w, TRUE, TRUE)
          /\ bare = current_items_per_page(w, FALSE, TRUE)
          /\ paged = app_grid_spec(w, CONTENT_HEADER_H, TRUE)
          /\ whole = app_grid_spec(w, CONTENT_HEADER_H, FALSE)
    OBVIOUS
  <1>3. CardsOf(w) = [headed |-> headed, bare |-> bare, paged |-> paged, whole |-> whole]
    BY <1>2 DEF CardsOf
  <1>4. headed \in Sizes /\ bare \in Sizes
    BY <1>1, <1>2, CardCounts DEF Sizes
  <1>5. paged \in Sizes /\ whole \in Sizes
    BY <1>1, <1>2, CardCounts DEF Sizes
  <1>6. headed = paged /\ headed <= bare
    BY <1>1, <1>2, CardCounts, AsksForWhatIsLaidOut
  <1> QED
    BY <1>3, <1>4, <1>5, <1>6

LEMMA PageSizes ==
  ASSUME NEW w \in Windows, NEW n
  PROVE  PageSize(CardsOf(w), n) \in Sizes
  BY CardsOfWindow DEF PageSize

(* The server has no more of a page than the list. *)
LEMMA RecordsBound ==
  ASSUME NEW f, f.page \in Nat \ {0}, f.size \in Nat
  PROVE  Records(f) \in 0 .. Total
  <1>1. f.page - 1 \in Nat
    OBVIOUS
  <1>2. (f.page - 1) * f.size \in Nat
    BY <1>1, ProductsKeepOrder
  <1> QED
    BY <1>2, PagesAssumption DEF Records, AtLeast

(* The pages of the grid and of the ranking. *)
LEMMA PagesLaidOut ==
  ASSUME TypesInv
  PROVE  /\ GridLayoutNow.pages \in 1 .. MaxPages
         /\ PageLaidOut \in 0 .. MaxPages - 1
         /\ RankingPages \in 1 .. MaxPages
  <1>1. /\ cards.paged \in Nat \ {0} /\ cards.whole \in Nat \ {0}
    BY CardsOfWindow DEF TypesInv, InputTypes, Sizes
  <1>2. PICK records : records = IF total > 0 THEN total ELSE shown.count
    OBVIOUS
  <1>3. records \in 0 .. AtLeast(Total, Installed) /\ Total \in 0 .. AtLeast(Total, Installed)
    BY <1>2, PagesAssumption DEF TypesInv, ListTypes, AtLeast
  <1>4. ASSUME NEW r \in 0 .. AtLeast(Total, Installed)
        PROVE  LayoutOf(r).pages \in 1 .. MaxPages
    <2>1. r \in Nat
      OBVIOUS
    <2>2. LayoutOf(r).pages \in 1 .. AtLeast(1, r)
      BY <1>1, <2>1, LayoutBounds DEF LayoutOf
    <2> QED
      BY <2>2, PagesAssumption DEF MaxPages, AtLeast
  <1>5. GridLayoutNow.pages \in 1 .. MaxPages /\ RankingPages \in 1 .. MaxPages
    BY <1>2, <1>3, <1>4 DEF GridLayoutNow, RankingPages
  <1>6. page \in 0 .. MaxPages - 1 /\ MaxPages \in Nat
    BY PagesAssumption DEF TypesInv, SelectTypes, MaxPages, AtLeast
  <1> QED
    BY <1>5, <1>6 DEF PageLaidOut

(* Starting a thread, said once: it is refused, or one request is new. *)
Refused(others) ==
  /\ fetches' = others /\ loading' = FALSE /\ fate' = "refused"
  /\ lastSize' \in {lastSize, PageSize(cards', nav')}
  /\ refused' = refused + 1 /\ UNCHANGED <<started, spared>>

Asked(others, typed, category, p) ==
  /\ loading' = TRUE /\ fate' = "asked" /\ spared' = FALSE
  /\ lastSize' = PageSize(cards', nav')
  /\ started' = started + 1 /\ UNCHANGED refused
  /\ \E new :
       /\ fetches' = others \cup {new}
       /\ new.id = started + 1 /\ new.typed = typed /\ new.category = category
       /\ new.page = p /\ new.size = PageSize(cards', nav')
       /\ new.window = window'

LEMMA StartOutcome ==
  ASSUME NEW others, NEW typed, NEW category, NEW p,
         start_remote_fetch(others, typed, category, p)
  PROVE  Refused(others) \/ Asked(others, typed, category, p)
  <1>1. CASE FetchRefused(others)
    BY <1>1 DEF FetchRefused, Refused
  <1>2. CASE ~FetchRefused(others)
    <2>1. PICK new : new = NewFetch(typed, category, p)
      OBVIOUS
    <2>2. /\ new.id = started + 1 /\ new.typed = typed /\ new.category = category
          /\ new.page = p /\ new.size = PageSize(cards', nav') /\ new.window = window'
      BY <2>1 DEF NewFetch, Request
    <2>3. /\ fetches' = others \cup {new} /\ started' = started + 1
          /\ lastSize' = PageSize(cards', nav') /\ loading' = TRUE
          /\ spared' = FALSE /\ fate' = "asked" /\ UNCHANGED refused
      BY <1>2, <2>1 DEF start_remote_fetch
    <2> QED
      BY <2>2, <2>3 DEF Asked
  <1> QED
    BY <1>1, <1>2

LEMMA StartTypes ==
  ASSUME TypesInv, NEW others, others \subseteq fetches,
         NEW typed \in 0 .. MaxTyped, NEW category \in Categories, NEW p \in 1 .. MaxPages,
         start_remote_fetch(others, typed, category, p),
         InputTypes', started + 1 \in Ids
  PROVE  /\ FetchTypes'
         /\ refused' \in Nat
         /\ started' \in {started, started + 1}
  <1>1. PICK size : size = PageSize(cards', nav')
    OBVIOUS
  <1>2. size \in Sizes /\ window' \in Windows
    BY <1>1, PageSizes DEF InputTypes
  <1>3. /\ refused \in Nat /\ lastSize \in Sizes /\ spared \in BOOLEAN
        /\ \A f \in others : RequestOK(f)
    BY DEF TypesInv, ThreadsCounted, FetchTypes
  <1>4. CASE Refused(others)
    <2>1. lastSize' \in Sizes /\ refused' \in Nat /\ started' = started
      BY <1>1, <1>2, <1>3, <1>4 DEF Refused
    <2>2. /\ loading' \in BOOLEAN /\ spared' \in BOOLEAN /\ fate' = "refused"
          /\ \A f \in fetches' : RequestOK(f)
      BY <1>3, <1>4 DEF Refused
    <2> QED
      BY <2>1, <2>2 DEF FetchTypes
  <1>5. CASE Asked(others, typed, category, p)
    <2>1. PICK new :
            /\ fetches' = others \cup {new}
            /\ new.id = started + 1 /\ new.typed = typed /\ new.category = category
            /\ new.page = p /\ new.size = size /\ new.window = window'
      BY <1>1, <1>5 DEF Asked
    <2>2. RequestOK(new)
      BY <1>2, <2>1 DEF RequestOK
    <2>3. \A f \in fetches' : RequestOK(f)
      BY <1>3, <2>1, <2>2
    <2>4. /\ loading' \in BOOLEAN /\ spared' \in BOOLEAN /\ fate' = "asked"
          /\ lastSize' \in Sizes /\ refused' \in Nat /\ started' = started + 1
      BY <1>1, <1>2, <1>3, <1>5 DEF Asked
    <2> QED
      BY <2>3, <2>4 DEF FetchTypes
  <1> QED
    BY <1>4, <1>5, StartOutcome

(* A thread more after MoreThreads, or after a resize, is counted. *)
LEMMA ThreadsLeft ==
  ASSUME TypesInv
  PROVE  /\ MoreThreads => started + 1 \in Ids /\ rstarted + 1 \in 1 .. MaxThreads
         /\ resized < MaxTroubles => started + 1 \in Ids
         /\ refetch => started + 1 \in Ids
         /\ Calm => resized < MaxTroubles
         /\ started \in Ids
  BY PagesAssumption DEF TypesInv, ThreadsCounted, MoreThreads, Calm, Ids, ListTypes

LEMMA CategoriesFound ==
  /\ \A n : CategoryOfNav(n) \in Categories
  /\ \A t : CategoryOfTab(t) \in Categories
  /\ current_remote_category \in Categories
  BY DEF CategoryOfNav, CategoryOfTab, current_remote_category, Categories, NoCategory

(* The counts, by the three ways a thread is started. *)
LEMMA CountsStay ==
  ASSUME TypesInv, UNCHANGED <<started, rstarted, refetch, resized>>,
         refused' \in Nat, empty' \in Nat
  PROVE  ThreadsCounted'
  BY DEF TypesInv, ThreadsCounted

LEMMA CountsForUser ==
  ASSUME TypesInv, MoreThreads, UNCHANGED <<refetch, resized>>,
         refused' \in Nat, empty' \in Nat,
         \/ started' \in {started, started + 1} /\ UNCHANGED rstarted
         \/ rstarted' \in {rstarted, rstarted + 1} /\ UNCHANGED started
  PROVE  ThreadsCounted'
  BY PagesAssumption DEF TypesInv, ThreadsCounted, MoreThreads

LEMMA CountsForResize ==
  ASSUME TypesInv, Calm, resized' = resized + 1, UNCHANGED rstarted,
         refused' \in Nat, empty' \in Nat,
         \/ started' \in {started, started + 1} /\ UNCHANGED refetch
         \/ started' = started
  PROVE  ThreadsCounted'
  BY ThreadsLeft, PagesAssumption DEF TypesInv, ThreadsCounted

LEMMA CountsForAnswer ==
  ASSUME TypesInv, refetch' = FALSE, UNCHANGED <<rstarted, resized>>,
         refused' \in Nat, empty' \in Nat,
         started' = started \/ (refetch /\ started' \in {started, started + 1})
  PROVE  ThreadsCounted'
  <1>1. /\ started \in Nat \ {0} /\ rstarted \in 0 .. MaxThreads
        /\ resized \in 0 .. MaxTroubles /\ rstarted' = rstarted /\ resized' = resized
        /\ started + rstarted <= MaxThreads + resized
        /\ MaxThreads \in Nat
    BY PagesAssumption DEF TypesInv, ThreadsCounted
  <1>2. CASE started' = started
    BY <1>1, <1>2 DEF ThreadsCounted
  <1>3. CASE refetch /\ started' \in {started, started + 1}
    <2>1. started + rstarted + 1 <= MaxThreads + resized
      BY <1>3 DEF TypesInv, ThreadsCounted
    <2>2. PICK next : next = started' /\ next \in {started, started + 1}
      BY <1>3
    <2>3. next \in Nat \ {0}
      BY <1>1, <2>2
    <2>4. next = started \/ next = started + 1
      BY <2>2
    <2>5. next + rstarted <= MaxThreads + resized
      BY <1>1, <2>1, <2>4
    <2> QED
      BY <1>1, <2>2, <2>3, <2>5 DEF ThreadsCounted
  <1> QED
    BY <1>2, <1>3

(* The parts of the state a step leaves alone keep their types. *)
LEMMA TypesStay ==
  ASSUME TypesInv
  PROVE  /\ UNCHANGED <<window, cards>> /\ buf' \in 0 .. MaxTyped
              /\ focused' \in BOOLEAN /\ dirty' \in BOOLEAN => InputTypes'
         /\ UNCHANGED <<shown, total, refetch, lastCount, kept>> => ListTypes'
         /\ UNCHANGED <<loading, lastSize, fetches, started, spared, fate>> => FetchTypes'
         /\ UNCHANGED <<rloading, rfetches, rfate>> => RankingTypes'
         /\ buf \in 0 .. MaxTyped /\ focused \in BOOLEAN /\ dirty \in BOOLEAN
         /\ refused \in Nat /\ empty \in Nat
         /\ page \in 0 .. MaxPages - 1 /\ 0 \in 0 .. MaxPages - 1 /\ 1 \in 1 .. MaxPages
  <1>1. MaxPages \in Nat \ {0}
    BY PagesAssumption DEF MaxPages, AtLeast
  <1>2. UNCHANGED <<window, cards>> => CardsOf(window)' = CardsOf(window)
    OBVIOUS
  <1>3. UNCHANGED <<window, cards>> /\ buf' \in 0 .. MaxTyped
              /\ focused' \in BOOLEAN /\ dirty' \in BOOLEAN => InputTypes'
    BY <1>2 DEF TypesInv, InputTypes
  <1>4. UNCHANGED <<shown, total, refetch, lastCount, kept>> => ListTypes'
    BY DEF TypesInv, ListTypes
  <1>5. UNCHANGED <<loading, lastSize, fetches, started, spared, fate>> => FetchTypes'
    BY DEF TypesInv, FetchTypes
  <1>6. UNCHANGED <<rloading, rfetches, rfate>> => RankingTypes'
    BY DEF TypesInv, RankingTypes
  <1> QED
    BY <1>1, <1>3, <1>4, <1>5, <1>6
      DEF TypesInv, InputTypes, ThreadsCounted, SelectTypes

LEMMA RankingStartTypes ==
  ASSUME TypesInv, MoreThreads, NEW t, NEW p \in 1 .. MaxPages, start_ranking_fetch(t, p)
  PROVE  /\ RankingTypes' /\ refused' \in Nat
         /\ rstarted' \in {rstarted, rstarted + 1}
  <1>1. /\ rstarted + 1 \in 1 .. MaxThreads /\ refused \in Nat
        /\ \A f \in rfetches : f.id \in 1 .. MaxThreads /\ f.page \in 1 .. MaxPages
    BY ThreadsLeft DEF TypesInv, RankingTypes, ThreadsCounted
  <1>2. PICK new : new = [id |-> rstarted + 1, tab |-> t, page |-> p]
    OBVIOUS
  <1>3. new.id = rstarted + 1 /\ new.page = p
    BY <1>2
  <1>4. CASE rfetches' = rfetches \cup {new} /\ rstarted' = rstarted + 1
             /\ rloading' = TRUE /\ rfate' = "asked" /\ UNCHANGED refused
    BY <1>1, <1>3, <1>4 DEF RankingTypes
  <1>5. CASE rfetches' = rfetches /\ rstarted' = rstarted
             /\ rloading' = FALSE /\ rfate' = "refused" /\ refused' = refused + 1
    <2>1. refused' \in Nat /\ rstarted' \in {rstarted, rstarted + 1}
      BY <1>1, <1>5
    <2>2. \A f \in rfetches' : f.id \in 1 .. MaxThreads /\ f.page \in 1 .. MaxPages
      BY <1>1, <1>5
    <2>3. rloading' \in BOOLEAN /\ rfate' = "refused"
      BY <1>5
    <2> QED
      BY <2>1, <2>2, <2>3 DEF RankingTypes
  <1> QED
    BY <1>2, <1>4, <1>5 DEF start_ranking_fetch

-----------------------------------------------------------------------------
(* Types, action by action *)

LEMMA KeysTyped ==
  ASSUME TypesInv, handle_text_input \/ Backspace \/ Escape
  PROVE  TypesInv'
  <1>1. /\ UNCHANGED <<nav, tab, rtab, page, searching, window, cards, resized>>
        /\ UNCHANGED <<shown, total, refetch, lastCount, kept, empty, refused>>
        /\ UNCHANGED <<loading, lastSize, fetches, started, spared, fate>>
        /\ UNCHANGED <<rloading, rfetches, rstarted, rfate>>
        /\ dirty' = TRUE
    BY DEF handle_text_input, Backspace, Escape, Key, NoFetch, Repaint, ranking
  <1>2. buf' \in 0 .. MaxTyped
    BY PagesAssumption
      DEF handle_text_input, Backspace, Escape, Key, AtLeast, TypesInv, InputTypes
  <1>3. focused' \in BOOLEAN
    BY DEF handle_text_input, Backspace, Escape, Key, TypesInv, InputTypes
  <1>4. InputTypes' /\ ListTypes' /\ FetchTypes' /\ RankingTypes'
    BY <1>1, <1>2, <1>3, TypesStay
  <1>5. SelectTypes' /\ ThreadsCounted'
    BY <1>1 DEF TypesInv, SelectTypes, ThreadsCounted
  <1> QED
    BY <1>4, <1>5 DEF TypesInv

LEMMA FramesTyped ==
  ASSUME TypesInv, DrawAll, focused' \in BOOLEAN, dirty' \in BOOLEAN
  PROVE  TypesInv'
  <1>1. /\ UNCHANGED <<nav, tab, rtab, searching, buf, window, cards, resized>>
        /\ UNCHANGED <<shown, total, refetch, lastCount, kept, empty, refused>>
        /\ UNCHANGED <<loading, lastSize, fetches, started, spared, fate>>
        /\ UNCHANGED <<rloading, rfetches, rstarted, rfate>>
        /\ page' = PageLaidOut
    BY DEF DrawAll, grid, ranking
  <1>2. InputTypes' /\ ListTypes' /\ FetchTypes' /\ RankingTypes'
    BY <1>1, TypesStay
  <1>3. page' \in 0 .. MaxPages - 1
    BY <1>1, PagesLaidOut
  <1>4. SelectTypes' /\ ThreadsCounted'
    BY <1>1, <1>3 DEF TypesInv, SelectTypes, ThreadsCounted
  <1> QED
    BY <1>2, <1>4 DEF TypesInv

LEMMA EnterTyped ==
  ASSUME TypesInv, Enter
  PROVE  TypesInv'
  <1>1. /\ UNCHANGED <<nav, tab, rtab, searching, buf, window, cards, resized>>
        /\ UNCHANGED <<shown, total, refetch, lastCount, kept, empty>>
        /\ UNCHANGED <<rloading, rfetches, rstarted, rfate>>
        /\ dirty' = TRUE /\ focused' = FALSE
    BY DEF Enter, Key, Repaint, ranking
  <1>2. InputTypes' /\ ListTypes' /\ RankingTypes'
    BY <1>1, TypesStay
  <1>3. CASE NoFetch /\ UNCHANGED page
    <2>1. FetchTypes'
      BY <1>3, TypesStay DEF NoFetch
    <2>2. SelectTypes' /\ ThreadsCounted'
      BY <1>1, <1>3 DEF NoFetch, TypesInv, SelectTypes, ThreadsCounted
    <2> QED
      BY <1>2, <2>1, <2>2 DEF TypesInv
  <1>4. CASE MoreThreads /\ page' = 0 /\ start_remote_fetch(fetches, buf, NoCategory, 1)
    <2>1. NoCategory \in Categories /\ started + 1 \in Ids
      BY <1>4, ThreadsLeft DEF Categories
    <2>2. FetchTypes' /\ refused' \in Nat /\ started' \in {started, started + 1}
      BY <1>2, <1>4, <2>1, TypesStay, StartTypes
    <2>3. empty' \in Nat
      BY <1>1, TypesStay
    <2>4. ThreadsCounted'
      BY <1>1, <1>4, <2>2, <2>3, CountsForUser
    <2>5. SelectTypes'
      BY <1>1, <1>4, TypesStay DEF TypesInv, SelectTypes
    <2> QED
      BY <1>2, <2>2, <2>4, <2>5 DEF TypesInv
  <1> QED
    BY <1>3, <1>4 DEF Enter

(* What a resize or an answer asks for again. *)
LEMMA RefetchTypes ==
  ASSUME TypesInv, NEW others, others \subseteq fetches, Refetch(others),
         UNCHANGED <<nav, tab, page, buf>>, InputTypes', started + 1 \in Ids
  PROVE  /\ FetchTypes' /\ refused' \in Nat
         /\ started' \in {started, started + 1}
  <1>1. /\ page + 1 \in 1 .. MaxPages /\ 1 \in 1 .. MaxPages
        /\ buf \in 0 .. MaxTyped /\ 0 \in 0 .. MaxTyped
    BY TypesStay, PagesAssumption DEF MaxPages, AtLeast
  <1>2. CASE start_remote_fetch(others, buf, NoCategory, 1)
    <2>1. NoCategory \in Categories
      BY DEF Categories
    <2> QED
      BY <1>1, <1>2, <2>1, StartTypes
  <1>3. CASE start_remote_fetch(others, 0, current_remote_category, page + 1)
    <2>1. PICK category \in Categories : category = current_remote_category
      BY CategoriesFound
    <2>2. start_remote_fetch(others, 0, category, page + 1)
      BY <1>3, <2>1
    <2> QED
      BY <1>1, <2>2, StartTypes
  <1> QED
    BY <1>2, <1>3 DEF Refetch

LEMMA ResizeTyped ==
  ASSUME TypesInv, NEW w \in Windows, Resize(w)
  PROVE  TypesInv'
  <1>1. /\ UNCHANGED <<nav, tab, rtab, page, searching, buf, focused, empty>>
        /\ UNCHANGED <<shown, total, lastCount>>
        /\ UNCHANGED <<rloading, rfetches, rstarted, rfate>>
        /\ dirty' = TRUE /\ kept' = FALSE /\ window' = w /\ cards' = CardsOf(w)
        /\ resized' = resized + 1 /\ Calm
    BY DEF Resize, Repaint, select, ranking
  <1>2. InputTypes'
    BY <1>1, TypesStay DEF InputTypes
  <1>3. RankingTypes' /\ SelectTypes' /\ empty' \in Nat
    BY <1>1, TypesStay DEF TypesInv, SelectTypes
  <1>4. started + 1 \in Ids /\ refused \in Nat
    BY <1>1, ThreadsLeft, TypesStay
  <1>5. CASE Refetch(fetches) /\ UNCHANGED refetch
    <2>1. FetchTypes' /\ refused' \in Nat /\ started' \in {started, started + 1}
      BY <1>1, <1>2, <1>4, <1>5, RefetchTypes
    <2>2. ListTypes'
      BY <1>1, <1>5 DEF TypesInv, ListTypes
    <2>3. ThreadsCounted'
      BY <1>1, <1>3, <1>5, <2>1, CountsForResize
    <2> QED
      BY <1>2, <1>3, <2>1, <2>2, <2>3 DEF TypesInv
  <1>6. CASE /\ refetch' = RefetchLater
             /\ spared' = (spared \/ (fetches # {} /\ Outgrown /\ ~WantsMore))
             /\ UNCHANGED <<loading, lastSize, fetches, started, fate, refused>>
    <2>1. refetch' \in BOOLEAN /\ spared' \in BOOLEAN
      BY <1>6 DEF TypesInv, ListTypes, FetchTypes, RefetchLater
    <2>2. FetchTypes'
      BY <1>6, <2>1 DEF TypesInv, FetchTypes
    <2>3. ListTypes'
      BY <1>1, <2>1 DEF TypesInv, ListTypes
    <2>4. ThreadsCounted'
      BY <1>1, <1>3, <1>4, <1>6, CountsForResize
    <2> QED
      BY <1>2, <1>3, <2>2, <2>3, <2>4 DEF TypesInv
  <1> QED
    BY <1>5, <1>6 DEF Resize

LEMMA RemoteShownTyped ==
  ASSUME TypesInv, NEW f \in fetches, RemoteShown(f)
  PROVE  TypesInv'
  <1>1. /\ UNCHANGED <<nav, tab, rtab, page, buf, focused, window, cards, resized>>
        /\ UNCHANGED <<rloading, rfetches, rstarted, rfate>>
        /\ dirty' = TRUE /\ refetch' = FALSE
        /\ kept' = (f.window = window) /\ searching' = (searching \/ f.typed > 0)
        /\ lastCount' = shown'.count
    BY DEF RemoteShown, Repaint, input, ranking
  <1>2. InputTypes' /\ RankingTypes'
    BY <1>1, TypesStay
  <1>3. SelectTypes'
    BY <1>1 DEF TypesInv, SelectTypes
  <1>4. RequestOK(f) /\ Total \in Nat /\ Installed \in Nat
    BY PagesAssumption DEF TypesInv, FetchTypes
  <1>5. PICK answer \in 0 .. Total :
          shown'.count = answer /\ total' \in {0, Total} /\ empty' \in Nat
    <2>1. Records(f) \in 0 .. Total /\ 0 \in 0 .. Total
      BY <1>4, RecordsBound DEF RequestOK, Sizes
    <2>2. Answer(f, Records(f)).count = Records(f) /\ Answer(f, 0).count = 0
      BY DEF Answer
    <2>3. empty' \in Nat
      BY TypesStay DEF RemoteShown, PostFails
    <2> QED
      BY <2>1, <2>2, <2>3 DEF RemoteShown
  <1>6. ListTypes'
    <2>1. answer \in 0 .. AtLeast(Total, Installed)
      BY <1>4, <1>5 DEF AtLeast
    <2>2. kept' \in BOOLEAN /\ refetch' \in BOOLEAN
      BY <1>1
    <2> QED
      BY <1>1, <1>5, <2>1, <2>2 DEF ListTypes
  <1>7. CASE refetch /\ Refetch(fetches \ {f})
    <2>1. started + 1 \in Ids
      BY <1>7, ThreadsLeft
    <2>2. FetchTypes' /\ refused' \in Nat /\ started' \in {started, started + 1}
      BY <1>1, <1>2, <1>7, <2>1, RefetchTypes
    <2>3. ThreadsCounted'
      BY <1>1, <1>5, <1>7, <2>2, CountsForAnswer
    <2> QED
      BY <1>2, <1>3, <1>6, <2>2, <2>3 DEF TypesInv
  <1>8. CASE /\ fetches' = fetches \ {f} /\ loading' = FALSE
             /\ fate' = FateOf(f, "shown")
             /\ UNCHANGED <<lastSize, started, spared, refused>>
    <2>1. FetchTypes'
      BY <1>8 DEF TypesInv, FetchTypes, FateOf
    <2>2. ThreadsCounted'
      BY <1>1, <1>5, <1>8, TypesStay, CountsForAnswer
    <2> QED
      BY <1>2, <1>3, <1>6, <2>1, <2>2 DEF TypesInv
  <1> QED
    BY <1>7, <1>8 DEF RemoteShown

LEMMA RemoteDroppedTyped ==
  ASSUME TypesInv, NEW f \in fetches, RemoteDropped(f)
  PROVE  TypesInv'
  <1>1. /\ UNCHANGED <<nav, tab, rtab, page, searching, buf, focused, window, cards, resized>>
        /\ UNCHANGED <<shown, total, refetch, lastCount, kept, empty, refused, dirty>>
        /\ UNCHANGED <<loading, lastSize, started, spared>>
        /\ UNCHANGED <<rloading, rfetches, rstarted, rfate>>
        /\ fetches' = fetches \ {f} /\ fate' = FateOf(f, "dropped")
    BY DEF RemoteDropped, select, input, ranking
  <1>2. InputTypes' /\ ListTypes' /\ RankingTypes'
    BY <1>1, TypesStay
  <1>3. SelectTypes' /\ ThreadsCounted'
    BY <1>1 DEF TypesInv, SelectTypes, ThreadsCounted
  <1>4. FetchTypes'
    BY <1>1 DEF TypesInv, FetchTypes, FateOf
  <1> QED
    BY <1>2, <1>3, <1>4 DEF TypesInv

LEMMA RankingReadyTyped ==
  ASSUME TypesInv, NEW f \in rfetches, RankingReady(f)
  PROVE  TypesInv'
  <1>1. /\ UNCHANGED <<nav, tab, rtab, page, searching, buf, focused, window, cards, resized>>
        /\ UNCHANGED <<shown, total, refetch, lastCount, kept, refused>>
        /\ UNCHANGED <<loading, lastSize, fetches, started, spared, fate, rstarted>>
        /\ rfetches' = rfetches \ {f}
    BY DEF RankingReady, select, input, grid
  <1>2. dirty' \in BOOLEAN /\ empty' \in Nat /\ rloading' \in BOOLEAN
    <2>1. dirty' = TRUE \/ dirty' = dirty
      BY DEF RankingReady, Repaint
    <2>2. rloading' = FALSE \/ rloading' = rloading
      BY DEF RankingReady
    <2>3. empty' = empty + 1 \/ empty' = empty
      BY DEF RankingReady, PostFails
    <2>4. dirty' \in BOOLEAN
      BY <2>1, TypesStay
    <2>5. rloading' \in BOOLEAN
      BY <2>2 DEF TypesInv, RankingTypes
    <2> QED
      BY <2>3, <2>4, <2>5, TypesStay
  <1>3. rfate' \in {"none", "asked", "shown", "dropped", "refused"}
    BY DEF RankingReady, RankingFateOf, TypesInv, RankingTypes
  <1>4. RankingTypes'
    BY <1>1, <1>2, <1>3 DEF TypesInv, RankingTypes
  <1>5. InputTypes' /\ ListTypes' /\ FetchTypes'
    BY <1>1, <1>2, TypesStay
  <1>6. SelectTypes' /\ ThreadsCounted'
    BY <1>1, <1>2 DEF TypesInv, SelectTypes, ThreadsCounted
  <1> QED
    BY <1>4, <1>5, <1>6 DEF TypesInv

LEMMA NavTyped ==
  ASSUME TypesInv, NEW n \in Navs, store_ui_trigger_change_nav(n)
  PROVE  TypesInv'
  <1>1. /\ UNCHANGED <<rtab, buf, window, cards, resized, shown, refetch, lastCount, kept, empty>>
        /\ nav' = n /\ page' = 0 /\ total' = 0 /\ searching' = FALSE
        /\ tab' = (IF n \in {"all", "recommended"} THEN "all" ELSE tab)
        /\ focused' = FALSE /\ dirty' = FALSE
        /\ n # "updates" => MoreThreads
    BY DEF store_ui_trigger_change_nav, Clicked
  <1>2. InputTypes' /\ empty' \in Nat
    BY <1>1, TypesStay
  <1>3. SelectTypes'
    BY <1>1, TypesStay DEF TypesInv, SelectTypes
  <1>4. ListTypes'
    BY <1>1 DEF TypesInv, ListTypes
  <1>5. CASE n \in GridNavs
    <2>1. n # "ranking" /\ n # "updates"
      BY <1>5 DEF GridNavs
    <2>2. PICK category \in Categories : category = CategoryOfNav(n)
      BY CategoriesFound
    <2>3. start_remote_fetch(fetches, 0, category, 1) /\ MoreThreads
      BY <1>1, <1>5, <2>1, <2>2 DEF store_ui_trigger_change_nav
    <2>4. UNCHANGED <<rloading, rfetches, rstarted, rfate>>
      BY <2>1 DEF store_ui_trigger_change_nav, NoRankingFetch
    <2>5. started + 1 \in Ids /\ 0 \in 0 .. MaxTyped
      BY <2>3, ThreadsLeft, PagesAssumption
    <2>6. FetchTypes' /\ refused' \in Nat /\ started' \in {started, started + 1}
      BY <1>2, <2>3, <2>5, TypesStay, StartTypes
    <2>7. ThreadsCounted'
      BY <1>1, <1>2, <2>3, <2>4, <2>6, CountsForUser
    <2> QED
      BY <1>2, <1>3, <1>4, <2>4, <2>6, <2>7, TypesStay DEF TypesInv
  <1>6. CASE n = "ranking"
    <2>1. MoreThreads /\ start_ranking_fetch(rtab, 1)
      BY <1>1, <1>6 DEF store_ui_trigger_change_nav
    <2>2. UNCHANGED <<loading, lastSize, fetches, started, spared, fate>>
      BY <1>6 DEF store_ui_trigger_change_nav, GridNavs
    <2>3. RankingTypes' /\ refused' \in Nat /\ rstarted' \in {rstarted, rstarted + 1}
      BY <2>1, TypesStay, RankingStartTypes
    <2>4. ThreadsCounted'
      BY <1>1, <1>2, <2>1, <2>2, <2>3, CountsForUser
    <2> QED
      BY <1>2, <1>3, <1>4, <2>2, <2>3, <2>4, TypesStay DEF TypesInv
  <1>7. CASE n \notin GridNavs /\ n # "ranking"
    <2>1. n = "updates"
      BY <1>7, PagesAssumption DEF GridNavs
    <2>2. /\ UNCHANGED <<loading, lastSize, fetches, started, spared, fate>>
          /\ UNCHANGED <<rloading, rfetches, rstarted, rfate, refused>>
      BY <1>7, <2>1 DEF store_ui_trigger_change_nav, NoRankingFetch
    <2>3. ThreadsCounted'
      BY <1>1, <1>2, <2>2, TypesStay, CountsStay
    <2> QED
      BY <1>2, <1>3, <1>4, <2>2, <2>3, TypesStay DEF TypesInv
  <1> QED
    BY <1>5, <1>6, <1>7

LEMMA CategoryTabTyped ==
  ASSUME TypesInv, NEW t \in Tabs, store_ui_trigger_change_category_tab(t)
  PROVE  TypesInv'
  <1>1. /\ UNCHANGED <<nav, rtab, searching, buf, window, cards, resized>>
        /\ UNCHANGED <<shown, refetch, lastCount, kept, empty>>
        /\ UNCHANGED <<rloading, rfetches, rstarted, rfate>>
        /\ tab' = t /\ page' = 0 /\ total' = 0 /\ focused' = FALSE /\ dirty' = FALSE
        /\ MoreThreads
    BY DEF store_ui_trigger_change_category_tab, Clicked, ranking
  <1>2. InputTypes' /\ empty' \in Nat /\ RankingTypes'
    BY <1>1, TypesStay
  <1>3. SelectTypes' /\ ListTypes'
    BY <1>1, TypesStay DEF TypesInv, SelectTypes, ListTypes
  <1>4. PICK category \in Categories : category = CategoryOfTab(t)
    BY CategoriesFound
  <1>5. start_remote_fetch(fetches, 0, category, 1)
    BY <1>4 DEF store_ui_trigger_change_category_tab
  <1>6. started + 1 \in Ids /\ 0 \in 0 .. MaxTyped
    BY <1>1, ThreadsLeft, PagesAssumption
  <1>7. FetchTypes' /\ refused' \in Nat /\ started' \in {started, started + 1}
    BY <1>2, <1>5, <1>6, TypesStay, StartTypes
  <1>8. ThreadsCounted'
    BY <1>1, <1>2, <1>7, CountsForUser
  <1> QED
    BY <1>2, <1>3, <1>7, <1>8 DEF TypesInv

LEMMA RankingTabTyped ==
  ASSUME TypesInv, NEW t \in {0, 1}, store_ui_trigger_change_ranking_tab(t)
  PROVE  TypesInv'
  <1>1. /\ UNCHANGED <<nav, tab, searching, buf, window, cards, resized>>
        /\ UNCHANGED <<shown, total, refetch, lastCount, kept, empty>>
        /\ UNCHANGED <<loading, lastSize, fetches, started, spared, fate>>
        /\ rtab' = t /\ page' = 0 /\ focused' = FALSE /\ dirty' = FALSE
        /\ MoreThreads /\ start_ranking_fetch(t, 1)
    BY DEF store_ui_trigger_change_ranking_tab, Clicked
  <1>2. InputTypes' /\ empty' \in Nat /\ ListTypes' /\ FetchTypes'
    BY <1>1, TypesStay
  <1>3. SelectTypes'
    BY <1>1, TypesStay DEF TypesInv, SelectTypes
  <1>4. RankingTypes' /\ refused' \in Nat /\ rstarted' \in {rstarted, rstarted + 1}
    BY <1>1, TypesStay, RankingStartTypes
  <1>5. ThreadsCounted'
    BY <1>1, <1>2, <1>4, CountsForUser
  <1> QED
    BY <1>2, <1>3, <1>4, <1>5 DEF TypesInv

LEMMA RemotePageTyped ==
  ASSUME TypesInv, NEW step \in {-1, 1}, store_ui_trigger_remote_page(step)
  PROVE  TypesInv'
  <1>1. /\ UNCHANGED <<nav, tab, rtab, searching, buf, window, cards, resized>>
        /\ UNCHANGED <<shown, total, refetch, lastCount, kept, empty>>
        /\ UNCHANGED <<rloading, rfetches, rstarted, rfate>>
        /\ focused' = FALSE /\ dirty' = FALSE
        /\ page' = PageLaidOut + step /\ page' \in 0 .. GridLayoutNow.pages - 1
        /\ MoreThreads
    BY DEF store_ui_trigger_remote_page, Clicked, ranking
  <1>2. InputTypes' /\ ListTypes' /\ RankingTypes' /\ empty' \in Nat
    BY <1>1, TypesStay
  <1>3. page' \in 0 .. MaxPages - 1 /\ page' + 1 \in 1 .. MaxPages
    BY <1>1, PagesLaidOut, PagesAssumption DEF MaxPages, AtLeast
  <1>4. SelectTypes'
    BY <1>1, <1>3 DEF TypesInv, SelectTypes
  <1>5. CASE NoFetch
    <2>1. FetchTypes' /\ ThreadsCounted'
      BY <1>1, <1>2, <1>5, TypesStay, CountsStay DEF NoFetch
    <2> QED
      BY <1>2, <1>4, <2>1 DEF TypesInv
  <1>6. CASE ~NoFetch
    <2>1. PICK category \in Categories : category = current_remote_category
      BY CategoriesFound
    <2>2. PICK p \in 1 .. MaxPages : p = page' + 1
      BY <1>3
    <2>3. start_remote_fetch(fetches, 0, category, p)
      BY <1>6, <2>1, <2>2 DEF store_ui_trigger_remote_page
    <2>4. started + 1 \in Ids /\ 0 \in 0 .. MaxTyped
      BY <1>1, ThreadsLeft, PagesAssumption
    <2>5. FetchTypes' /\ refused' \in Nat /\ started' \in {started, started + 1}
      BY <1>2, <2>3, <2>4, TypesStay, StartTypes
    <2>6. ThreadsCounted'
      BY <1>1, <1>2, <2>5, CountsForUser
    <2> QED
      BY <1>2, <1>4, <2>5, <2>6 DEF TypesInv
  <1> QED
    BY <1>5, <1>6

LEMMA RankingPageTyped ==
  ASSUME TypesInv, NEW step \in {-1, 1}, store_ui_trigger_change_ranking_page(step)
  PROVE  TypesInv'
  <1>1. /\ UNCHANGED <<nav, tab, rtab, searching, buf, window, cards, resized>>
        /\ UNCHANGED <<shown, total, refetch, lastCount, kept, empty>>
        /\ UNCHANGED <<loading, lastSize, fetches, started, spared, fate>>
        /\ focused' = FALSE /\ dirty' = FALSE
        /\ page' = page + step /\ page' \in 0 .. RankingPages - 1
        /\ MoreThreads /\ start_ranking_fetch(rtab, page' + 1)
    BY DEF store_ui_trigger_change_ranking_page, Clicked
  <1>2. InputTypes' /\ ListTypes' /\ FetchTypes' /\ empty' \in Nat
    BY <1>1, TypesStay
  <1>3. page' \in 0 .. MaxPages - 1 /\ page' + 1 \in 1 .. MaxPages
    BY <1>1, PagesLaidOut, PagesAssumption DEF MaxPages, AtLeast
  <1>4. SelectTypes'
    BY <1>1, <1>3 DEF TypesInv, SelectTypes
  <1>5. PICK p \in 1 .. MaxPages : p = page' + 1
    BY <1>3
  <1>6. start_ranking_fetch(rtab, p)
    BY <1>1, <1>5
  <1>7. RankingTypes' /\ refused' \in Nat /\ rstarted' \in {rstarted, rstarted + 1}
    BY <1>1, <1>6, RankingStartTypes
  <1>8. ThreadsCounted'
    BY <1>1, <1>2, <1>7, CountsForUser
  <1> QED
    BY <1>2, <1>4, <1>7, <1>8 DEF TypesInv

LEMMA TypesInit == Init => TypesInv
  <1> SUFFICES ASSUME Init PROVE TypesInv
    OBVIOUS
  <1>1. StartWindow \in Windows /\ MaxPages \in Nat \ {0}
    BY PagesAssumption DEF MaxPages, AtLeast
  <1>2. window = StartWindow /\ cards = CardsOf(window)
    BY DEF Init
  <1>3. PICK size \in Sizes : size = PageSize(cards, nav)
    BY <1>1, <1>2, PageSizes
  <1>4. PICK first : first = Request(1, 0, "__welcome__", 1, size, window)
    OBVIOUS
  <1>5. /\ first.id = 1 /\ first.typed = 0 /\ first.category = "__welcome__"
        /\ first.page = 1 /\ first.size = size /\ first.window = window
    BY <1>4 DEF Request
  <1>6. fetches = {first} /\ lastSize = size
    BY <1>3, <1>4 DEF Init
  <1>7. RequestOK(first)
    BY <1>1, <1>2, <1>5, PagesAssumption DEF RequestOK, Ids, Categories
  <1>8. FetchTypes
    <2>1. loading = TRUE /\ spared = FALSE /\ fate = "asked"
      BY DEF Init
    <2> QED
      BY <1>6, <1>7, <2>1 DEF FetchTypes
  <1>9. shown.count = Installed
    BY DEF Init, InstalledList, Answer
  <1>10. ListTypes
    <2>1. total = 0 /\ lastCount = 0 /\ refetch \in BOOLEAN /\ kept \in BOOLEAN
      BY DEF Init
    <2>2. Installed \in 0 .. AtLeast(Total, Installed) /\ Total \in Nat
      BY PagesAssumption DEF AtLeast
    <2> QED
      BY <1>9, <2>1, <2>2 DEF ListTypes
  <1>11. SelectTypes
    <2>1. /\ nav = "recommended" /\ tab = "all" /\ rtab = 0 /\ page = 0
          /\ searching \in BOOLEAN
      BY DEF Init
    <2> QED
      BY <1>1, <2>1 DEF SelectTypes
  <1>12. RankingTypes
    <2>1. rloading = FALSE /\ rfate = "none" /\ rfetches = {}
      BY DEF Init
    <2> QED
      BY <2>1 DEF RankingTypes
  <1>13. ThreadsCounted
    <2>1. /\ started = 1 /\ rstarted = 0 /\ resized = 0 /\ refused = 0 /\ empty = 0
          /\ refetch = FALSE
      BY DEF Init
    <2> QED
      BY <2>1, PagesAssumption DEF ThreadsCounted
  <1>14. InputTypes
    <2>1. buf = 0 /\ focused \in BOOLEAN /\ dirty \in BOOLEAN
      BY DEF Init
    <2> QED
      BY <1>1, <1>2, <2>1, PagesAssumption DEF InputTypes
  <1> QED
    BY <1>8, <1>10, <1>11, <1>12, <1>13, <1>14 DEF TypesInv

LEMMA TypesStep == TypesInv /\ [Next]_vars => TypesInv'
  <1> SUFFICES ASSUME TypesInv, [Next]_vars PROVE TypesInv'
    OBVIOUS
  <1>1. CASE User
    <2>1. CASE \E onSearch \in BOOLEAN : RedrawFor(onSearch)
      BY <2>1, FramesTyped DEF RedrawFor
    <2>2. CASE handle_text_input \/ Backspace \/ Escape \/ Enter
      BY <2>2, KeysTyped, EnterTyped
    <2>3. CASE \/ \E w \in Windows : Resize(w)
               \/ \E n \in Navs : store_ui_trigger_change_nav(n)
               \/ \E t \in Tabs : store_ui_trigger_change_category_tab(t)
      BY <2>3, ResizeTyped, NavTyped, CategoryTabTyped
    <2>4. CASE \/ \E t \in {0, 1} : store_ui_trigger_change_ranking_tab(t)
               \/ \E step \in {-1, 1} :
                    \/ store_ui_trigger_remote_page(step)
                    \/ store_ui_trigger_change_ranking_page(step)
      BY <2>4, RankingTabTyped, RemotePageTyped, RankingPageTyped
    <2> QED
      BY <1>1, <2>1, <2>2, <2>3, <2>4 DEF User
  <1>2. CASE Redraw
    BY <1>2, FramesTyped DEF Redraw, TypesInv, InputTypes
  <1>3. CASE Arrival
    BY <1>3, RemoteShownTyped, RemoteDroppedTyped DEF Arrival
  <1>4. CASE \E f \in rfetches : RankingReady(f)
    BY <1>4, RankingReadyTyped
  <1>5. CASE UNCHANGED vars
    <2>1. /\ UNCHANGED <<nav, tab, rtab, page, searching, buf, focused, window, cards, resized>>
          /\ UNCHANGED <<shown, total, refetch, lastCount, kept, empty, refused, dirty>>
          /\ UNCHANGED <<loading, lastSize, fetches, started, spared, fate>>
          /\ UNCHANGED <<rloading, rfetches, rstarted, rfate>>
      BY <1>5 DEF vars, select, input, grid, ranking
    <2>2. InputTypes' /\ ListTypes' /\ FetchTypes' /\ RankingTypes'
      BY <2>1, TypesStay DEF TypesInv, InputTypes
    <2>3. SelectTypes' /\ ThreadsCounted'
      BY <2>1 DEF TypesInv, SelectTypes, ThreadsCounted
    <2> QED
      BY <2>2, <2>3 DEF TypesInv
  <1> QED
    BY <1>1, <1>2, <1>3, <1>4, <1>5 DEF Next

LEMMA TypesInvariant == Spec => []TypesInv
  <1>1. TypesInv /\ [Next]_vars => TypesInv'
    BY TypesStep
  <1> QED
    BY <1>1, TypesInit, PTL DEF Spec

(* Whatever the windows, the server and the clicks: the page never leaves the
   pages a list of the server or of the installed apps has, no request asks for
   none of them, and a window that grows brings one thread more at most, so
   that the ids and the sizes asked for are bounded. *)
THEOREM PagesTypes == Spec => []TypeOK
  <1>1. TypesInv => TypeOK
    <2> SUFFICES ASSUME TypesInv PROVE TypeOK
      OBVIOUS
    <2>1. /\ started \in Ids
          /\ cards \in [{"headed", "bare", "paged", "whole"} -> Sizes]
      BY ThreadsLeft, CardsOfWindow DEF TypesInv, InputTypes
    <2>2. /\ {focused, searching, loading, refetch, kept, spared, rloading, dirty}
               \subseteq BOOLEAN
      BY DEF TypesInv, SelectTypes, InputTypes, ListTypes, FetchTypes, RankingTypes
    <2> QED
      BY <2>1, <2>2
        DEF TypeOK, TypesInv, SelectTypes, InputTypes, ListTypes, FetchTypes,
            RequestOK, RankingTypes, ThreadsCounted
  <1> QED
    BY <1>1, TypesInvariant, PTL

-----------------------------------------------------------------------------
(* The page and the number on it. A request has the size of its window; the
   list at hand is the page that was asked for; and as long as the window is
   that of the request, the page is still the one that is numbered. *)

SizeOfWindow(f) ==
  \/ f.size = CardsOf(f.window).headed
  \/ f.page = 1 /\ f.size = CardsOf(f.window).bare

SizesAsked == \A f \in fetches : f.typed = 0 => SizeOfWindow(f)

ListAsked ==
  /\ shown.size \in Nat /\ shown.page \in Nat
  /\ total > 0 => shown.count = Records(shown)

PageAsked ==
  /\ shown.page = page + 1
  /\ \/ shown.size = cards.headed
     \/ shown.page = 1 /\ shown.size = cards.bare

KeptAsked ==
  nav \in GridNavs /\ ~loading /\ fate # "refused" /\ total > 0
    /\ shown.typed = 0 /\ kept => PageAsked

PageInv == SizesAsked /\ ListAsked /\ KeptAsked

(* Paging the list of the server by the size asked for, or its first page by
   the larger size of a page without a header, is what the layout does. *)
LEMMA NumberIsTrue ==
  ASSUME TypesInv, PageInv
  PROVE  PageIsTrue
  <1> SUFFICES ASSUME nav \in GridNavs, GridHasCards, fate # "refused",
                      shown.typed = 0, kept, total > 0
               PROVE  LET size == GridLayoutNow.size
                          laid == IF shown.count < size THEN shown.count ELSE size
                          rest == AtLeast(0, total - page * size)
                      IN /\ page < GridLayoutNow.pages
                         /\ (shown.page - 1) * shown.size = page * size
                         /\ laid = IF rest < size THEN rest ELSE size
    BY DEF PageIsTrue
  <1>1. ~loading /\ shown.count > 0
    BY DEF GridHasCards
  <1>2. PICK h, b, whole :
          /\ h = cards.headed /\ b = cards.bare /\ whole = cards.whole
          /\ cards.paged = h /\ h <= b
          /\ h \in Sizes /\ b \in Sizes /\ whole \in Sizes
    BY CardsOfWindow DEF TypesInv, InputTypes
  <1>3. h \in Nat \ {0} /\ b \in Nat /\ whole \in Nat \ {0} /\ h <= b
    BY <1>2 DEF Sizes
  <1>4. PICK count, s, p : count = shown.count /\ s = shown.size /\ p = page
    OBVIOUS
  <1>5. total = Total /\ Total \in Nat \ {0} /\ count \in Nat \ {0} /\ p \in Nat
    BY <1>1, <1>4, PagesAssumption DEF TypesInv, ListTypes, SelectTypes
  <1>6. s \in Nat /\ shown.page = p + 1 /\ (s = h \/ (p = 0 /\ s = b))
    BY <1>1, <1>2, <1>4, <1>5 DEF PageInv, ListAsked, KeptAsked, PageAsked
  <1>7. p * s \in Nat /\ shown.page - 1 = p
    BY <1>5, <1>6, ProductsKeepOrder
  <1>8. PICK rest : rest = AtLeast(0, Total - p * s)
    OBVIOUS
  <1>9. rest \in Nat /\ count = IF rest < s THEN rest ELSE s
    <2>1. count = Records(shown)
      BY <1>4 DEF PageInv, ListAsked
    <2>2. rest \in Nat
      BY <1>5, <1>7, <1>8 DEF AtLeast
    <2> QED
      BY <1>4, <1>7, <1>8, <2>1, <2>2 DEF Records
  <1>10. PICK layout : layout = Layout(h, whole, Total) /\ layout = GridLayoutNow
    BY <1>2, <1>5 DEF GridLayoutNow, LayoutOf
  <1>11. /\ p < layout.pages /\ layout.size \in Nat
         /\ p * s = p * layout.size
         /\ (IF count < layout.size THEN count ELSE layout.size)
              = IF rest < layout.size THEN rest ELSE layout.size
    <2>1. p * h \in Nat /\ 0 * h = 0 /\ 0 * s = 0
      BY <1>3, <1>5, <1>6, ProductsKeepOrder
    <2>2. p * s < Total
      BY <1>5, <1>7, <1>8, <1>9 DEF AtLeast
    <2>3. p * h < Total
      BY <1>6, <2>1, <2>2
    <2>4. /\ p < layout.pages
          /\ \/ layout.size = h /\ Total > h
             \/ layout.size = whole /\ Total <= h /\ p = 0
      <3>1. /\ h \in Nat \ {0} /\ whole \in Nat \ {0} /\ Total \in Nat /\ p \in Nat
            /\ layout = Layout(h, whole, Total)
        BY <1>3, <1>5, <1>10
      <3> QED
        BY <2>3, <3>1, LayoutTilesList
    <2>5. rest <= Total
      BY <1>5, <1>7, <1>8 DEF AtLeast
    <2>6. CASE layout.size = h
      <3>1. p * s = p * layout.size
        BY <1>6, <2>1, <2>6
      <3>2. (IF count < layout.size THEN count ELSE layout.size)
               = IF rest < layout.size THEN rest ELSE layout.size
        BY <1>3, <1>6, <1>9, <2>6
      <3> QED
        BY <1>3, <2>4, <2>6, <3>1, <3>2
    <2>7. CASE layout.size = whole /\ Total <= h /\ p = 0
      <3>1. p * s = p * layout.size
        BY <1>3, <1>6, <2>7
      <3>2. count = rest
        BY <1>3, <1>5, <1>6, <1>9, <2>5, <2>7
      <3> QED
        BY <1>3, <2>4, <2>7, <3>1, <3>2
    <2> QED
      BY <2>4, <2>6, <2>7
  <1>12. rest = AtLeast(0, total - page * layout.size)
    BY <1>4, <1>5, <1>8, <1>11
  <1> QED
    BY <1>4, <1>7, <1>10, <1>11, <1>12

LEMMA PageStarts ==
  ASSUME PageInv, NEW others, others \subseteq fetches, NEW typed, NEW category, NEW p,
         start_remote_fetch(others, typed, category, p), InputTypes',
         typed # 0 \/ p = 1 \/ nav' \in GridNavs
  PROVE  SizesAsked' /\ KeptAsked'
  <1>1. CASE Refused(others)
    <2>1. SizesAsked'
      BY <1>1 DEF Refused, PageInv, SizesAsked, SizeOfWindow
    <2>2. KeptAsked'
      BY <1>1 DEF Refused, KeptAsked
    <2> QED
      BY <2>1, <2>2
  <1>2. CASE Asked(others, typed, category, p)
    <2>1. PICK new :
            /\ fetches' = others \cup {new} /\ new.typed = typed /\ new.page = p
            /\ new.size = PageSize(cards', nav') /\ new.window = window'
      BY <1>2 DEF Asked
    <2>2. new.typed = 0 => SizeOfWindow(new)
      BY <2>1 DEF InputTypes, PageSize, SizeOfWindow
    <2>3. SizesAsked'
      BY <2>1, <2>2 DEF PageInv, SizesAsked, SizeOfWindow
    <2>4. KeptAsked'
      BY <1>2 DEF Asked, KeptAsked
    <2> QED
      BY <2>3, <2>4
  <1> QED
    BY <1>1, <1>2, StartOutcome

LEMMA PageRefetches ==
  ASSUME PageInv, NEW others, others \subseteq fetches, Refetch(others), InputTypes',
         nav' = nav
  PROVE  SizesAsked' /\ KeptAsked'
  <1>1. CASE start_remote_fetch(others, buf, NoCategory, 1)
    BY <1>1, PageStarts
  <1>2. CASE /\ nav' \in GridNavs
             /\ start_remote_fetch(others, 0, current_remote_category, page + 1)
    BY <1>2, PageStarts
  <1> QED
    BY <1>1, <1>2 DEF Refetch

LEMMA PageStays ==
  ASSUME PageInv, UNCHANGED <<fetches, shown, total, cards, kept>>,
         UNCHANGED <<nav, page, loading, fate>> \/ nav' \notin GridNavs
  PROVE  PageInv'
  <1>1. SizesAsked' /\ ListAsked'
    BY DEF PageInv, SizesAsked, SizeOfWindow, ListAsked
  <1>2. KeptAsked'
    BY DEF PageInv, KeptAsked, PageAsked
  <1> QED
    BY <1>1, <1>2 DEF PageInv

LEMMA KeysOnPage ==
  ASSUME TypesInv, PageInv, handle_text_input \/ Backspace \/ Escape \/ Enter
  PROVE  PageInv'
  <1>1. CASE NoFetch /\ UNCHANGED page
    <2>1. /\ UNCHANGED <<fetches, shown, total, cards, kept>>
          /\ UNCHANGED <<nav, page, loading, fate>>
      BY <1>1 DEF handle_text_input, Backspace, Escape, Enter, Key, NoFetch
    <2> QED
      BY <2>1, PageStays
  <1>2. CASE Enter /\ start_remote_fetch(fetches, buf, NoCategory, 1)
    <2>1. InputTypes'
      BY <1>2, EnterTyped DEF TypesInv
    <2>2. SizesAsked' /\ KeptAsked'
      BY <1>2, <2>1, PageStarts
    <2>3. ListAsked'
      BY <1>2 DEF Enter, Key, PageInv, ListAsked
    <2> QED
      BY <2>2, <2>3 DEF PageInv
  <1> QED
    BY <1>1, <1>2 DEF handle_text_input, Backspace, Escape, Enter

(* The layout leaves a page that is true where it is. *)
LEMMA FramesOnPage ==
  ASSUME TypesInv, PageInv, DrawAll
  PROVE  PageInv'
  <1>1. /\ UNCHANGED <<fetches, shown, total, cards, kept, nav, loading, fate>>
        /\ page' = PageLaidOut
    BY DEF DrawAll, grid
  <1>2. SizesAsked' /\ ListAsked'
    BY <1>1 DEF PageInv, SizesAsked, SizeOfWindow, ListAsked
  <1>3. KeptAsked'
    <2> SUFFICES ASSUME nav \in GridNavs, ~loading, fate # "refused", total > 0,
                        shown.typed = 0, kept
                 PROVE  PageAsked'
      BY <1>1 DEF KeptAsked
    <2>1. PageAsked
      BY DEF PageInv, KeptAsked
    <2>2. GridHasCards => page < GridLayoutNow.pages
      BY NumberIsTrue DEF PageIsTrue
    <2>3. page \in Nat /\ GridLayoutNow.pages \in Nat
      BY PagesLaidOut DEF TypesInv, SelectTypes
    <2>4. page' = page
      BY <1>1, <2>2, <2>3 DEF PageLaidOut
    <2> QED
      BY <1>1, <2>1, <2>4 DEF PageAsked
  <1> QED
    BY <1>2, <1>3 DEF PageInv

LEMMA ResizeOnPage ==
  ASSUME TypesInv, PageInv, NEW w \in Windows, Resize(w)
  PROVE  PageInv'
  <1>1. /\ UNCHANGED <<nav, shown, total>> /\ kept' = FALSE
    BY DEF Resize, select
  <1>2. InputTypes'
    BY ResizeTyped DEF TypesInv
  <1>3. ListAsked' /\ KeptAsked'
    BY <1>1 DEF PageInv, ListAsked, KeptAsked
  <1>4. CASE Refetch(fetches)
    BY <1>1, <1>2, <1>3, <1>4, PageRefetches DEF PageInv
  <1>5. CASE UNCHANGED fetches
    <2>1. SizesAsked'
      BY <1>5 DEF PageInv, SizesAsked, SizeOfWindow
    <2> QED
      BY <1>3, <2>1 DEF PageInv
  <1> QED
    BY <1>4, <1>5 DEF Resize

LEMMA RemoteShownOnPage ==
  ASSUME TypesInv, PageInv, NEW f \in fetches, RemoteShown(f)
  PROVE  PageInv'
  <1>1. /\ UNCHANGED <<nav, page, cards, window>>
        /\ kept' = (f.window = window)
        /\ cards = CardsOf(window) /\ Fits(f)
    BY DEF RemoteShown, input, TypesInv, InputTypes
  <1>2. InputTypes' /\ RequestOK(f)
    BY RemoteShownTyped DEF TypesInv, FetchTypes
  <1>3. /\ shown'.typed = f.typed /\ shown'.page = f.page /\ shown'.size = f.size
        /\ total' > 0 => shown'.count = Records(f)
    BY DEF RemoteShown, Answer
  <1>4. ListAsked'
    BY <1>2, <1>3 DEF ListAsked, RequestOK, Sizes, Records
  <1>5. CASE Refetch(fetches \ {f})
    BY <1>1, <1>2, <1>4, <1>5, PageRefetches DEF PageInv
  <1>6. CASE fetches' = fetches \ {f}
    <2>1. SizesAsked'
      BY <1>6 DEF PageInv, SizesAsked, SizeOfWindow
    <2>2. ASSUME f.typed = 0, f.window = window
          PROVE  PageAsked'
      <3>1. SizeOfWindow(f)
        BY <2>2 DEF PageInv, SizesAsked
      <3>2. f.page = page + 1
        BY <1>1 DEF Fits
      <3> QED
        BY <1>1, <1>3, <2>2, <3>1, <3>2 DEF SizeOfWindow, PageAsked
    <2>3. KeptAsked'
      BY <1>1, <1>3, <2>2 DEF KeptAsked
    <2> QED
      BY <1>4, <2>1, <2>3 DEF PageInv
  <1> QED
    BY <1>5, <1>6 DEF RemoteShown

LEMMA RemoteDroppedOnPage ==
  ASSUME PageInv, NEW f \in fetches, RemoteDropped(f)
  PROVE  PageInv'
  <1>1. /\ UNCHANGED <<nav, page, loading, shown, total, cards, kept>>
        /\ fetches' = fetches \ {f}
        /\ fate' = fate \/ (fate' = "dropped" /\ fate = "asked")
    BY DEF RemoteDropped, select, input, FateOf
  <1>2. SizesAsked' /\ ListAsked'
    BY <1>1 DEF PageInv, SizesAsked, SizeOfWindow, ListAsked
  <1>3. KeptAsked'
    BY <1>1 DEF PageInv, KeptAsked, PageAsked
  <1> QED
    BY <1>2, <1>3 DEF PageInv

(* Another list takes the total of the server away until its answer comes. *)
LEMMA SelectingOnPage ==
  ASSUME TypesInv, PageInv,
         \/ \E n \in Navs : store_ui_trigger_change_nav(n)
         \/ \E t \in Tabs : store_ui_trigger_change_category_tab(t)
  PROVE  PageInv'
  <1>1. total' = 0 /\ UNCHANGED shown /\ InputTypes'
    BY NavTyped, CategoryTabTyped
      DEF store_ui_trigger_change_nav, store_ui_trigger_change_category_tab, Clicked, TypesInv
  <1>2. ListAsked' /\ KeptAsked'
    BY <1>1 DEF PageInv, ListAsked, KeptAsked
  <1>3. SizesAsked'
    <2>1. CASE UNCHANGED fetches
      BY <2>1 DEF PageInv, SizesAsked, SizeOfWindow
    <2>2. CASE \E category : start_remote_fetch(fetches, 0, category, 1)
      BY <1>1, <2>2, PageStarts
    <2> QED
      BY <2>1, <2>2
        DEF store_ui_trigger_change_nav, store_ui_trigger_change_category_tab
  <1> QED
    BY <1>2, <1>3 DEF PageInv

LEMMA RemotePageOnPage ==
  ASSUME TypesInv, PageInv, NEW step \in {-1, 1}, store_ui_trigger_remote_page(step)
  PROVE  PageInv'
  <1>1. /\ UNCHANGED <<nav, shown, total, cards, kept>> /\ nav \in GridNavs
    BY DEF store_ui_trigger_remote_page, Clicked
  <1>2. ListAsked'
    BY <1>1 DEF PageInv, ListAsked
  <1>3. CASE total > 0
    <2>1. InputTypes'
      BY RemotePageTyped DEF TypesInv
    <2>2. start_remote_fetch(fetches, 0, current_remote_category, page' + 1)
      BY <1>3 DEF store_ui_trigger_remote_page
    <2> QED
      BY <1>1, <1>2, <2>1, <2>2, PageStarts DEF PageInv
  <1>4. CASE ~(total > 0)
    <2>1. KeptAsked'
      BY <1>1, <1>4 DEF KeptAsked
    <2>2. UNCHANGED fetches
      BY <1>4 DEF store_ui_trigger_remote_page, NoFetch
    <2> QED
      BY <1>2, <2>1, <2>2 DEF PageInv, SizesAsked, SizeOfWindow
  <1> QED
    BY <1>3, <1>4

LEMMA PageInit == Init => PageInv
  <1> SUFFICES ASSUME Init PROVE PageInv
    OBVIOUS
  <1>1. PICK first : first = Request(1, 0, "__welcome__", 1, PageSize(cards, nav), window)
    OBVIOUS
  <1>2. fetches = {first} /\ total = 0 /\ nav \in GridNavs /\ cards = CardsOf(window)
    BY <1>1 DEF Init, GridNavs, AllNavs
  <1>3. SizeOfWindow(first)
    BY <1>1, <1>2 DEF Request, SizeOfWindow, PageSize
  <1>4. shown.size = 0 /\ shown.page = 0
    BY DEF Init, InstalledList, Answer, Request
  <1> QED
    BY <1>2, <1>3, <1>4 DEF PageInv, SizesAsked, ListAsked, KeptAsked

LEMMA PageStep == TypesInv /\ PageInv /\ [Next]_vars => PageInv'
  <1> SUFFICES ASSUME TypesInv, PageInv, [Next]_vars PROVE PageInv'
    OBVIOUS
  <1>1. CASE User
    <2>1. CASE \E onSearch \in BOOLEAN : RedrawFor(onSearch)
      BY <2>1, FramesOnPage DEF RedrawFor
    <2>2. CASE handle_text_input \/ Backspace \/ Escape \/ Enter
      BY <2>2, KeysOnPage
    <2>3. CASE \E w \in Windows : Resize(w)
      BY <2>3, ResizeOnPage
    <2>4. CASE \/ \E n \in Navs : store_ui_trigger_change_nav(n)
               \/ \E t \in Tabs : store_ui_trigger_change_category_tab(t)
      BY <2>4, SelectingOnPage
    <2>5. CASE \E step \in {-1, 1} : store_ui_trigger_remote_page(step)
      BY <2>5, RemotePageOnPage
    <2>6. CASE \/ \E t \in {0, 1} : store_ui_trigger_change_ranking_tab(t)
               \/ \E step \in {-1, 1} : store_ui_trigger_change_ranking_page(step)
      <3>1. /\ nav' = "ranking" /\ UNCHANGED <<fetches, shown, total, cards, kept>>
        BY <2>6 DEF store_ui_trigger_change_ranking_tab,
                    store_ui_trigger_change_ranking_page, Clicked
      <3>2. nav' \notin GridNavs
        BY <3>1 DEF GridNavs
      <3> QED
        BY <3>1, <3>2, PageStays
    <2> QED
      BY <1>1, <2>1, <2>2, <2>3, <2>4, <2>5, <2>6 DEF User
  <1>2. CASE Redraw
    BY <1>2, FramesOnPage DEF Redraw
  <1>3. CASE Arrival
    BY <1>3, RemoteShownOnPage, RemoteDroppedOnPage DEF Arrival
  <1>4. CASE (\E f \in rfetches : RankingReady(f)) \/ UNCHANGED vars
    <2>1. /\ UNCHANGED <<fetches, shown, total, cards, kept>>
          /\ UNCHANGED <<nav, page, loading, fate>>
      BY <1>4 DEF RankingReady, vars, select, input, grid
    <2> QED
      BY <2>1, PageStays
  <1> QED
    BY <1>1, <1>2, <1>3, <1>4 DEF Next

(* For every list of the server and every size of the window: as long as the
   window is the one the page was asked for, "page p of n" shows the p-th part
   of the list, nothing twice and nothing left out, and neither a frame nor a
   late answer moves it. *)
THEOREM GridNumbersPages == Spec => []PageIsTrue
  <1>1. Init => TypesInv /\ PageInv
    BY TypesInit, PageInit
  <1>2. TypesInv /\ PageInv /\ [Next]_vars => TypesInv' /\ PageInv'
    BY TypesStep, PageStep
  <1>3. TypesInv /\ PageInv => PageIsTrue
    BY NumberIsTrue
  <1> QED
    BY <1>1, <1>2, <1>3, PTL DEF Spec

-----------------------------------------------------------------------------
(* The window is filled. While a thread is on its way, what it asked for fills
   the window or refetch remembers that it does not. *)

Fills(size) == size >= PageSize(cards, nav)

FillInv ==
  nav \in GridNavs /\ ~searching /\ fate # "refused" /\ ~spared
    /\ current_remote_category # NoCategory =>
    /\ fetches # {} => refetch \/ Fills(lastSize)
    /\ ~loading => Fills(lastSize) \/ Fills(lastCount)

LEMMA FillStarts ==
  ASSUME NEW others, NEW typed, NEW category, NEW p,
         start_remote_fetch(others, typed, category, p), InputTypes'
  PROVE  FillInv'
  <1>1. CASE Refused(others)
    BY <1>1 DEF Refused, FillInv
  <1>2. CASE Asked(others, typed, category, p)
    <2>1. PICK size : size = PageSize(cards', nav')
      OBVIOUS
    <2>2. size \in Sizes /\ lastSize' = size
      BY <1>2, <2>1, PageSizes DEF Asked, InputTypes
    <2>3. Fills(lastSize)'
      BY <2>1, <2>2 DEF Fills, Sizes
    <2> QED
      BY <2>3 DEF FillInv
  <1> QED
    BY <1>1, <1>2, StartOutcome

LEMMA FillStays ==
  ASSUME FillInv,
         \/ /\ UNCHANGED <<nav, tab, searching, cards, loading, refetch, lastSize, lastCount>>
            /\ UNCHANGED spared
            /\ fetches' \subseteq fetches
            /\ fate' = fate \/ fate # "refused"
         \/ nav' \notin GridNavs
  PROVE  FillInv'
  BY DEF FillInv, Fills, current_remote_category

LEMMA KeysFill ==
  ASSUME TypesInv, FillInv, handle_text_input \/ Backspace \/ Escape \/ Enter
  PROVE  FillInv'
  <1>1. CASE NoFetch
    <2>1. /\ UNCHANGED <<nav, tab, searching, cards, loading, refetch, lastSize, lastCount>>
          /\ UNCHANGED <<spared, fetches, fate>>
      BY <1>1 DEF handle_text_input, Backspace, Escape, Enter, Key, NoFetch
    <2> QED
      BY <2>1, FillStays
  <1>2. CASE Enter /\ start_remote_fetch(fetches, buf, NoCategory, 1)
    <2>1. InputTypes'
      BY <1>2, EnterTyped DEF TypesInv
    <2> QED
      BY <1>2, <2>1, FillStarts
  <1> QED
    BY <1>1, <1>2 DEF handle_text_input, Backspace, Escape, Enter

LEMMA ResizeFills ==
  ASSUME TypesInv, FillInv, NEW w \in Windows, Resize(w)
  PROVE  FillInv'
  <1>1. InputTypes'
    BY ResizeTyped DEF TypesInv
  <1>2. UNCHANGED <<nav, tab, searching, lastCount>>
    BY DEF Resize, select
  <1>3. CASE Refetch(fetches)
    BY <1>1, <1>3, FillStarts DEF Refetch
  <1>4. CASE /\ ~WantsMore \/ loading \/ NoRefetch
             /\ refetch' = RefetchLater
             /\ spared' = (spared \/ (fetches # {} /\ Outgrown /\ ~WantsMore))
             /\ UNCHANGED <<loading, lastSize, fetches, started, fate, refused>>
    <2> SUFFICES ASSUME nav \in GridNavs, ~searching, fate # "refused", ~spared',
                        current_remote_category # NoCategory
                 PROVE  /\ fetches # {} => refetch' \/ Fills(lastSize)'
                        /\ ~loading => Fills(lastSize)' \/ Fills(lastCount)'
      BY <1>2, <1>4 DEF FillInv, current_remote_category
    <2>1. PICK size, asked, count :
            size = PageSize(cards', nav) /\ asked = lastSize /\ count = lastCount
      OBVIOUS
    <2>2. size \in Nat /\ asked \in Nat /\ count \in Nat
      BY <1>1, <1>2, <2>1, PageSizes, PagesAssumption
        DEF InputTypes, Sizes, TypesInv, FetchTypes, ListTypes
    <2>3. /\ Outgrown <=> size > asked
          /\ WantsMore <=> size > asked /\ count < size
          /\ Fills(lastSize)' <=> asked >= size
          /\ Fills(lastCount)' <=> count >= size
      BY <1>2, <1>4, <2>1 DEF Outgrown, WantsMore, Fills
    <2>4. ~Outgrown => Fills(lastSize)'
      BY <2>2, <2>3
    <2>5. Outgrown /\ ~WantsMore => Fills(lastCount)'
      BY <2>2, <2>3
    <2>6. WantsMore => loading
      BY <1>2, <1>4 DEF NoRefetch
    <2>7. WantsMore => refetch'
      BY <1>4, <2>6 DEF RefetchLater
    <2>8. fetches # {} => ~Outgrown \/ WantsMore
      BY <1>4
    <2> QED
      BY <2>4, <2>5, <2>6, <2>7, <2>8
  <1> QED
    BY <1>3, <1>4 DEF Resize

LEMMA RemoteShownFills ==
  ASSUME TypesInv, FillInv, NEW f \in fetches, RemoteShown(f)
  PROVE  FillInv'
  <1>1. /\ UNCHANGED <<nav, tab, cards>>
        /\ searching' = (searching \/ f.typed > 0)
    BY DEF RemoteShown, input
  <1>2. CASE Refetch(fetches \ {f})
    <2>1. InputTypes'
      BY RemoteShownTyped DEF TypesInv
    <2> QED
      BY <1>2, <2>1, FillStarts DEF Refetch
  <1>3. CASE NoRefetch
    BY <1>1, <1>3 DEF NoRefetch, FillInv, current_remote_category
  <1>4. CASE /\ ~refetch /\ fate' = FateOf(f, "shown")
             /\ UNCHANGED <<lastSize, started, spared, refused>>
    <2> SUFFICES ASSUME nav \in GridNavs, ~searching', fate' # "refused", ~spared,
                        current_remote_category # NoCategory
                 PROVE  Fills(lastSize)'
      BY <1>1, <1>4 DEF FillInv, current_remote_category
    <2>1. ~searching /\ fate # "refused"
      BY <1>1, <1>4 DEF FateOf
    <2>2. Fills(lastSize)
      BY <1>4, <2>1 DEF FillInv
    <2> QED
      BY <1>1, <1>4, <2>2 DEF Fills
  <1> QED
    BY <1>2, <1>3, <1>4 DEF RemoteShown

LEMMA SelectingFills ==
  ASSUME TypesInv, FillInv,
         \/ \E n \in Navs : store_ui_trigger_change_nav(n)
         \/ \E t \in Tabs : store_ui_trigger_change_category_tab(t)
         \/ \E step \in {-1, 1} : store_ui_trigger_remote_page(step)
  PROVE  FillInv'
  <1>1. InputTypes'
    BY NavTyped, CategoryTabTyped, RemotePageTyped DEF TypesInv
  <1>2. CASE \E category, p : start_remote_fetch(fetches, 0, category, p)
    BY <1>1, <1>2, FillStarts
  <1>3. ASSUME NEW n \in Navs, store_ui_trigger_change_nav(n)
        PROVE  FillInv'
    BY <1>2, <1>3, FillStays DEF store_ui_trigger_change_nav
  <1>4. ASSUME NEW t \in Tabs, store_ui_trigger_change_category_tab(t)
        PROVE  FillInv'
    BY <1>2, <1>4 DEF store_ui_trigger_change_category_tab
  <1>5. ASSUME NEW step \in {-1, 1}, store_ui_trigger_remote_page(step)
        PROVE  FillInv'
    <2>1. CASE total > 0
      BY <1>2, <1>5, <2>1 DEF store_ui_trigger_remote_page
    <2>2. CASE ~(total > 0)
      <3>1. /\ UNCHANGED <<nav, tab, searching, cards, loading, refetch, lastSize, lastCount>>
            /\ UNCHANGED <<spared, fetches, fate>>
        BY <1>5, <2>2 DEF store_ui_trigger_remote_page, Clicked, NoFetch
      <3> QED
        BY <3>1, FillStays
    <2> QED
      BY <2>1, <2>2
  <1> QED
    BY <1>3, <1>4, <1>5

LEMMA FillInit == Init => FillInv
  <1> SUFFICES ASSUME Init PROVE FillInv
    OBVIOUS
  <1>1. PICK size : size = PageSize(cards, nav)
    OBVIOUS
  <1>2. size \in Sizes /\ lastSize = size
    BY <1>1, PageSizes, PagesAssumption DEF Init
  <1>3. Fills(lastSize)
    BY <1>1, <1>2 DEF Fills, Sizes
  <1> QED
    BY <1>3 DEF FillInv

LEMMA FillStep == TypesInv /\ FillInv /\ [Next]_vars => FillInv'
  <1> SUFFICES ASSUME TypesInv, FillInv, [Next]_vars PROVE FillInv'
    OBVIOUS
  <1>1. CASE User
    <2>1. CASE handle_text_input \/ Backspace \/ Escape \/ Enter
      BY <2>1, KeysFill
    <2>2. CASE \E w \in Windows : Resize(w)
      BY <2>2, ResizeFills
    <2>3. CASE \/ \E n \in Navs : store_ui_trigger_change_nav(n)
               \/ \E t \in Tabs : store_ui_trigger_change_category_tab(t)
               \/ \E step \in {-1, 1} : store_ui_trigger_remote_page(step)
      BY <2>3, SelectingFills
    <2>4. CASE \E onSearch \in BOOLEAN : RedrawFor(onSearch)
      <3>1. /\ UNCHANGED <<nav, tab, searching, cards, loading, refetch, lastSize, lastCount>>
            /\ UNCHANGED <<spared, fetches, fate>>
        BY <2>4 DEF RedrawFor, DrawAll, grid
      <3> QED
        BY <3>1, FillStays
    <2>5. CASE \/ \E t \in {0, 1} : store_ui_trigger_change_ranking_tab(t)
               \/ \E step \in {-1, 1} : store_ui_trigger_change_ranking_page(step)
      <3>1. nav' \notin GridNavs
        BY <2>5 DEF store_ui_trigger_change_ranking_tab,
                    store_ui_trigger_change_ranking_page, GridNavs
      <3> QED
        BY <3>1, FillStays
    <2> QED
      BY <1>1, <2>1, <2>2, <2>3, <2>4, <2>5 DEF User
  <1>2. CASE Redraw \/ (\E f \in rfetches : RankingReady(f)) \/ UNCHANGED vars
    <2>1. /\ UNCHANGED <<nav, tab, searching, cards, loading, refetch, lastSize, lastCount>>
          /\ UNCHANGED <<spared, fetches, fate>>
      BY <1>2 DEF Redraw, DrawAll, RankingReady, vars, select, input, grid
    <2> QED
      BY <2>1, FillStays
  <1>3. ASSUME NEW f \in fetches, RemoteShown(f)
        PROVE  FillInv'
    BY <1>3, RemoteShownFills
  <1>4. ASSUME NEW f \in fetches, RemoteDropped(f)
        PROVE  FillInv'
    <2>1. /\ UNCHANGED <<nav, tab, searching, cards, loading, refetch, lastSize, lastCount>>
          /\ UNCHANGED spared /\ fetches' \subseteq fetches
          /\ fate' = fate \/ fate # "refused"
      BY <1>4 DEF RemoteDropped, select, input, FateOf
    <2> QED
      BY <2>1, FillStays
  <1> QED
    BY <1>1, <1>2, <1>3, <1>4 DEF Next, Arrival

(* Whatever sizes the window gets while answers are on their way: a category
   that is not loading fills the window or was asked for enough to fill it,
   but for the case named by spared. *)
THEOREM GrownWindowIsFilled == Spec => []WindowIsFilled
  <1>1. TypesInv /\ FillInv /\ [Next]_vars => TypesInv' /\ FillInv'
    BY TypesStep, FillStep
  <1>2. FillInv => WindowIsFilled
    BY DEF FillInv, Fills, WindowIsFilled
  <1> QED
    BY <1>1, <1>2, TypesInit, FillInit, PTL DEF Spec
=============================================================================
