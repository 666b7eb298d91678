------------------------------ MODULE FileList ------------------------------
(***************************************************************************)
(* The file list of the cloud disk (yundisk/static/js/game_bar.js on       *)
(* cloud_file.html): tabs for one's own and for the shared files, a list   *)
(* that is loaded page by page, and a scroller whose pull bars ask for     *)
(* more.  The handlers of taps, gestures, timers and answers run one at a  *)
(* time; each is one step, with the refresh of the scroller it ends in.    *)
(*                                                                         *)
(* The list does not remember which request it waits for: whatever answer  *)
(* arrives is appended, and the number of rows is where the next page      *)
(* starts.                                                                 *)
(*                                                                         *)
(* The second menu is never opened (the tap that would do it is commented  *)
(* out), and menu_kind_selected is 0 after every handler, as reloadGames   *)
(* hides that menu: the kinds of files are left out.  A tap that leaves    *)
(* the page ends the behaviour.  The server is not part of the repository: *)
(* asked for count files from fromId on, it returns those its list has.    *)
(***************************************************************************)
EXTENDS IScroll, ZeptoAjax, Sequences

CONSTANTS
    Files,       \* the number of files in each list of the server
    perLoadCnt,  \* the rows of a page
    Fit,         \* the rows that fit on the screen
    MaxThrown    \* bound: how far $.active may run ahead of the requests

(* A page has rows; the rest are counts. *)
ASSUME PageAssumption == perLoadCnt \in Nat \ {0} /\ Files \in Nat
ASSUME BoundAssumption == Fit \in Nat /\ MaxThrown \in Nat

VARIABLES
    ready,                   \* loaded() has run: myScroll is defined
    menu_game_new_selected,  \* the tab of one's own files is selected
    icon,                    \* the tab whose icon is lit
    rows,                    \* the rows of the list
    alreadyLoadGameCnt,      \* where the next page starts
    left,                    \* the page was left
    crossed,                 \* history: since the list was last emptied, two of its
                             \* requests were under way at once
    stuck                    \* history: the pull the lower bar shows came to nothing

tabs == <<menu_game_new_selected, icon>>
list == <<rows, alreadyLoadGameCnt>>
scroll == <<bars, timers, limits, scroller>>
vars == <<scroll, requests, ready, tabs, list, left, crossed, stuck>>

Kind == {"newFile", "shareFile"}
Counter == [cmd |-> "increase"]

(* What is asked of the server: a page of a list, or to count a download. *)
Settings == [cmd : Kind, fromId : Nat, pulled : BOOLEAN] \cup {Counter}

(* NULL marks a number that no request under way has. *)
ASSUME NoRequestAssumption == NULL \notin Settings

(* The rows the server returns for a request of a list. *)
Page(r) ==
    LET last == IF r.fromId + perLoadCnt < Files THEN r.fromId + perLoadCnt ELSE Files
    IN  [k \in 1..(last - r.fromId) |-> [kind |-> r.cmd, id |-> r.fromId + k]]

Init ==
    /\ InitBars /\ InitScroll /\ InitAjax
    /\ ready = FALSE
    /\ menu_game_new_selected = FALSE /\ icon = NULL
    /\ rows = <<>> /\ alreadyLoadGameCnt = 0
    /\ left = FALSE
    /\ crossed = FALSE /\ stuck = FALSE

(***************************************************************************)
(* Bound: there is a request left for a tap or for flipping the lower bar, *)
(* besides those kept for loaded, for a flipped bar and for its timers.    *)
(***************************************************************************)
Room == LET kept == (IF ready THEN 0 ELSE 1) + (IF pullUp = "flip" THEN 1 ELSE 0) + pullUpTimer
        IN  Cardinality(Flying) + kept < Cardinality(Slot)

(* The history of a pull ends with it. *)
Settle(lost) == stuck' = (pullUp' = "loading" /\ (stuck \/ lost))

(* myScroll.refresh() with n rows; it throws while myScroll is undefined. *)
Refresh(n) == IF ready THEN refresh(n, Fit, pullDownTimer) ELSE UNCHANGED scroll

ListFlying == \E i \in Flying : xhr[i] # Counter

loadGamesBar(fromId, kind, pulled) ==
    ajax([cmd |-> kind, fromId |-> fromId, pulled |-> pulled])

reloadGames_KeepsCount(kind) ==
    /\ rows' = <<>>
    /\ UNCHANGED alreadyLoadGameCnt
    /\ loadGamesBar(alreadyLoadGameCnt, kind, FALSE)
    /\ crossed' = ListFlying

(* reloadGames up to its refresh: empty the list and ask for its first page. *)
reloadGames(kind) ==
    /\ rows' = <<>>
    /\ alreadyLoadGameCnt' = 0
    /\ loadGamesBar(0, kind, FALSE)
    /\ crossed' = ListFlying
------------------------------------------------------------------------------
(***************************************************************************)
(* selected_action, for the taps the page can receive.  A tap on the tab   *)
(* of one's own files when it is selected only hides the second menu.      *)
(***************************************************************************)
selected_newFile ==
    /\ ~left /\ Room
    /\ ~menu_game_new_selected
    /\ menu_game_new_selected' = TRUE /\ icon' = "newFile"
    /\ reloadGames("newFile")
    /\ Refresh(0)
    /\ Settle(FALSE)
    /\ UNCHANGED <<ready, left>>

selected_shareFile ==
    /\ ~left /\ Room
    /\ menu_game_new_selected' = FALSE /\ icon' = "shareFile"
    /\ reloadGames("shareFile")
    /\ Refresh(0)
    /\ Settle(FALSE)
    /\ UNCHANGED <<ready, left>>

(***************************************************************************)
(* The tabs that lead to upload.html and login.html, sharing a file, and   *)
(* loading without a user name: the page and all its state are gone.       *)
(***************************************************************************)
leave ==
    /\ ~left /\ left' = TRUE
    /\ Become([down |-> "", up |-> "", timer |-> 0]) /\ pullUpTimer' = 0
    /\ minZero' = FALSE /\ maxPos' = TRUE
    /\ y' = "zero" /\ down' = FALSE /\ moved' = FALSE /\ trn' = FALSE
    /\ active' = 0 /\ xhr' = [i \in Slot |-> NULL]
    /\ ready' = FALSE
    /\ menu_game_new_selected' = FALSE /\ icon' = NULL
    /\ rows' = <<>> /\ alreadyLoadGameCnt' = 0
    /\ crossed' = FALSE /\ stuck' = FALSE

(* A tap on the download button of a row counts the download. *)
clickGame ==
    /\ ~left /\ Room /\ rows # <<>>
    /\ ajax(Counter)
    /\ UNCHANGED <<scroll, ready, tabs, list, left, crossed, stuck>>

(***************************************************************************)
(* loaded: the scroller is made and refreshed, then one's own files are    *)
(* selected, with a second refresh that finds it in place.                 *)
(***************************************************************************)
loaded ==
    /\ ~left /\ ~ready /\ ready' = TRUE
    /\ \/ /\ ~menu_game_new_selected
          /\ menu_game_new_selected' = TRUE /\ icon' = "newFile"
          /\ reloadGames("newFile")
          /\ y' = "min" /\ moved' = FALSE /\ trn' = TRUE
          /\ UNCHANGED <<down, bars, timers, limits>>
       \/ /\ menu_game_new_selected
          /\ refresh(Len(rows), Fit, 0)
          /\ UNCHANGED <<requests, tabs, list, crossed>>
    /\ UNCHANGED <<left, stuck>>
------------------------------------------------------------------------------
(***************************************************************************)
(* The scroller, the timers and the answers.                               *)
(***************************************************************************)
gesture ==
    /\ ~left /\ ready
    /\ Gesture
    /\ pullUp' = "flip" => pullUp = "flip" \/ Room
    /\ Settle(FALSE)
    /\ UNCHANGED <<requests, ready, tabs, list, left, crossed>>

transitionEnd ==
    /\ ~left /\ ready
    /\ _transitionEnd
    /\ Settle(FALSE)
    /\ UNCHANGED <<requests, ready, tabs, list, left, crossed>>

(* A timer of the upper bar: there is nothing to load, only a refresh. *)
pullDownAction ==
    /\ ~left /\ pullDownTimer > 0
    /\ refresh(Len(rows), Fit, pullDownTimer - 1)
    /\ Settle(FALSE)
    /\ UNCHANGED <<requests, ready, tabs, list, left, crossed>>

pullUpAction_AnyTab ==
    /\ ~left /\ pullUpTimer > 0 /\ pullUpTimer' = pullUpTimer - 1
    /\ loadGamesBar(alreadyLoadGameCnt, "newFile", TRUE)
    /\ crossed' = (crossed \/ ListFlying)
    /\ UNCHANGED <<bars, pullDownTimer, limits, scroller>>
    /\ Settle(FALSE)
    /\ UNCHANGED <<ready, tabs, list, left>>

(* A timer of the lower bar: the next page, when one's own files are selected. *)
pullUpAction ==
    /\ ~left /\ pullUpTimer > 0 /\ pullUpTimer' = pullUpTimer - 1
    /\ \/ /\ menu_game_new_selected
          /\ loadGamesBar(alreadyLoadGameCnt, "newFile", TRUE)
          /\ crossed' = (crossed \/ ListFlying)
       \/ /\ ~menu_game_new_selected
          /\ UNCHANGED <<requests, crossed>>
    /\ UNCHANGED <<bars, pullDownTimer, limits, scroller>>
    /\ Settle(~menu_game_new_selected)
    /\ UNCHANGED <<ready, tabs, list, left>>

(* An orientation change or another size of the window: _resize refreshes. *)
resize ==
    /\ ~left /\ ready
    /\ Refresh(Len(rows))
    /\ Settle(FALSE)
    /\ UNCHANGED <<requests, ready, tabs, list, left, crossed>>

(* The success callback of a list request: whatever tab is selected, append. *)
success(r) ==
    /\ rows' = rows \o Page(r)
    /\ alreadyLoadGameCnt' = alreadyLoadGameCnt + Len(Page(r))

(***************************************************************************)
(* The end of request i.  The success callback of a list throws when there *)
(* is no data, before it appends, and when there is no scroller yet, after.*)
(***************************************************************************)
answer(i, outcome) ==
    LET r == xhr[i]
        appends == outcome = "data" /\ r # Counter
        throws == r # Counter /\ (outcome = "null" \/ (outcome = "data" /\ ~ready))
    IN  /\ ~left /\ i \in Flying
        /\ throws => active - Cardinality(Flying) < MaxThrown
        /\ onreadystatechange(i, throws)
        /\ \/ appends /\ success(r) /\ Refresh(Len(rows'))
           \/ ~appends /\ UNCHANGED <<list, scroll>>
        /\ Settle(r # Counter /\ outcome # "data" /\ r.pulled)
        /\ UNCHANGED <<ready, tabs, left, crossed>>

Next ==
    \/ selected_newFile \/ selected_shareFile \/ leave \/ clickGame \/ loaded
    \/ gesture \/ transitionEnd \/ pullDownAction \/ pullUpAction \/ resize
    \/ \E i \in Slot, outcome \in Outcome : answer(i, outcome)

Spec == Init /\ [][Next]_vars
------------------------------------------------------------------------------
(***************************************************************************)
(* The variables keep their types; the count of rows, where the next page  *)
(* starts, is the number of rows.                                          *)
(***************************************************************************)
TypeOK ==
    /\ TypeBars /\ TypeScroll
    /\ {ready, menu_game_new_selected, left, crossed, stuck} \subseteq BOOLEAN
    /\ icon \in Kind \cup {NULL}
    /\ \A k \in 1..Len(rows) : rows[k].kind \in Kind /\ rows[k].id \in 1..Files
    /\ alreadyLoadGameCnt = Len(rows)
    /\ active \in Nat

(***************************************************************************)
(* The list shows the selected tab's files in the server's order, none     *)
(* twice and none left out, as long as no two requests of lists were under *)
(* way at once since it was emptied: whatever tabs were tapped, bars       *)
(* pulled and requests lost before, an answer belongs to the list it is    *)
(* appended to.                                                            *)
(***************************************************************************)
ListIsPrefix ==
    ~crossed => /\ Len(rows) <= Files
                /\ \A k \in 1..Len(rows) : rows[k] = [kind |-> icon, id |-> k]

(***************************************************************************)
(* ajaxStop finds $.active at zero, and tells the page that its requests   *)
(* have stopped, only when none is under way, whatever order answers,      *)
(* failures and exceptions came in.                                        *)
(***************************************************************************)
StopsWhenIdle == active = 0 => Flying = {}

(***************************************************************************)
(* What ajax.js says of $.active: "Number of active Ajax requests".  It    *)
(* does not hold: a success callback that throws keeps ajaxComplete from   *)
(* running, so that its request is counted for good.                       *)
(***************************************************************************)
ActiveCounts == active = Cardinality(Flying)

(***************************************************************************)
(* A bar that shows loading is waited for.  For the upper one a timer      *)
(* runs.  For the lower one a timer runs, or the page it asked for is      *)
(* under way, or, as both bars may be loading at once and a refresh resets *)
(* only one of them, a timer of the upper bar runs that finds the upper    *)
(* bar reset.  The pulls that come to nothing are excepted: on the tab of  *)
(* shared files, and when the request failed or its callback threw.        *)
(***************************************************************************)
PullAwaited ==
    /\ pullDown = "loading" => pullDownTimer > 0
    /\ pullUp = "loading" /\ ~stuck =>
        \/ pullUpTimer > 0
        \/ pullDownTimer > (IF pullDown = "loading" THEN 1 ELSE 0)
        \/ \E i \in Flying : xhr[i] # Counter /\ xhr[i].pulled
==============================================================================
