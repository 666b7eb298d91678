--------------------------- MODULE FileListProofs ---------------------------
(***************************************************************************)
(* Proofs about the file list of the cloud disk, for every number of files,*)
(* every size of a page and of the screen and any number of requests under *)
(* way.                                                                    *)
(***************************************************************************)
EXTENDS FileList, FiniteSetTheorems, SequenceTheorems, TLAPS

Row == [kind : Kind, id : 1 .. Files]
Asks(i) == i \in Flying /\ xhr[i] # Counter

(* The requests under way; $.active counts each, and maybe some that ended. *)
RequestsInv ==
    /\ xhr \in [Slot -> Settings \cup {NULL}]
    /\ active \in Nat
    /\ Cardinality(Flying) <= active

(* The tabs and the rows. *)
RowsInv ==
    /\ {ready, menu_game_new_selected, left, crossed} \subseteq BOOLEAN
    /\ icon \in Kind \cup {NULL}
    /\ menu_game_new_selected => icon = "newFile"
    /\ rows \in Seq(Row)
    /\ alreadyLoadGameCnt = Len(rows)

(* What makes the list a prefix stay one: as long as requests of lists did *)
(* not cross, at most one is under way, for the page that comes next.      *)
PageInv ==
    ~crossed => /\ Len(rows) <= Files
                /\ \A k \in 1 .. Len(rows) : rows[k] = [kind |-> icon, id |-> k]
                /\ \A i \in Slot : Asks(i) => xhr[i].cmd = icon /\ xhr[i].fromId = Len(rows)
                /\ \A i, j \in Slot : Asks(i) /\ Asks(j) => i = j

BarState == [down : Class, up : Class, timer : Nat]

(* The upper bar loads only while a timer of it runs. *)
UpperBar(d, timer) == d = "loading" => timer > 0

(* A timer of the upper bar runs that will find the bar reset. *)
Spare(d, timer) == timer > (IF d = "loading" THEN 1 ELSE 0)

BarsInv == TypeBars /\ TypeScroll /\ UpperBar(pullDown, pullDownTimer)

(* What resets a lower bar that loads.  A timer of the upper bar does it   *)
(* only if a refresh has reset the upper bar before.                       *)
Awaited ==
    \/ pullUpTimer > 0
    \/ Spare(pullDown, pullDownTimer)
    \/ \E i \in Slot : Asks(i) /\ xhr[i].pulled

PullInv ==
    /\ stuck \in BOOLEAN
    /\ ~ready => pullDown = "" /\ pullUp = "" /\ pullDownTimer = 0 /\ pullUpTimer = 0
    /\ pullUp = "loading" /\ ~stuck => Awaited

FileListInv == RequestsInv /\ RowsInv /\ PageInv /\ BarsInv /\ PullInv
-----------------------------------------------------------------------------
(* The inductive invariant of the file list. *)
LEMMA FileListAlways == Spec => []FileListInv
<1>RequestsStep.
    (* Every step keeps the count of the requests. *)
    ASSUME RequestsInv, RowsInv, [Next]_vars
    PROVE  RequestsInv'
  <2> USE <1>RequestsStep
  <2>RequestSent.
      (* Sending a request takes a slot and counts once. *)
      ASSUME RequestsInv, NEW s \in Settings, ajax(s)
      PROVE  /\ RequestsInv'
             /\ \E i \in Slot \ Flying : xhr' = [xhr EXCEPT ![i] = s]
    <3> USE <2>RequestSent
    <3>1. PICK i \in Slot \ Flying : xhr' = [xhr EXCEPT ![i] = s] /\ active' = active + 1
      BY Zenon DEF ajax
    <3>2. IsFiniteSet(Flying)
      BY SlotAssumption, FS_Subset DEF Flying
    <3>3. Flying' = Flying \cup {i}
      BY <3>1, NoRequestAssumption DEF Flying, RequestsInv
    <3>4. Cardinality(Flying') = Cardinality(Flying) + 1 /\ Cardinality(Flying) \in Nat
      BY <3>1, <3>2, <3>3, FS_AddElement, FS_CardinalityType
    <3>5. xhr' \in [Slot -> Settings \cup {NULL}]
      BY <3>1 DEF RequestsInv
    <3>6. Cardinality(Flying') <= active' /\ active' \in Nat
      BY <3>1, <3>4 DEF RequestsInv
    <3>7. QED
      BY <3>1, <3>5, <3>6, Zenon DEF RequestsInv
  <2>1. ASSUME UNCHANGED requests
        PROVE  RequestsInv'
    BY <2>1 DEF RequestsInv, Flying, requests
  <2>2. ASSUME NEW k \in Kind, NEW n \in Nat, NEW b \in BOOLEAN, loadGamesBar(n, k, b)
        PROVE  RequestsInv'
    BY <2>2, <2>RequestSent DEF loadGamesBar, Settings
  <2>3. ASSUME ajax(Counter)
        PROVE  RequestsInv'
    BY <2>3, <2>RequestSent DEF Settings
  <2>4. CASE leave
    <3>1. active' = 0 /\ xhr' = [i \in Slot |-> NULL]
      BY <2>4, Zenon DEF leave
    <3>2. Flying' = {}
      BY <3>1 DEF Flying
    <3>3. Cardinality(Flying') = 0
      BY <3>2, FS_EmptySet
    <3>4. QED
      BY <3>1, <3>3 DEF RequestsInv
  <2>5. ASSUME NEW i \in Slot, NEW outcome \in Outcome, answer(i, outcome)
        PROVE  RequestsInv'
    <3> DEFINE throws == xhr[i] # Counter /\ (outcome = "null" \/ (outcome = "data" /\ ~ready))
    <3>1. /\ i \in Flying
          /\ xhr' = [xhr EXCEPT ![i] = NULL]
          /\ active' = IF throws THEN active ELSE active - 1
      BY <2>5 DEF answer, onreadystatechange, ajaxComplete
    <3> HIDE DEF throws
    <3>2. IsFiniteSet(Flying)
      BY SlotAssumption, FS_Subset DEF Flying
    <3>3. Flying' = Flying \ {i}
      BY <3>1 DEF Flying, RequestsInv
    <3>4. Cardinality(Flying') = Cardinality(Flying) - 1 /\ Cardinality(Flying) \in Nat
      BY <3>1, <3>2, <3>3, FS_RemoveElement, FS_CardinalityType
    <3>5. Cardinality(Flying') \in Nat
      BY <3>2, <3>3, FS_RemoveElement, FS_CardinalityType
    <3>6. xhr' \in [Slot -> Settings \cup {NULL}]
      BY <3>1 DEF RequestsInv
    <3>7. Cardinality(Flying') <= active' /\ active' \in Nat
      BY <3>1, <3>4, <3>5 DEF RequestsInv
    <3>8. QED
      BY <3>6, <3>7 DEF RequestsInv
  <2>6. "newFile" \in Kind /\ "shareFile" \in Kind /\ alreadyLoadGameCnt \in Nat
    BY DEF Kind, RowsInv
  <2>7. CASE selected_newFile \/ selected_shareFile
    BY <2>2, <2>6, <2>7, Zenon DEF selected_newFile, selected_shareFile, reloadGames
  <2>8. CASE clickGame
    BY <2>3, <2>8 DEF clickGame
  <2>9. CASE loaded
    BY <2>1, <2>2, <2>6, <2>9, Zenon DEF loaded, reloadGames
  <2>10. CASE pullUpAction
    BY <2>1, <2>2, <2>6, <2>10, Zenon DEF pullUpAction
  <2>11. CASE gesture \/ transitionEnd \/ pullDownAction \/ resize \/ UNCHANGED vars
    BY <2>1, <2>11, Zenon DEF gesture, transitionEnd, pullDownAction, resize, vars
  <2>12. QED
    BY <2>4, <2>5, <2>7, <2>8, <2>9, <2>10, <2>11 DEF Next
<1>RowsStep.
    (* Every step keeps the rows and tabs, and the list a prefix of what the   *)
    (* server has unless requests crossed.                                     *)
    ASSUME RequestsInv, RowsInv, PageInv, [Next]_vars
    PROVE  RowsInv' /\ PageInv'
  <2> USE <1>RowsStep
  <2>1. ASSUME UNCHANGED <<requests, ready, tabs, list, left, crossed>>
        PROVE  RowsInv' /\ PageInv'
    BY <2>1 DEF RowsInv, PageInv, Asks, Flying, requests, tabs, list
  <2>2. ASSUME NEW k \in Kind, reloadGames(k), icon' = k,
               {ready', menu_game_new_selected', left'} \subseteq BOOLEAN,
               menu_game_new_selected' => k = "newFile"
        PROVE  RowsInv' /\ PageInv'
    <3> DEFINE s == [cmd |-> k, fromId |-> 0, pulled |-> FALSE]
    <3>1. rows' = <<>> /\ alreadyLoadGameCnt' = 0 /\ ajax(s) /\ crossed' = ListFlying
      BY <2>2 DEF reloadGames, loadGamesBar
    <3>2. PICK i \in Slot \ Flying : xhr' = [xhr EXCEPT ![i] = s]
      BY <3>1, Zenon DEF ajax
    <3>3. crossed' \in BOOLEAN
      BY <3>1 DEF ListFlying
    <3>4. RowsInv'
      BY <2>2, <3>1, <3>3 DEF RowsInv
    <3>5. ~crossed' => \A j \in Slot : ~Asks(j)
      BY <3>1 DEF ListFlying, Asks
    <3>6. \A j \in Slot : Asks(j)' => Asks(j) \/ j = i
      BY <3>2 DEF Asks, Flying, RequestsInv
    <3>7. xhr'[i].cmd = k /\ xhr'[i].fromId = 0
      <4>1. xhr'[i] = s
        BY <3>2 DEF RequestsInv
      <4>2. QED
        BY <4>1
    <3>8. QED
      BY <2>2, <3>1, <3>4, <3>5, <3>6, <3>7, PageAssumption DEF PageInv
  <2>3. CASE clickGame
    <3>1. PICK i \in Slot \ Flying : xhr' = [xhr EXCEPT ![i] = Counter]
      BY <2>3, Zenon DEF clickGame, ajax
    <3>2. \A j \in Slot : (Asks(j)' <=> Asks(j)) /\ (Asks(j) => xhr'[j] = xhr[j])
      BY <3>1, NoRequestAssumption DEF Asks, Flying, RequestsInv, Settings
    <3>3. UNCHANGED <<ready, menu_game_new_selected, icon, rows, alreadyLoadGameCnt, left, crossed>>
      BY <2>3 DEF clickGame, tabs, list
    <3>4. QED
      BY <3>2, <3>3 DEF RowsInv, PageInv
  <2>4. CASE pullUpAction
    <3>1. CASE ~menu_game_new_selected
      BY <2>1, <2>4, <3>1, Zenon DEF pullUpAction
    <3>2. CASE menu_game_new_selected
      <4> DEFINE s == [cmd |-> "newFile", fromId |-> alreadyLoadGameCnt, pulled |-> TRUE]
      <4>1. UNCHANGED <<ready, menu_game_new_selected, icon, rows, alreadyLoadGameCnt, left>>
        BY <2>4 DEF pullUpAction, tabs, list
      <4>2. ajax(s) /\ crossed' = (crossed \/ ListFlying)
        BY <2>4, <3>2 DEF pullUpAction, loadGamesBar
      <4>3. PICK i \in Slot \ Flying : xhr' = [xhr EXCEPT ![i] = s]
        BY <4>2, Zenon DEF ajax
      <4>4. RowsInv'
        BY <4>1, <4>2 DEF RowsInv
      <4>5. ~crossed' => ~crossed /\ \A j \in Slot : ~Asks(j)
        BY <4>2, Zenon DEF ListFlying, Asks
      <4>6. \A j \in Slot : Asks(j)' => Asks(j) \/ j = i
        BY <4>3 DEF Asks, Flying, RequestsInv
      <4>7. xhr'[i].cmd = icon /\ xhr'[i].fromId = Len(rows)
        BY <3>2, <4>3 DEF RequestsInv, RowsInv
      <4>8. QED
        BY <4>1, <4>4, <4>5, <4>6, <4>7 DEF PageInv
    <3>3. QED
      BY <3>1, <3>2
  <2>5. ASSUME NEW i \in Slot, NEW outcome \in Outcome, answer(i, outcome)
        PROVE  RowsInv' /\ PageInv'
    <3> DEFINE r == xhr[i]
    <3>1. i \in Flying /\ xhr' = [xhr EXCEPT ![i] = NULL] /\ UNCHANGED <<ready, tabs, left, crossed>>
      BY <2>5 DEF answer, onreadystatechange
    <3>2. ~Asks(i)' /\ \A j \in Slot \ {i} : (Asks(j)' <=> Asks(j)) /\ xhr'[j] = xhr[j]
      BY <3>1 DEF Asks, Flying, RequestsInv
    <3>3. CASE UNCHANGED list
      BY <3>1, <3>2, <3>3 DEF RowsInv, PageInv, list, tabs
    <3>4. CASE r # Counter /\ success(r)
      <4>1. r.cmd \in Kind /\ r.fromId \in Nat /\ Asks(i)
        BY <3>1, <3>4 DEF RequestsInv, Settings, Flying, Asks
      <4> DEFINE last == IF r.fromId + perLoadCnt < Files THEN r.fromId + perLoadCnt ELSE Files
                 m == IF last < r.fromId THEN 0 ELSE last - r.fromId
                 pg == [k \in 1 .. m |-> [kind |-> r.cmd, id |-> r.fromId + k]]
      <4> HIDE DEF r
      <4>2. last \in Nat /\ last <= Files /\ m \in Nat /\ (m > 0 => r.fromId + m <= Files)
            /\ (r.fromId <= Files => r.fromId + m <= Files) /\ 1 .. m = 1 .. (last - r.fromId)
        BY <4>1, PageAssumption
      <4>3. Page(r) = pg
        BY <4>2 DEF Page
      <4> HIDE DEF last, m
      <4>4. pg \in Seq(Row) /\ Len(pg) = m
        <5>1. \A k \in 1 .. m : r.fromId + k \in 1 .. Files
          BY <4>1, <4>2, PageAssumption
        <5>2. \A k \in 1 .. m : pg[k] \in Row
          BY <4>1, <5>1 DEF Row
        <5>3. QED
          BY <4>2, <5>2
      <4>5. rows' = rows \o pg /\ alreadyLoadGameCnt' = alreadyLoadGameCnt + m
        BY <3>4, <4>3, <4>4, Zenon DEF success
      <4>6. \A k \in 1 .. m : pg[k] = [kind |-> r.cmd, id |-> r.fromId + k]
        OBVIOUS
      <4> HIDE DEF pg
      <4>7. /\ rows' \in Seq(Row) /\ Len(rows') = Len(rows) + m
            /\ \A k \in 1 .. Len(rows) : rows'[k] = rows[k]
            /\ \A k \in Len(rows) + 1 .. Len(rows) + m : rows'[k] = pg[k - Len(rows)]
        <5>1. rows \in Seq(Row) /\ Len(rows) \in Nat
          BY DEF RowsInv
        <5>2. /\ rows \o pg \in Seq(Row) /\ Len(rows \o pg) = Len(rows) + Len(pg)
              /\ \A k \in 1 .. Len(rows) + Len(pg) :
                    (rows \o pg)[k] = IF k <= Len(rows) THEN rows[k] ELSE pg[k - Len(rows)]
          BY <4>4, <5>1, ConcatProperties, Zenon
        <5>3. QED
          BY <4>2, <4>4, <4>5, <5>1, <5>2
      <4>8. RowsInv'
        BY <3>1, <4>2, <4>5, <4>7 DEF RowsInv, tabs
      <4>9. ASSUME ~crossed
            PROVE  /\ Len(rows') <= Files
                   /\ \A k \in 1 .. Len(rows') : rows'[k] = [kind |-> icon', id |-> k]
                   /\ \A j \in Slot : ~Asks(j)'
        <5>1. /\ r.cmd = icon /\ r.fromId = Len(rows) /\ Len(rows) <= Files /\ icon' = icon
              /\ Len(rows) \in Nat
          BY <3>1, <4>1, <4>9 DEF PageInv, r, RowsInv, tabs
        <5>2. \A k \in Len(rows) + 1 .. Len(rows) + m : rows'[k] = [kind |-> icon, id |-> k]
          BY <4>2, <4>6, <4>7, <5>1
        <5>3. \A k \in 1 .. Len(rows) : rows'[k] = [kind |-> icon, id |-> k]
          BY <4>7, <4>9 DEF PageInv
        <5>4. \A j \in Slot : ~Asks(j)'
          BY <3>2, <4>1, <4>9 DEF PageInv
        <5>5. \A k \in 1 .. Len(rows') : k \in 1 .. Len(rows) \/ k \in Len(rows) + 1 .. Len(rows) + m
          BY <4>2, <4>7, <5>1
        <5>6. Len(rows') <= Files
          BY <4>2, <4>7, <5>1
        <5>7. QED
          BY <5>1, <5>2, <5>3, <5>4, <5>5, <5>6
      <4>10. QED
        BY <3>1, <4>8, <4>9 DEF PageInv
    <3>5. QED
      BY <2>5, <3>3, <3>4 DEF answer
  <2>6. CASE leave
    <3>1. /\ rows' = <<>> /\ alreadyLoadGameCnt' = 0 /\ xhr' = [i \in Slot |-> NULL]
          /\ icon' = NULL /\ ready' = FALSE /\ menu_game_new_selected' = FALSE
          /\ left' = TRUE /\ crossed' = FALSE
      BY <2>6, Zenon DEF leave
    <3>2. \A i \in Slot : ~Asks(i)'
      BY <3>1 DEF Asks, Flying
    <3>3. RowsInv'
      <4>1. {ready', menu_game_new_selected', left', crossed'} \subseteq BOOLEAN
        BY <3>1, Zenon
      <4>2. ~menu_game_new_selected' /\ rows' \in Seq(Row) /\ alreadyLoadGameCnt' = Len(rows')
        BY <3>1
      <4>3. icon' \in Kind \cup {NULL}
        BY <3>1
      <4>4. QED
        BY <4>1, <4>2, <4>3 DEF RowsInv
    <3>4. Len(rows') = 0
      BY <3>1
    <3>5. QED
      BY <3>2, <3>3, <3>4, PageAssumption DEF PageInv
  <2>7. CASE selected_newFile \/ selected_shareFile
    BY <2>2, <2>7, Zenon DEF selected_newFile, selected_shareFile, RowsInv, Kind
  <2>8. CASE loaded
    <3>1. CASE menu_game_new_selected
      <4>1. UNCHANGED <<requests, tabs, list, left, crossed>> /\ ready' = TRUE
        BY <2>8, <3>1 DEF loaded
      <4>2. QED
        BY <4>1 DEF RowsInv, PageInv, Asks, Flying, requests, tabs, list
    <3>2. CASE ~menu_game_new_selected
      BY <2>2, <2>8, <3>2, Zenon DEF loaded, RowsInv, Kind
    <3>3. QED
      BY <3>1, <3>2
  <2>9. CASE gesture \/ transitionEnd \/ pullDownAction \/ resize \/ UNCHANGED vars
    BY <2>1, <2>9, Zenon DEF gesture, transitionEnd, pullDownAction, resize, vars
  <2>10. QED
    BY <2>3, <2>4, <2>5, <2>6, <2>7, <2>8, <2>9 DEF Next
<1>BarsStep.
    (* Every step keeps the bars typed, and a lower bar that loads awaited. *)
    ASSUME RequestsInv, RowsInv, BarsInv, PullInv, [Next]_vars, RowsInv'
    PROVE  BarsInv' /\ PullInv'
  <2> USE <1>BarsStep
  <2>ScrollEndKeeps.
      (* What onScrollEnd makes of the bars b its caller left: a lower bar that  *)
      (* loads afterwards loaded before, or its timer has just been started.     *)
      ASSUME NEW b \in BarState, UpperBar(b.down, b.timer), pullUpTimer \in Nat,
             \/ Become(b) /\ UNCHANGED pullUpTimer
             \/ onScrollEnd(b)
      PROVE  /\ pullDown' \in Class /\ pullUp' \in Class
             /\ pullDownTimer' \in Nat /\ pullUpTimer' \in Nat
             /\ UpperBar(pullDown', pullDownTimer')
             /\ pullUpTimer > 0 => pullUpTimer' > 0
             /\ pullUp' = "loading" => pullUpTimer' > 0 \/ b.up = "loading"
             /\ Spare(b.down, b.timer) => Spare(pullDown', pullDownTimer')
    <3> USE <2>ScrollEndKeeps
    <3>1. b.down \in Class /\ b.up \in Class /\ b.timer \in Nat
      BY DEF BarState
    <3>2. CASE Become(b) /\ UNCHANGED pullUpTimer
      BY <3>1, <3>2, Zenon DEF Become
    <3>3. CASE onScrollEnd(b)
      <4>1. CASE b.down = "flip" /\ Become([b EXCEPT !.down = "loading", !.timer = @ + 1])
                 /\ UNCHANGED pullUpTimer
        <5>1. /\ pullDown' = "loading" /\ pullUp' = b.up
              /\ pullDownTimer' = b.timer + 1 /\ pullUpTimer' = pullUpTimer
          BY <4>1 DEF Become, BarState
        <5>2. pullDown' \in Class /\ pullUp' \in Class
          BY <3>1, <5>1, Zenon DEF Class
        <5>3. pullDownTimer' \in Nat /\ pullUpTimer' \in Nat /\ UpperBar(pullDown', pullDownTimer')
          BY <3>1, <5>1 DEF UpperBar
        <5>4. Spare(b.down, b.timer) => Spare(pullDown', pullDownTimer')
          BY <3>1, <4>1, <5>1 DEF Spare
        <5>5. QED
          BY <5>1, <5>2, <5>3, <5>4, Zenon
      <4>2. CASE b.down # "flip" /\ Become([b EXCEPT !.up = "loading"]) /\ pullUpTimer' = pullUpTimer + 1
        <5>1. pullDown' = b.down /\ pullUp' = "loading" /\ pullDownTimer' = b.timer
          BY <4>2 DEF Become, BarState
        <5>2. pullUpTimer' \in Nat /\ pullUpTimer' > 0
          BY <4>2
        <5>3. QED
          BY <3>1, <5>1, <5>2, Zenon DEF Class
      <4>3. QED
        BY <3>2, <3>3, <4>1, <4>2, Zenon DEF onScrollEnd
    <3>4. QED
      BY <3>2, <3>3, Zenon
  <2>1. /\ pullDown \in Class /\ pullUp \in Class
        /\ pullDownTimer \in Nat /\ pullUpTimer \in Nat
        /\ minZero \in BOOLEAN /\ maxPos \in BOOLEAN
        /\ y \in Position /\ down \in BOOLEAN /\ moved \in BOOLEAN /\ trn \in BOOLEAN
        /\ UpperBar(pullDown, pullDownTimer)
        /\ Bars \in BarState
        /\ Bars.down = pullDown /\ Bars.up = pullUp /\ Bars.timer = pullDownTimer
    BY DEF BarsInv, TypeBars, TypeScroll, Bars, BarState
  <2>2. ASSUME NEW p \in Position, NEW mv, NEW zero, NEW pos, NEW b, _resetPos(p, mv, zero, pos, b)
        PROVE  /\ y' \in Position /\ moved' \in BOOLEAN
               /\ (Become(b) /\ UNCHANGED pullUpTimer) \/ onScrollEnd(b)
    BY <2>2, Zenon DEF _resetPos, Reset, Top, Position
  <2>3. ASSUME NEW n \in Nat, NEW timer \in Nat, refresh(n, Fit, timer)
        PROVE  /\ BarsInv'
               /\ pullUpTimer > 0 => pullUpTimer' > 0
               /\ pullUp' = "loading" =>
                     \/ pullUpTimer' > 0
                     \/ /\ pullUp = "loading" /\ pullDown = "loading"
                        /\ timer > 0 => Spare(pullDown', pullDownTimer')
    <3> DEFINE b == onRefresh(timer)
               pos == n <= Fit
    <3>1. b \in BarState /\ UpperBar(b.down, b.timer)
      BY <2>1, <2>3, Zenon DEF onRefresh, BarState, UpperBar, Class
    <3>2. /\ b.timer = timer
          /\ b.down = IF pullDown = "loading" THEN "" ELSE pullDown
          /\ b.up = IF pullDown # "loading" /\ pullUp = "loading" THEN "" ELSE pullUp
      BY DEF onRefresh
    <3>3. pos \in BOOLEAN
      BY BoundAssumption
    <3> HIDE DEF b, pos
    <3>4. PICK p \in Position : trn' = (trn \/ Transition(p, FALSE, pos)) /\ _resetPos(p, moved, FALSE, pos, b)
      BY <2>1, <2>3, Zenon DEF refresh, b, pos, Position
    <3>5. minZero' = FALSE /\ maxPos' = pos /\ down' = down
      BY <2>3 DEF refresh, pos
    <3>6. /\ y' \in Position /\ moved' \in BOOLEAN
          /\ (Become(b) /\ UNCHANGED pullUpTimer) \/ onScrollEnd(b)
      BY <2>2, <3>4, Zenon
    <3>7. /\ pullDown' \in Class /\ pullUp' \in Class
          /\ pullDownTimer' \in Nat /\ pullUpTimer' \in Nat
          /\ UpperBar(pullDown', pullDownTimer')
          /\ pullUpTimer > 0 => pullUpTimer' > 0
          /\ pullUp' = "loading" => pullUpTimer' > 0 \/ b.up = "loading"
          /\ Spare(b.down, b.timer) => Spare(pullDown', pullDownTimer')
      BY <2>1, <3>1, <3>6, <2>ScrollEndKeeps, Zenon
    <3>8. BarsInv'
      BY <2>1, <3>3, <3>4, <3>5, <3>6, <3>7, Zenon DEF BarsInv, TypeBars, TypeScroll, Transition
    <3>9. timer > 0 => Spare(b.down, b.timer)
      BY <3>2 DEF Spare
    <3>10. QED
      BY <3>2, <3>7, <3>8, <3>9, Zenon
  <2> DEFINE Kept ==
               /\ pullUpTimer > 0 => pullUpTimer' > 0
               /\ pullUp' = "loading" => pullUpTimer' > 0 \/ pullUp = "loading"
               /\ Spare(pullDown, pullDownTimer) => Spare(pullDown', pullDownTimer')
  <2>4. ASSUME (Become(Bars) /\ UNCHANGED pullUpTimer) \/ onScrollEnd(Bars), UNCHANGED limits,
               down' \in BOOLEAN, y' \in Position, moved' \in BOOLEAN, trn' \in BOOLEAN
        PROVE  BarsInv' /\ Kept
    <3>1. /\ pullDown' \in Class /\ pullUp' \in Class
          /\ pullDownTimer' \in Nat /\ pullUpTimer' \in Nat
          /\ UpperBar(pullDown', pullDownTimer')
          /\ Kept
      BY <2>1, <2>4, <2>ScrollEndKeeps, Zenon
    <3>2. QED
      BY <2>1, <2>4, <3>1, Zenon DEF BarsInv, TypeBars, TypeScroll, limits
  <2>5. ASSUME Gesture \/ _transitionEnd
        PROVE  BarsInv' /\ Kept
    <3>1. CASE _start
      BY <2>1, <3>1, PlaceAssumption, Zenon
      DEF _start, bars, timers, limits, BarsInv, TypeBars, TypeScroll
    <3>2. ASSUME NEW p \in Place, _move(p)
          PROVE  BarsInv' /\ Kept
      <4>1. /\ y' = p /\ moved' = TRUE /\ onScrollMove(p)
            /\ UNCHANGED <<down, trn, pullDownTimer, pullUpTimer>>
        BY <3>2 DEF _move, timers
      <4>2. /\ pullDown' \in Class /\ pullUp' \in Class
            /\ minZero' \in BOOLEAN /\ maxPos' \in BOOLEAN
        BY <2>1, <4>1, Zenon DEF onScrollMove, Class
      <4>3. /\ pullDown' = "loading" => pullDown = "loading"
            /\ pullUp' = "loading" => pullUp = "loading"
        BY <4>1, Zenon DEF onScrollMove
      <4>4. /\ UpperBar(pullDown', pullDownTimer')
            /\ Spare(pullDown, pullDownTimer) => Spare(pullDown', pullDownTimer')
        BY <2>1, <4>1, <4>3 DEF UpperBar, Spare
      <4>5. BarsInv'
        BY <2>1, <3>2, <4>1, <4>2, <4>4, PlaceAssumption DEF BarsInv, TypeBars, TypeScroll
      <4>6. QED
        BY <4>1, <4>3, <4>4, <4>5, Zenon
    <3>3. CASE _end
      <4>1. UNCHANGED limits
        BY <3>3 DEF _end
      <4>2. down' = FALSE
        BY <3>3 DEF _end
      <4>3. CASE _resetPos(y, moved, minZero, maxPos, Bars) /\ trn' = (trn \/ Transition(y, minZero, maxPos))
        <5>1. trn' \in BOOLEAN /\ down' \in BOOLEAN
          BY <4>2, <4>3, Zenon
        <5>2. QED
          BY <2>1, <2>2, <2>4, <4>1, <4>3, <5>1, Zenon
      <4>4. CASE moved /\ y' \in Place /\ moved' = TRUE /\ trn' = TRUE /\ UNCHANGED <<bars, timers>>
        BY <2>1, <4>1, <4>2, <4>4, PlaceAssumption, Zenon
        DEF bars, timers, limits, BarsInv, TypeBars, TypeScroll
      <4>5. QED
        BY <3>3, <4>3, <4>4, Zenon DEF _end
    <3>4. CASE _wheel
      <4>1. y' \in Position /\ moved' = FALSE /\ trn' = FALSE /\ onScrollEnd(Bars) /\ UNCHANGED <<down, limits>>
        BY <3>4 DEF _wheel
      <4>2. down' \in BOOLEAN /\ moved' \in BOOLEAN /\ trn' \in BOOLEAN
        BY <2>1, <4>1, Zenon
      <4>3. QED
        BY <2>4, <4>1, <4>2, Zenon
    <3>5. CASE _transitionEnd
      <4>1. /\ trn' = Transition(y, minZero, maxPos) /\ UNCHANGED <<down, limits>>
            /\ _resetPos(y, moved, minZero, maxPos, Bars)
        BY <3>5 DEF _transitionEnd
      <4>2. trn' \in BOOLEAN
        BY <4>1 DEF Transition
      <4>3. QED
        BY <2>1, <2>2, <2>4, <4>1, <4>2, Zenon
    <3>6. QED
      BY <2>5, <3>1, <3>2, <3>3, <3>4, <3>5, Zenon DEF Gesture
  <2>6. ASSUME NEW n \in Nat, ready, Refresh(n), UNCHANGED ready, stuck' \in BOOLEAN
        PROVE  BarsInv' /\ PullInv'
    <3>1. refresh(n, Fit, pullDownTimer)
      BY <2>6 DEF Refresh
    <3>2. /\ BarsInv'
          /\ pullUp' = "loading" =>
                \/ pullUpTimer' > 0
                \/ pullDown = "loading" /\ (pullDownTimer > 0 => Spare(pullDown', pullDownTimer'))
      BY <2>1, <2>3, <3>1, Zenon
    <3>3. pullUp' = "loading" => Awaited'
      BY <2>1, <3>2, Zenon DEF Awaited, UpperBar
    <3>4. QED
      BY <2>6, <3>2, <3>3, Zenon DEF PullInv
  <2>7. ASSUME UNCHANGED <<scroll, ready>>, stuck' \in BOOLEAN,
               ready => (pullUp = "loading" /\ ~stuck' => Awaited')
        PROVE  BarsInv' /\ PullInv'
    <3>1. BarsInv'
      BY <2>7 DEF BarsInv, TypeBars, TypeScroll, scroll, bars, timers, limits, scroller
    <3>2. QED
      BY <2>7, <3>1, Zenon DEF PullInv, scroll, bars, timers
  <2>8. ASSUME NEW s \in Settings, ajax(s)
        PROVE  \A j \in Slot : Asks(j) => Asks(j)' /\ xhr'[j] = xhr[j]
    BY <2>8 DEF ajax, Asks, Flying, RequestsInv
  <2>9. ready \in BOOLEAN /\ Len(rows) \in Nat /\ stuck \in BOOLEAN
    <3>1. ready \in BOOLEAN /\ rows \in Seq(Row)
      BY DEF RowsInv
    <3>2. stuck \in BOOLEAN
      BY Zenon DEF PullInv
    <3>3. QED
      BY <3>1, <3>2
  <2>10. ASSUME NEW lost, Settle(lost)
         PROVE  /\ stuck' \in BOOLEAN
                /\ pullUp' = "loading" /\ ~stuck' => ~stuck /\ ~lost
    BY <2>10, Zenon DEF Settle
  <2>11. CASE selected_newFile \/ selected_shareFile
    <3>1. UNCHANGED ready /\ Refresh(0) /\ Settle(FALSE)
      BY <2>11, Zenon DEF selected_newFile, selected_shareFile
    <3>2. stuck' \in BOOLEAN
      BY <2>10, <3>1, Zenon
    <3>3. CASE ready
      BY <2>6, <3>1, <3>2, <3>3
    <3>4. CASE ~ready
      BY <2>7, <3>1, <3>2, <3>4 DEF Refresh
    <3>5. QED
      BY <3>3, <3>4
  <2>12. CASE leave
    <3>1. /\ pullDown' = "" /\ pullUp' = "" /\ pullDownTimer' = 0 /\ pullUpTimer' = 0
          /\ minZero' = FALSE /\ maxPos' = TRUE
          /\ y' = "zero" /\ down' = FALSE /\ moved' = FALSE /\ trn' = FALSE
          /\ stuck' = FALSE
      BY <2>12, Zenon DEF leave, Become
    <3>Zero. 0 \in Nat
      OBVIOUS
    <3>2. TypeBars' /\ TypeScroll'
      BY <3>1, <3>Zero, Zenon DEF TypeBars, TypeScroll, Class, Position
    <3>3. UpperBar(pullDown', pullDownTimer')
      BY <3>1, Zenon DEF UpperBar
    <3>4. QED
      BY <3>1, <3>2, <3>3, Zenon DEF BarsInv, PullInv
  <2>13. CASE clickGame
    <3>1. UNCHANGED <<scroll, ready, stuck>> /\ ajax(Counter)
      BY <2>13 DEF clickGame
    <3>2. Awaited => Awaited'
      BY <2>8, <3>1, Zenon DEF Awaited, Settings, scroll, bars, timers
    <3>3. QED
      BY <2>7, <2>9, <3>1, <3>2, Zenon DEF PullInv
  <2>14. CASE loaded
    <3>1. ready' = TRUE /\ UNCHANGED stuck /\ pullUp = "" /\ 0 \in Nat
      BY <2>14 DEF loaded, PullInv
    <3>2. CASE refresh(Len(rows), Fit, 0)
      <4>1. BarsInv' /\ (pullUp' = "loading" => pullUpTimer' > 0)
        BY <2>3, <2>9, <3>1, <3>2, Zenon
      <4>2. QED
        BY <2>9, <3>1, <4>1, Zenon DEF PullInv, Awaited
    <3>3. CASE y' = "min" /\ moved' = FALSE /\ trn' = TRUE /\ UNCHANGED <<down, bars, timers, limits>>
      <4>1. BarsInv' /\ pullUp' = ""
        BY <2>1, <3>1, <3>3, Zenon DEF BarsInv, TypeBars, TypeScroll, bars, timers, limits, Position
      <4>2. QED
        BY <2>9, <3>1, <4>1, Zenon DEF PullInv
    <3>4. QED
      BY <2>14, <3>2, <3>3, Zenon DEF loaded
  <2>15. CASE gesture \/ transitionEnd
    <3>1. ready /\ UNCHANGED <<ready, requests>> /\ (Gesture \/ _transitionEnd) /\ Settle(FALSE)
      BY <2>15, Zenon DEF gesture, transitionEnd
    <3>2. BarsInv' /\ Kept
      BY <2>5, <3>1, Zenon
    <3>3. stuck' \in BOOLEAN /\ (pullUp' = "loading" /\ ~stuck' => ~stuck)
      BY <2>10, <3>1, Zenon
    <3>4. Awaited => Awaited'
      BY <3>1, <3>2, Zenon DEF Awaited, Asks, Flying, requests
    <3>5. pullUp' = "loading" /\ ~stuck' => Awaited'
      BY <3>2, <3>3, <3>4, Zenon DEF PullInv, Awaited
    <3>6. QED
      BY <3>1, <3>2, <3>3, <3>5, Zenon DEF PullInv
  <2>16. CASE pullDownAction
    <3>1. /\ pullDownTimer > 0 /\ refresh(Len(rows), Fit, pullDownTimer - 1) /\ Settle(FALSE)
          /\ UNCHANGED <<ready, requests>>
      BY <2>16, Zenon DEF pullDownAction
    <3>2. ready /\ pullDownTimer - 1 \in Nat
      <4>1. ~ready => pullDownTimer = 0
        BY Zenon DEF PullInv
      <4>2. QED
        BY <2>1, <3>1, <4>1
    <3>3. /\ BarsInv' /\ (pullUpTimer > 0 => pullUpTimer' > 0)
          /\ pullUp' = "loading" =>
                \/ pullUpTimer' > 0
                \/ /\ pullUp = "loading" /\ pullDown = "loading"
                   /\ pullDownTimer - 1 > 0 => Spare(pullDown', pullDownTimer')
      BY <2>3, <2>9, <3>1, <3>2, Zenon
    <3>4. stuck' \in BOOLEAN /\ (pullUp' = "loading" /\ ~stuck' => ~stuck)
      BY <2>10, <3>1, Zenon
    <3>5. pullDown = "loading" /\ Spare(pullDown, pullDownTimer) => pullDownTimer - 1 > 0
      BY <2>1 DEF Spare
    <3>6. Awaited /\ pullUp' = "loading" => Awaited'
      BY <3>1, <3>3, <3>5, Zenon DEF Awaited, Asks, Flying, requests
    <3>7. pullUp' = "loading" /\ ~stuck' => Awaited'
      BY <3>3, <3>4, <3>6, Zenon DEF PullInv, Awaited
    <3>8. QED
      BY <3>1, <3>2, <3>3, <3>4, <3>7 DEF PullInv
  <2>17. CASE pullUpAction
    <3>1. /\ pullUpTimer > 0 /\ pullUpTimer' = pullUpTimer - 1
          /\ UNCHANGED <<bars, pullDownTimer, limits, scroller, ready>>
          /\ Settle(~menu_game_new_selected)
      BY <2>17 DEF pullUpAction
    <3>2. ready
      <4>1. ~ready => pullUpTimer = 0
        BY Zenon DEF PullInv
      <4>2. QED
        BY <2>1, <3>1, <4>1
    <3>3. BarsInv'
      <4>1. pullUpTimer' \in Nat
        BY <2>1, <3>1
      <4>2. QED
        BY <2>1, <3>1, <4>1, Zenon DEF BarsInv, TypeBars, TypeScroll, bars, limits, scroller
    <3>4. stuck' \in BOOLEAN /\ (pullUp' = "loading" /\ ~stuck' => menu_game_new_selected)
      BY <2>10, <3>1, Zenon
    <3>5. menu_game_new_selected => Awaited'
      <4>1. SUFFICES ASSUME menu_game_new_selected
                     PROVE  Awaited'
        OBVIOUS
      <4> DEFINE s == [cmd |-> "newFile", fromId |-> alreadyLoadGameCnt, pulled |-> TRUE]
      <4>2. PICK i \in Slot \ Flying : xhr' = [xhr EXCEPT ![i] = s]
        BY <2>17, <4>1 DEF pullUpAction, loadGamesBar, ajax
      <4>3. s \in Settings /\ s # Counter /\ s.pulled
        BY DEF Settings, Kind, RowsInv, Counter
      <4>4. xhr'[i] = s
        BY <4>2 DEF RequestsInv
      <4>5. Asks(i)' /\ xhr'[i].pulled
        BY <4>3, <4>4, NoRequestAssumption DEF Asks, Flying
      <4>6. QED
        BY <4>5, Zenon DEF Awaited
    <3>6. QED
      BY <3>1, <3>2, <3>3, <3>4, <3>5 DEF PullInv
  <2>18. CASE resize
    BY <2>6, <2>9, <2>10, <2>18, Zenon DEF resize
  <2>19. ASSUME NEW i \in Slot, NEW outcome \in Outcome, answer(i, outcome)
         PROVE  BarsInv' /\ PullInv'
    <3> DEFINE lost == xhr[i] # Counter /\ outcome # "data" /\ xhr[i].pulled
    <3>1. i \in Flying /\ xhr' = [xhr EXCEPT ![i] = NULL] /\ UNCHANGED ready /\ Settle(lost)
      BY <2>19 DEF answer, onreadystatechange
    <3>2. stuck' \in BOOLEAN /\ (pullUp' = "loading" /\ ~stuck' => ~stuck /\ ~lost)
      BY <2>10, <3>1, Zenon
    <3>3. CASE success(xhr[i]) /\ Refresh(Len(rows'))
      <4>1. Len(rows') \in Nat
        BY DEF RowsInv
      <4>2. CASE ready
        BY <2>6, <3>1, <3>2, <3>3, <4>1, <4>2
      <4>3. CASE ~ready
        BY <2>7, <3>1, <3>2, <3>3, <4>3 DEF Refresh
      <4>4. QED
        BY <4>2, <4>3
    <3>4. CASE ~(outcome = "data" /\ xhr[i] # Counter) /\ UNCHANGED scroll
      <4>1. pullUp = "loading" /\ ~stuck' => Awaited'
        <5>1. SUFFICES ASSUME pullUp = "loading", ~stuck'
                       PROVE  Awaited'
          OBVIOUS
        <5>2. Awaited /\ ~lost
          BY <3>2, <3>4, <5>1 DEF PullInv, scroll, bars
        <5>3. \A j \in Slot \ {i} : Asks(j) => Asks(j)' /\ xhr'[j] = xhr[j]
          BY <3>1 DEF Asks, Flying, RequestsInv
        <5>4. ~(Asks(i) /\ xhr[i].pulled)
          BY <3>4, <5>2 DEF Asks
        <5>5. QED
          BY <3>4, <5>2, <5>3, <5>4, Zenon DEF Awaited, scroll, bars, timers
      <4>2. QED
        BY <2>7, <3>1, <3>2, <3>4, <4>1
    <3>5. QED
      BY <2>19, <3>3, <3>4 DEF answer
  <2>20. CASE UNCHANGED vars
    <3>1. UNCHANGED <<scroll, ready, stuck, requests>>
      BY <2>20 DEF vars
    <3>2. Awaited => Awaited'
      BY <3>1, Zenon DEF Awaited, Asks, Flying, requests, scroll, bars, timers
    <3>3. QED
      BY <2>7, <2>9, <3>1, <3>2, Zenon DEF PullInv
  <2>21. QED
    BY <2>11, <2>12, <2>13, <2>14, <2>15, <2>16, <2>17, <2>18, <2>19, <2>20 DEF Next
<1>1. Init => FileListInv
  <2> SUFFICES ASSUME Init
               PROVE  FileListInv
    OBVIOUS
  <2>1. RequestsInv
    <3>1. Flying = {}
      BY DEF Init, InitAjax, Flying
    <3>2. Cardinality(Flying) = 0
      BY <3>1, FS_EmptySet
    <3>3. QED
      BY <3>2 DEF Init, InitAjax, RequestsInv
  <2>2. RowsInv
    <3>1. {ready, menu_game_new_selected, left, crossed} \subseteq BOOLEAN /\ ~menu_game_new_selected
      BY Zenon DEF Init
    <3>2. icon \in Kind \cup {NULL} /\ rows \in Seq(Row) /\ alreadyLoadGameCnt = Len(rows)
      BY DEF Init
    <3>3. QED
      BY <3>1, <3>2 DEF RowsInv
  <2>3. PageInv
    <3>1. Len(rows) = 0 /\ \A i \in Slot : ~Asks(i)
      BY DEF Init, InitAjax, Asks, Flying
    <3>2. QED
      BY <3>1, PageAssumption DEF PageInv
  <2>4. BarsInv
    <3>1. 0 \in Nat
      OBVIOUS
    <3>2. QED
      BY <3>1, Zenon DEF Init, InitBars, InitScroll, BarsInv, TypeBars, TypeScroll, UpperBar, Class, Position
  <2>5. PullInv
    BY Zenon DEF Init, InitBars, PullInv
  <2>6. QED
    BY <2>1, <2>2, <2>3, <2>4, <2>5 DEF FileListInv
<1>2. FileListInv /\ [Next]_vars => FileListInv'
  <2> SUFFICES ASSUME FileListInv, [Next]_vars
               PROVE  FileListInv'
    OBVIOUS
  <2>1. RequestsInv' /\ RowsInv' /\ PageInv'
    BY <1>RequestsStep, <1>RowsStep DEF FileListInv
  <2>2. QED
    BY <2>1, <1>BarsStep DEF FileListInv
<1>3. QED
  BY <1>1, <1>2, PTL DEF Spec

(* The variables of game_bar.js, iscroll.js and ajax.js keep their types,  *)
(* and the next page starts where the rows end.                            *)
THEOREM TypeCorrect == Spec => []TypeOK
<1>1. FileListInv => TypeOK
  <2> SUFFICES ASSUME FileListInv
               PROVE  TypeOK
    OBVIOUS
  <2>1. \A k \in 1 .. Len(rows) : rows[k].kind \in Kind /\ rows[k].id \in 1 .. Files
    <3>1. \A k \in 1 .. Len(rows) : rows[k] \in Row
      BY DEF FileListInv, RowsInv
    <3>2. QED
      BY <3>1 DEF Row
  <2>2. /\ {ready, menu_game_new_selected, left, crossed} \subseteq BOOLEAN
        /\ icon \in Kind \cup {NULL} /\ alreadyLoadGameCnt = Len(rows)
    BY DEF FileListInv, RowsInv
  <2>3. active \in Nat
    BY DEF FileListInv, RequestsInv
  <2>4. TypeBars /\ TypeScroll /\ stuck \in BOOLEAN
    BY Zenon DEF FileListInv, BarsInv, PullInv
  <2>5. QED
    BY <2>1, <2>2, <2>3, <2>4 DEF TypeOK
<1>2. QED
  BY <1>1, FileListAlways, PTL

(* Unless two requests of lists were under way at once, the list shows the *)
(* first files of the selected tab, in order.                              *)
THEOREM ListIsPrefixHolds == Spec => []ListIsPrefix
<1>1. FileListInv => ListIsPrefix
  BY DEF FileListInv, PageInv, ListIsPrefix
<1>2. QED
  BY <1>1, FileListAlways, PTL

(* $.active is zero, and ajaxStop reports that the requests have stopped,  *)
(* only when none is under way: each is counted until it ends.             *)
THEOREM StopsWhenIdleHolds == Spec => []StopsWhenIdle
<1>1. FileListInv => StopsWhenIdle
  <2> SUFFICES ASSUME FileListInv, active = 0
               PROVE  Flying = {}
    BY DEF StopsWhenIdle
  <2>1. IsFiniteSet(Flying)
    BY SlotAssumption, FS_Subset DEF Flying
  <2>2. Cardinality(Flying) \in Nat /\ Cardinality(Flying) <= 0
    BY <2>1, FS_CardinalityType DEF FileListInv, RequestsInv
  <2>3. QED
    BY <2>1, <2>2, FS_EmptySet
<1>2. QED
  BY <1>1, FileListAlways, PTL

(* A bar that shows loading has a timer or an answer still to come that    *)
(* resets it.                                                              *)
THEOREM PullAwaitedHolds == Spec => []PullAwaited
<1>1. FileListInv => PullAwaited
  BY Zenon DEF FileListInv, BarsInv, UpperBar, PullInv, Awaited, Spare, Asks, PullAwaited
<1>2. QED
  BY <1>1, FileListAlways, PTL
=============================================================================
