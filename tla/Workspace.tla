------------------------------ MODULE Workspace -----------------------------
(***************************************************************************)
(* The open documents (renderer/store/ui-store.ts, pages/Workspace.tsx,    *)
(* ui/tab-strip.tsx, hooks/useGlobalShortcuts.ts): the tabs and the one on *)
(* show, what closes, renames or moves them, the guards of unsaved edits,  *)
(* and the workspace that is restored at the next start.                   *)
(*                                                                         *)
(* A view is its kind, its place (connection, database, table or path; the *)
(* two ends of a comparison) and, for a table, its sub-tab.                *)
(***************************************************************************)
EXTENDS Unset, FiniteSets, Sequences, SequencesExt

CONSTANTS Openable,   \* views that can be opened
          Broken,     \* what a damaged store holds instead of a view
          MaxTabs,
          MaxActs     \* bound on what happens after the start

ViewKinds == {"database", "table", "table-compare", "sql", "database-export",
              "ssh-files", "ssh-terminal", "ssh-editor", "diff"}
TableViewTabKind == {"data", "structure", "info"}
Place == [ends : Seq(STRING \X STRING), table : STRING \cup {None}, path : Seq(STRING)]
TabIds == [kind : ViewKinds, at : Place]
View ==
  {v \in [kind : ViewKinds, at : Place, sub : STRING \cup TableViewTabKind \cup {None},
          engine : STRING \cup {None}] :
     /\ v.kind # "diff" => v.at.ends # <<>>
     /\ v.kind \in {"table", "table-compare"} => v.at.table # None
     /\ v.kind # "table" => v.sub = None
     /\ v.kind \notin {"database", "table", "sql"} => v.engine = None}
ASSUME OpenableAssumption == Openable \subseteq View /\ Broken \notin View
ASSUME TabIdsAssumption == None \notin TabIds

VARIABLES
  tabs,      \* workspaceTabs
  active,    \* activeTabId
  right,     \* rightView
  dirty,     \* tabs whose close guard answers that there are unsaved edits
  asking,    \* tabs whose guard has opened its question
  strip,     \* TabStrip: nothing, or the tab being dragged or whose menu is open
  moving,    \* SSHFileManager: the move of a remote file on its way
  acts,
  clash      \* history: a table was renamed to the name of another open tab

wsVars == <<tabs, active, right, dirty, asking, strip, moving, acts, clash>>

EmptyView == [kind |-> "empty"]
TabId(view) == [kind |-> view.kind, at |-> view.at]
TableAt(end, table) == [ends |-> <<end>>, table |-> table, path |-> <<>>]
TableTab(end, table) == [kind |-> "table", at |-> TableAt(end, table)]
Tab(view) == [id |-> TabId(view), view |-> view]
Ids(seq) == {seq[i].id : i \in DOMAIN seq}
HasTab(seq, id) == id \in Ids(seq)
IndexOf(seq, id) == IF HasTab(seq, id) THEN CHOOSE i \in DOMAIN seq : seq[i].id = id ELSE 0
Find(seq, id) == seq[IndexOf(seq, id)]
Clamp(i, n) == IF i < 1 THEN 1 ELSE IF i > n THEN n ELSE i

\* What a sequence has at some places, in its order.
UpTo(places, i) == {j \in places : j <= i}
Nth(places, k) == CHOOSE i \in places : Cardinality(UpTo(places, i)) = k
Kept(seq, places) == [k \in 1..Cardinality(places) |-> seq[Nth(places, k)]]
\* The first place of each tab.
Firsts(seq) == {i \in DOMAIN seq : \A j \in 1..(i - 1) : seq[j].id # seq[i].id}

\* The pointer holds one thing at a time, and a question is modal.
Free == asking = {} /\ strip = None /\ ~(moving # None /\ moving.asks)

(* The tab shown after one was removed. *)
Show(id, view) == active' = id /\ right' = view
PickActiveState(seq, preferred) ==
  IF seq = <<>> THEN Show(None, EmptyView)
  ELSE LET t == seq[Clamp(preferred, Len(seq))] IN Show(t.id, t.view)
PickActiveById(seq, id, preferred) ==
  IF seq = <<>> THEN Show(None, EmptyView)
  ELSE LET t == IF preferred # None /\ HasTab(seq, preferred) THEN Find(seq, preferred)
                ELSE IF HasTab(seq, id) THEN Find(seq, id) ELSE seq[1]
       IN  Show(t.id, t.view)

\* A view unmounted takes its guard and its question along.
Rendered == dirty' = dirty \cap Ids(tabs') /\ asking' = asking \cap Ids(tabs')
\* The strip, with its menu and the tab dragged over it, is there while tabs are.
Strip == strip' = (IF tabs' = <<>> THEN None ELSE strip) /\ UNCHANGED moving

-----------------------------------------------------------------------------
(* Opening and choosing                                                    *)

\* A table that is open keeps its sub-tab unless another is asked for.
MergeTableTab(next, previous) ==
  IF next.kind = "table" /\ next.sub = None /\ previous.kind = "table"
  THEN [next EXCEPT !.sub = previous.sub] ELSE next
SetRightView(view) ==
  LET id == TabId(view)
      old == HasTab(tabs, id)
      next == IF old THEN MergeTableTab(view, Find(tabs, id).view) ELSE view
  IN  /\ old \/ Len(tabs) < MaxTabs
      /\ tabs' = IF old THEN [i \in DOMAIN tabs |-> IF tabs[i].id = id THEN Tab(next) ELSE tabs[i]]
                 ELSE Append(tabs, Tab(next))
      /\ Show(id, next)
      /\ Rendered /\ Strip /\ UNCHANGED clash
SetActiveTab(id) ==
  /\ active # id /\ HasTab(tabs, id)
  /\ Show(id, Find(tabs, id).view) /\ tabs' = tabs
  /\ Rendered /\ Strip /\ UNCHANGED clash
SetTableTab(id, sub) ==
  /\ HasTab(tabs, id) /\ Find(tabs, id).view.kind = "table" /\ Find(tabs, id).view.sub # sub
  /\ LET next == [Find(tabs, id).view EXCEPT !.sub = sub]
     IN  /\ tabs' = [i \in DOMAIN tabs |-> IF tabs[i].id = id THEN [tabs[i] EXCEPT !.view = next] ELSE tabs[i]]
         /\ Show(active, IF active = id THEN next ELSE right)
  /\ Rendered /\ Strip /\ UNCHANGED clash

-----------------------------------------------------------------------------
(* Closing                                                                 *)

CanClose(id) == id \notin dirty
PlacesOf(id) == {i \in DOMAIN tabs : tabs[i].id = id}

\* The tabs at gone go; the tab shown gives way to its left neighbour by the place it had.
Close(gone) ==
  /\ gone # {} /\ tabs' = Kept(tabs, DOMAIN tabs \ gone)
  /\ IF active # None /\ IndexOf(tabs, active) \in gone
     THEN PickActiveState(tabs', IndexOf(tabs, active) - 1) ELSE Show(active, right)
  /\ Rendered
\* Only a tab that is closed on its own may ask.
CloseTab(id) ==
  /\ HasTab(tabs, id)
  /\ IF CanClose(id) THEN Close(PlacesOf(id))
     ELSE asking' = asking \cup {id} /\ UNCHANGED <<tabs, active, right, dirty>>
  /\ UNCHANGED <<moving, clash>> /\ strip' = None
\* The question is confirmed: the guard lets it go now.
ConfirmDiscard(id) ==
  /\ id \in asking /\ Close(PlacesOf(id)) /\ Strip /\ UNCHANGED clash
DismissDiscard(id) ==
  /\ id \in asking /\ asking' = asking \ {id}
  /\ UNCHANGED <<tabs, active, right, dirty, clash>> /\ Strip

\* Bulk closes keep what is not clean, and leave all as it is if that is everything.
KeepAt(places) ==
  /\ places # DOMAIN tabs /\ tabs' = Kept(tabs, places)
  /\ Rendered /\ strip' = None /\ UNCHANGED <<moving, clash>>
NotClean == {i \in DOMAIN tabs : ~CanClose(tabs[i].id)}
CloseOthersAnyway(id) ==
  /\ HasTab(tabs, id) /\ KeepAt(PlacesOf(id)) /\ Show(id, Find(tabs, id).view)
CloseOtherTabs(id) ==
  /\ HasTab(tabs, id) /\ KeepAt(PlacesOf(id) \cup NotClean)
  /\ Show(id, Find(tabs, id).view)
CloseToRightOfActive(id) ==
  /\ HasTab(tabs, id) /\ KeepAt(1..IndexOf(tabs, id) \cup NotClean) /\ Show(active, right)
CloseTabsToRight(id) ==
  /\ HasTab(tabs, id) /\ KeepAt(1..IndexOf(tabs, id) \cup NotClean)
  /\ PickActiveById(tabs', active, IF HasTab(tabs', active) THEN None ELSE id)
CloseAllTabs == KeepAt(NotClean) /\ PickActiveById(tabs', active, None)

MoveTab(id, target) ==
  LET i == IndexOf(tabs, id)
      j == IndexOf(tabs, target)
  IN  /\ id # target /\ HasTab(tabs, id) /\ HasTab(tabs, target)
      /\ tabs' = InsertAt(RemoveAt(tabs, i), IF i < j THEN j - 1 ELSE j, tabs[i])
      /\ Show(active, right) /\ Rendered

-----------------------------------------------------------------------------
(* Objects dropped, renamed and moved                                      *)

\* The ends of a view: <<connection, database>>, and the table it is about.
Ends(view) == IF view.kind \in {"table-compare", "database", "sql", "table", "database-export"}
              THEN ToSet(view.at.ends) ELSE {}
TableOf(view) == view.at.table
OfDatabase(view, end) == view.kind # "database-export" /\ end \in Ends(view)
OfConnection(view, c) == \E end \in Ends(view) : end[1] = c
OfTable(view, end, table) == TableOf(view) = table /\ end \in Ends(view)

CloseWhere(gone) == Close(gone) /\ Strip /\ UNCHANGED clash
CloseDatabaseTabs(end) == CloseWhere({i \in DOMAIN tabs : OfDatabase(tabs[i].view, end)})
CloseConnectionDatabaseTabs(c) == CloseWhere({i \in DOMAIN tabs : OfConnection(tabs[i].view, c)})
CloseTableTabs(end, table) == CloseWhere({i \in DOMAIN tabs : OfTable(tabs[i].view, end, table)})

\* The table's tab follows it, and comparisons with it are closed.
RenameTableTabs(end, old, new) ==
  LET oldId == TableTab(end, old)
      Renamed(t) == Tab([t.view EXCEPT !.at = TableAt(end, new)])
      gone == {i \in DOMAIN tabs : tabs[i].view.kind = "table-compare" /\ OfTable(tabs[i].view, end, old)}
      next == [i \in DOMAIN tabs |-> IF tabs[i].id = oldId THEN Renamed(tabs[i]) ELSE tabs[i]]
  IN  /\ HasTab(tabs, oldId) \/ gone # {}
      /\ tabs' = Kept(next, DOMAIN tabs \ gone)
      /\ IF active = oldId /\ HasTab(tabs, oldId) THEN Show(TableTab(end, new), Renamed(Find(tabs, oldId)).view)
         ELSE IF active # None /\ IndexOf(tabs, active) \in gone
              THEN PickActiveState(tabs', IndexOf(tabs, active) - 1) ELSE Show(active, right)
      /\ clash' = (clash \/ (HasTab(tabs, oldId) /\ HasTab(tabs, TableTab(end, new))))
      /\ Rendered /\ Strip

\* Editors below the path follow it; of two at one path the first stays.
Below(view, c, path) ==
  view.kind = "ssh-editor" /\ view.at.ends[1][1] = c /\ IsPrefix(path, view.at.path)
MoveSSHPathTabs(c, old, new) ==
  LET Affected(t) == Below(t.view, c, old)
      Moved(t) == Tab([t.view EXCEPT !.at.path = new \o SubSeq(@, Len(old) + 1, Len(@))])
      next == [i \in DOMAIN tabs |-> IF Affected(tabs[i]) THEN Moved(tabs[i]) ELSE tabs[i]]
      follows == active # None /\ Affected(Find(tabs, active))
  IN  /\ old # new /\ \E i \in DOMAIN tabs : Affected(tabs[i])
      /\ tabs' = Kept(next, Firsts(next))
      /\ IF ~follows THEN Show(active, right)
         ELSE LET t == Find(tabs', Moved(Find(tabs, active)).id) IN Show(t.id, t.view)
      /\ Rendered
UnsavedBelow(c, old) ==
  {id \in dirty : Below(Find(tabs, id).view, c, old)}
HasUnsavedSSHPathTabs(c, old) == UnsavedBelow(c, old) # {}
\* The file manager asks first if editors below are not clean, and moves the tabs
\* when the server has answered; what is typed meanwhile it does not see.
StartMove(c, old, new) ==
  /\ Free /\ moving = None /\ old # new
  /\ moving' = [conn |-> c, old |-> old, new |-> new, asks |-> HasUnsavedSSHPathTabs(c, old),
               known |-> UnsavedBelow(c, old)]
  /\ UNCHANGED <<tabs, active, right, dirty, asking, strip, clash>>
ConfirmMove ==
  /\ moving # None /\ moving.asks
  /\ moving' = [moving EXCEPT !.asks = FALSE]
  /\ UNCHANGED <<tabs, active, right, dirty, asking, strip, clash>>
\* The question is dismissed, or the server refuses.
MoveDropped ==
  /\ moving # None /\ moving' = None
  /\ UNCHANGED <<tabs, active, right, dirty, asking, strip, clash>>
MoveDone ==
  /\ moving # None /\ ~moving.asks /\ moving' = None
  /\ \/ MoveSSHPathTabs(moving.conn, moving.old, moving.new)
     \/ /\ \A i \in DOMAIN tabs : ~Below(tabs[i].view, moving.conn, moving.old)
        /\ UNCHANGED <<tabs, active, right, dirty, asking>>
  /\ UNCHANGED <<strip, clash>>

-----------------------------------------------------------------------------
(* Restoring at the start: the stored tabs are checked one by one.         *)

Volatile == {"ssh-terminal", "database-export"}
IsRestorable(view) == view.kind \notin Volatile /\ view # Broken
NormalizeRestored(view) ==
  IF view.kind = "table" /\ view.sub \notin TableViewTabKind \cup {None}
  THEN [view EXCEPT !.sub = None] ELSE view
RestoredTabs(views) ==
  LET good == Kept(views, {i \in DOMAIN views : IsRestorable(views[i])})
      all == [i \in DOMAIN good |-> Tab(NormalizeRestored(good[i]))]
  IN  Kept(all, Firsts(all))
RestoredActive(seq, id) ==
  IF seq = <<>> \/ id = None THEN None ELSE IF HasTab(seq, id) THEN id ELSE seq[1].id
ViewOn(seq, id) == IF id = None THEN EmptyView ELSE Find(seq, id).view
\* What is stored is what there is; a user may have edited it.
Restart(views, id) ==
  /\ tabs' = RestoredTabs(views)
  /\ LET a == RestoredActive(tabs', id) IN Show(a, ViewOn(tabs', a))
  /\ dirty' = {} /\ asking' = {}
  /\ strip' = None /\ moving' = None /\ clash' = FALSE
\* The program starts with the workspace that was stored.
WSInit ==
  /\ \E n \in 0..(MaxTabs - 1) : \E views \in [1..n -> Openable] : tabs = RestoredTabs(views)
  /\ \E id \in {None} \cup {TabId(v) : v \in Openable} : active = RestoredActive(tabs, id)
  /\ right = ViewOn(tabs, active)
  /\ dirty = {} /\ asking = {} /\ strip = None /\ moving = None
  /\ acts = 0 /\ clash = FALSE
StoredViews == [i \in DOMAIN tabs |-> tabs[i].view]

-----------------------------------------------------------------------------
(* The screen                                                              *)

SubTabs(view) == IF view.engine = "redis" THEN {"data", "info"} ELSE TableViewTabKind
EmptyScreen == active = None \/ right = EmptyView
TabMenu(id) ==
  {"close", "close-all"}
  \cup {d \in {"close-others"} : Len(tabs) > 1}
  \cup {d \in {"close-right"} : IndexOf(tabs, id) \in 1..(Len(tabs) - 1)}
Edits == {"sql", "ssh-editor", "database-export"}

Touch(id, how) ==
  /\ Free /\ ~EmptyScreen /\ strip' = [id |-> id, how |-> how]
  /\ UNCHANGED <<tabs, active, right, dirty, asking, moving, clash>>
OpenMenu(id) == Touch(id, "menu")
Drag(id) == Touch(id, "drag")
CloseMenu ==
  /\ strip # None /\ strip' = None
  /\ UNCHANGED <<tabs, active, right, dirty, asking, moving, clash>>
ChooseInMenu ==
  /\ strip # None /\ strip.how = "menu"
  /\ \/ "close" \in TabMenu(strip.id) /\ CloseTab(strip.id)
     \/ "close-others" \in TabMenu(strip.id) /\ CloseOtherTabs(strip.id)
     \/ "close-right" \in TabMenu(strip.id) /\ CloseTabsToRight(strip.id)
     \/ "close-all" \in TabMenu(strip.id) /\ CloseAllTabs
Drop(target) ==
  /\ strip # None /\ strip.how = "drag" /\ strip' = None
  /\ \/ MoveTab(strip.id, target)
     \/ /\ ~HasTab(tabs, strip.id) \/ strip.id = target
        /\ UNCHANGED <<tabs, active, right, dirty, asking>>
  /\ UNCHANGED <<moving, clash>>
\* Text that is not saved guards its tab, and so does an export that runs.  The user
\* edits in the view on show; a file read and an export's answer reach hidden ones too.
Edit(id) ==
  /\ HasTab(tabs, id) /\ id.kind \in Edits /\ id \notin dirty
  /\ id.kind = "ssh-editor" => Free /\ id = active
  /\ dirty' = dirty \cup {id}
  /\ moving' = IF moving = None THEN None ELSE [moving EXCEPT !.known = @ \cup {id}]
  /\ UNCHANGED <<tabs, active, right, asking, strip, clash>>
Save(id) ==
  /\ id \in dirty /\ dirty' = dirty \ {id}
  /\ UNCHANGED <<tabs, active, right, asking, clash>> /\ Strip

(* Shortcuts: the next or former tab around the ends, the n-th, the last. *)
From == IF HasTab(tabs, active) THEN IndexOf(tabs, active) ELSE 1
NextTab == (From % Len(tabs)) + 1
FormerTab == IF From = 1 THEN Len(tabs) ELSE From - 1
CycleTab == tabs # <<>> /\ \E i \in {NextTab, FormerTab} : SetActiveTab(tabs[i].id)
JumpToTab(digit) ==
  /\ tabs # <<>> /\ (digit = 9 \/ digit <= Len(tabs))
  /\ SetActiveTab(tabs[IF digit = 9 THEN Len(tabs) ELSE digit].id)
\* Left, Right, Home and End in the strip.
ArrowKeys ==
  ~EmptyScreen /\ \E i \in {1, Len(tabs), NextTab, FormerTab} : SetActiveTab(tabs[i].id)
CloseByKey == active # None /\ CloseTab(active)
OpenSQLConsole ==
  /\ right.kind \in {"table", "database", "sql"}
  /\ SetRightView([kind |-> "sql", sub |-> None, engine |-> right.engine,
                   at |-> [ends |-> <<right.at.ends[1]>>, table |-> None, path |-> <<>>]])

-----------------------------------------------------------------------------
OpenableEnds == UNION {Ends(v) : v \in Openable}
Names == {TableOf(v) : v \in Openable} \ {None}
EditorViews == {v \in Openable : v.kind = "ssh-editor"}
Folders == UNION {{<<v.at.ends[1][1], SubSeq(v.at.path, 1, n)>> : n \in DOMAIN v.at.path} : v \in EditorViews}

Opening == \/ \E v \in Openable : SetRightView(v)
           \/ OpenSQLConsole
           \/ \E sub \in TableViewTabKind :
                /\ ~EmptyScreen /\ right.kind = "table" /\ sub \in SubTabs(right)
                /\ SetTableTab(active, sub)
Choosing == \/ \E id \in Ids(tabs) :
                 \/ Free /\ (SetActiveTab(id) \/ CloseTab(id))
                 \/ OpenMenu(id) \/ Drag(id) \/ Drop(id)
            \/ CloseMenu \/ ChooseInMenu
            \/ \E id \in asking : ConfirmDiscard(id) \/ DismissDiscard(id)
Keyboard == CycleTab \/ (\E d \in {1, 2, 9} : JumpToTab(d)) \/ ArrowKeys \/ CloseByKey
Guards == \E id \in Ids(tabs) : Edit(id) \/ Save(id)
Objects ==
  \/ \E end \in OpenableEnds :
       \/ CloseDatabaseTabs(end) \/ CloseConnectionDatabaseTabs(end[1])
       \/ \E old, new \in Names : CloseTableTabs(end, old) \/ (old # new /\ RenameTableTabs(end, old, new))
  \/ \E f, g \in Folders :
       f[1] = g[1] /\ Len(f[2]) = Len(g[2]) /\ StartMove(f[1], f[2], g[2])
  \/ ConfirmMove \/ MoveDropped \/ MoveDone
WSRestart == \E id \in {active} \cup {TabId(v) : v \in Openable} :
  \/ Restart(StoredViews, id)
  \/ \E v \in Openable \cup {Broken} : Len(tabs) < MaxTabs /\ Restart(<<v>> \o StoredViews, id)
WSNext ==
  /\ acts < MaxActs /\ acts' = acts + 1
  /\ Opening \/ Choosing \/ Keyboard \/ Guards \/ Objects \/ WSRestart

WSSpec == WSInit /\ [][WSNext]_wsVars

-----------------------------------------------------------------------------
\* The list of tabs, the active one and the view on show never disagree, whatever
\* is closed, renamed or moved below them; no two tabs are the same document,
\* unless a table took the name of another open tab; guards and questions belong to
\* open tabs (ui-store.ts:284, 715).
TabsAgree ==
  ~clash =>
    /\ \A i, j \in DOMAIN tabs : tabs[i].id = tabs[j].id => i = j
    /\ \A i \in DOMAIN tabs : tabs[i].id = TabId(tabs[i].view)
    /\ active = None => right = EmptyView
    /\ active # None => \E i \in DOMAIN tabs : tabs[i].id = active /\ tabs[i].view = right
    /\ dirty \cup asking \subseteq Ids(tabs)

\* Unsaved edits in remote files are only lost to a question that was answered: no
\* bulk close, drop of an object, or move takes the tab of an editor that is not
\* clean, but for what was typed while a move was on its way
\* (ui-store.ts:478, SSHFileManager.tsx:190, SSHFileEditor.tsx:141).
UnsavedTabsStay ==
  [][\A id \in dirty \ dirty' : id.kind = "ssh-editor" =>
       id \in asking \/ id \in Ids(tabs') \/ (moving # None /\ id \in moving.known)]_wsVars
=============================================================================
