------------------------------ MODULE SidebarRows -----------------------------
(***************************************************************************)
(* The explorer as rows (renderer/components/layout): sidebar-tree-rows.ts *)
(* flattens what is loaded, redis-key-tree.ts groups keys by their parts,  *)
(* SidebarTree.tsx moves the focus with the keyboard and saves it when its *)
(* row goes away; the width and the rail are of sidebar-store.ts,          *)
(* Sidebar.tsx and SidebarRail.tsx.  What is loaded changes at will here;  *)
(* Sidebar says how.                                                       *)
(*                                                                         *)
(* A row is known by its path: group, connection, database, then a table  *)
(* or the parts of a key.  Names are numbers, which are their order too,   *)
(* and a key's last part is beyond all folders; so the rows are in the     *)
(* order of their paths.                                                   *)
(***************************************************************************)
EXTENDS Unset, SidebarWidth, Sequences, SequencesExt

CONSTANTS Forests,      \* what may be loaded: connection -> node
          GroupOf,      \* connection -> group
          Keywords      \* keyword -> the connections it finds

\* The names and parts of names are numbers, and what is loaded is finite.
IsNode(nd) ==
  /\ nd.dbs \subseteq Nat /\ IsFiniteSet(nd.dbs) /\ IsFiniteSet(nd.visible)
  /\ nd.visible \subseteq IF nd.redis THEN Seq(Nat) \ {<<>>} ELSE Nat
IsForest(f) ==
  /\ DOMAIN f \subseteq Nat /\ IsFiniteSet(DOMAIN f)
  /\ \A c \in DOMAIN f : GroupOf[c] \in Nat /\ (f[c] = None \/ IsNode(f[c]))
ForestAssumption == \A f \in Forests : IsForest(f)

VARIABLES forest, keyword, foldedKeys, activeKey,
          viewport, width, drag, rail

rowVars == <<forest, keyword, foldedKeys, activeKey, viewport, width, drag, rail>>
shapeVars == <<viewport, width, drag, rail>>

-----------------------------------------------------------------------------
(* The rows                                                                *)

Row(type, path) == [type |-> type, path |-> path]
Leaf(name) == name + 100
\* A key of several parts is in a folder for each but its last.
BuildRedisKeyTree(keys, base) ==
  {Row("redis-folder", base \o q) : q \in UNION {{SubSeq(k, 1, n) : n \in 1..(Len(k) - 1)} : k \in keys}}
  \cup {Row("redis-key", base \o Append(Front(k), Leaf(Last(k)))) : k \in keys}
PushRedisNodes(keys, base, folded) ==
  {r \in BuildRedisKeyTree(keys, base) : \A n \in 1..(Len(r.path) - 1) : SubSeq(r.path, 1, n) \notin folded}

TableRows(base, db, nd, folded) ==
  LET names == IF db \in DOMAIN nd.lists THEN nd.lists[db] ELSE {}
      visible == names \cap nd.visible
      schemas == IF db \in DOMAIN nd.schemas THEN {Row("schema-picker", base)} ELSE {}
      empty == db \in DOMAIN nd.lists /\ visible = {} /\ db \notin nd.busy \cup nd.errors
  IN  IF db \in nd.busy /\ ~nd.redis THEN schemas \cup {Row("loading", base)}
      ELSE IF db \in nd.errors /\ ~nd.redis THEN schemas \cup {Row("browse-error", base)}
      ELSE schemas \cup {Row("filter", base)}
           \cup (IF db \in nd.errors THEN {Row("browse-error", base)} ELSE {})
           \cup (IF nd.redis THEN PushRedisNodes(visible, base, folded) \cup {Row("redis-scan", base)}
                 ELSE {Row("table", Append(base, t)) : t \in visible})
           \cup (IF empty THEN {Row("message", base)} ELSE {})
DatabaseRows(base, nd, folded) ==
  (IF nd.loading THEN {Row("loading", base)} ELSE {})
  \cup {Row("database", Append(base, db)) : db \in nd.dbs}
  \cup (IF nd.redis THEN {} ELSE {Row("add-database", base)})
  \cup UNION {TableRows(Append(base, db), db, nd, folded) : db \in nd.shown \cap nd.dbs}
GroupConnections(cs) == {Row("group", <<GroupOf[c]>>) : c \in cs}
FilterConnections(f, word) == DOMAIN f \cap Keywords[word]
Rows(f, word, folded) ==
  GroupConnections(FilterConnections(f, word))
  \cup UNION {{Row("connection", <<GroupOf[c], c>>)}
              \cup (IF f[c] # None /\ f[c].open THEN DatabaseRows(<<GroupOf[c], c>>, f[c], folded) ELSE {})
              : c \in FilterConnections(f, word)}

Focusables(f, word, folded) ==
  {r \in Rows(f, word, folded) : r.type \in {"connection", "database", "table", "redis-folder", "redis-key"}}
Shown == Focusables(forest, keyword, foldedKeys)
Paths(rows) == {r.path : r \in rows}
Before(p, q) ==
  IsStrictPrefix(p, q) \/ \E n \in 1..Len(p) : n <= Len(q) /\ p[n] < q[n] /\ SubSeq(p, 1, n - 1) = SubSeq(q, 1, n - 1)
FirstOf(paths) == IF paths = {} THEN None ELSE CHOOSE p \in paths : \A q \in paths : p = q \/ Before(p, q)
LastOf(paths) == IF paths = {} THEN None ELSE CHOOSE p \in paths : \A q \in paths : p = q \/ Before(q, p)
\* The last row before it that is less deep, None if there is none.
ParentOf(paths, p) == LastOf({q \in paths : Before(q, p) /\ Len(q) < Len(p)})
Expandable(row) == row.type \notin {"table", "redis-key"}
Expanded(row) ==
  CASE row.type = "connection" -> forest[row.path[2]] # None /\ forest[row.path[2]].open
    [] row.type = "database" -> row.path[3] \in forest[row.path[2]].shown
    [] row.type = "redis-folder" -> row.path \notin foldedKeys
    [] OTHER -> FALSE

-----------------------------------------------------------------------------
(* The focus                                                               *)

SurvivingParent(before, now, p) ==
  LET parent == ParentOf(before, p) IN IF parent = None \/ parent \notin now THEN FirstOf(now) ELSE parent
\* The parent, its parent and so on: each less deep than all after it, up to the row.
Ancestors(before, p) ==
  {a \in before : Before(a, p) /\ Len(a) < Len(p)
                  /\ \A q \in before : Before(a, q) /\ Before(q, p) => Len(a) < Len(q)}
\* The nearest of them, by the rows of before, that is a row now; else the first.
Surviving(before, now, p) ==
  LET left == Ancestors(before, p) \cap now IN IF left = {} THEN FirstOf(now) ELSE LastOf(left)
Refocus(before, now) ==
  IF activeKey = None \/ activeKey \in now THEN activeKey
  ELSE IF activeKey \in before THEN Surviving(before, now, activeKey) ELSE FirstOf(now)
\* After the tree has changed to a forest, a keyword and folds.
Rebuilt(f, word, folded) ==
  \E now \in {Paths(Focusables(f, word, folded))} : activeKey' = Refocus(Paths(Shown), now)

RowsInit ==
  /\ forest \in Forests /\ keyword = None /\ foldedKeys = {} /\ activeKey = None
  /\ viewport \in Viewports /\ width = ClampSidebarWidth(DefaultWidth, viewport)
  /\ drag = None /\ rail = FALSE
Load ==
  /\ forest' \in Forests \ {forest}
  /\ Rebuilt(forest', keyword, foldedKeys)
  /\ UNCHANGED <<keyword, foldedKeys>> /\ UNCHANGED shapeVars
SetKeyword(word) ==
  /\ ~rail /\ word # keyword /\ keyword' = word
  /\ Rebuilt(forest, word, foldedKeys)
  /\ UNCHANGED <<forest, foldedKeys>> /\ UNCHANGED shapeVars
Fold(folded) ==
  /\ foldedKeys' = folded /\ Rebuilt(forest, keyword, folded)
  /\ UNCHANGED <<forest, keyword>> /\ UNCHANGED shapeVars
ToggleRedisFolder(path) == Fold((foldedKeys \ {path}) \cup ({path} \ foldedKeys))

Focus(path) ==
  /\ ~rail /\ activeKey' = path
  /\ UNCHANGED <<forest, keyword, foldedKeys>> /\ UNCHANGED shapeVars
Active(rows) == IF activeKey \in Paths(rows) THEN activeKey ELSE FirstOf(Paths(rows))
Opened(rows, p) == \E r \in rows : r.path = p /\ Expandable(r) /\ Expanded(r)
\* The rows before or after; at an end the focus stays.
ArrowTo(key, rows, paths, p) ==
  CASE key = "down" -> FirstOf(LET after == {q \in paths : Before(p, q)} IN IF after = {} THEN {p} ELSE after)
    [] key = "up" -> LastOf(LET before == {q \in paths : Before(q, p)} IN IF before = {} THEN {p} ELSE before)
    [] key = "home" -> FirstOf(paths)
    [] key = "end" -> LastOf(paths)
    [] key = "right" -> IF Opened(rows, p) THEN FirstOf({q \in paths : ParentOf(paths, q) = p}) ELSE None
    [] OTHER -> IF Opened(rows, p) THEN None ELSE ParentOf(paths, p)
Arrow(key) ==
  \E rows \in {Shown} : rows # {} /\ LET to == ArrowTo(key, rows, Paths(rows), Active(rows)) IN to # None /\ Focus(to)
\* Enter, and the arrows on a folder of keys; what is loaded follows for the rest.
FoldActive ==
  \E row \in Shown : ~rail /\ row.type = "redis-folder" /\ row.path = Active(Shown) /\ ToggleRedisFolder(row.path)
\* The next row, and round, whose label starts with what was typed.
TypeAhead(label) ==
  \E rows \in {Shown} :
    LET hits == {r.path : r \in {x \in rows : Last(x.path) \in {label, Leaf(label)}}}
        after == {q \in hits : rows # {} /\ Before(Active(rows), q)}
    IN  hits # {} /\ Focus(FirstOf(IF after = {} THEN hits ELSE after))

-----------------------------------------------------------------------------
(* Resizing, and the rail                                                  *)

KeepTree == UNCHANGED <<forest, keyword, foldedKeys, activeKey>>
ResizeWindow(v) ==
  /\ viewport' = v /\ width' = (IF rail THEN width ELSE ClampSidebarWidth(width, v))
  /\ UNCHANGED <<drag, rail>> /\ KeepTree
StartDrag(x) == ~rail /\ drag = None /\ drag' = [at |-> x, from |-> width] /\ UNCHANGED <<viewport, width, rail>> /\ KeepTree
DragTo(x) ==
  /\ drag # None
  /\ width' = ClampSidebarWidth(IF drag.from + x > drag.at THEN drag.from + x - drag.at ELSE 0, viewport)
  /\ UNCHANGED <<viewport, drag, rail>> /\ KeepTree
EndDrag == drag # None /\ drag' = None /\ UNCHANGED <<viewport, width, rail>> /\ KeepTree
ResizeKey(key) ==
  /\ ~rail
  /\ width' = CASE key = "left" -> ClampSidebarWidth(IF width > 0 THEN width - 1 ELSE 0, viewport)
                [] key = "right" -> ClampSidebarWidth(width + 1, viewport)
                [] key = "home" -> MinWidth
                [] key = "end" -> ClampSidebarWidth(MaxWidth, viewport)
                [] OTHER -> ClampSidebarWidth(DefaultWidth, viewport)
  /\ UNCHANGED <<viewport, drag, rail>> /\ KeepTree
\* Clicking anything of the rail but the two views opens the tree again, which fits
\* itself to the window; the tree forgets its folds and its focus.
SetCollapsed(r) ==
  /\ rail # r /\ rail' = r /\ drag' = None
  /\ width' = (IF r THEN width ELSE ClampSidebarWidth(width, viewport))
  /\ foldedKeys' = {} /\ activeKey' = None /\ UNCHANGED <<viewport, forest, keyword>>
\* What is stored is the width and the rail.
RestartRows ==
  /\ width' = ClampSidebarWidth(width, viewport) /\ drag' = None /\ foldedKeys' = {} /\ activeKey' = None
  /\ keyword' = None /\ forest' = [c \in DOMAIN forest |-> None] /\ UNCHANGED <<viewport, rail>>
SidebarWidth == IF rail THEN RailWidth ELSE width

RowsNext ==
  \/ Load \/ FoldActive \/ EndDrag \/ RestartRows
  \/ \E word \in DOMAIN Keywords : SetKeyword(word)
  \/ \E key \in {"down", "up", "home", "end", "right", "left"} : Arrow(key)
  \/ \E row \in Shown : Focus(row.path)
  \/ \E label \in 1..3 : TypeAhead(label)
  \/ \E v \in Viewports : ResizeWindow(v)
  \/ StartDrag(1) \/ \E x \in 0..2 : DragTo(x)
  \/ \E key \in {"left", "right", "home", "end", "double-click"} : ResizeKey(key)
  \/ \E r \in BOOLEAN : SetCollapsed(r)
RowsSpec == RowsInit /\ [][RowsNext]_rowVars

-----------------------------------------------------------------------------
\* The keyboard stays where it is when rows come and go: the focus is on the same
\* row, or on the nearest database, folder or connection around it that is left, by
\* its path; "an unrelated position" is never its place (SidebarTree.tsx:151-160).
Around(path) == {SubSeq(path, 1, n) : n \in 1..(Len(path) - 1)}
FocusStaysNear ==
  [][activeKey # None /\ forest' # forest /\ ~RestartRows =>
       \A paths \in {Paths(Shown')} :
         LET left == Around(activeKey) \cap paths
         IN  activeKey \notin paths /\ left # {} =>
               activeKey' \in left /\ \A p \in left : Len(p) <= Len(activeKey')]_rowVars

\* The tree leaves room for the work beside it whatever the window and the mouse do,
\* as far as its least width allows (sidebar-store.ts:46-53).
RoomForWork == ~rail => width >= MinWidth /\ (width = MinWidth \/ width + WorkspaceWidth <= viewport)
=============================================================================
