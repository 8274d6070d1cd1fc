---------------------------- MODULE SidebarWidth ----------------------------
(***************************************************************************)
(* How wide the explorer may be in a viewport (renderer/store/             *)
(* sidebar-store.ts): within its own limits, and leaving the workspace its *)
(* least width where the viewport has room for both.                       *)
(***************************************************************************)
EXTENDS Naturals

CONSTANTS MinWidth, MaxWidth, WorkspaceWidth, DefaultWidth, RailWidth, Viewports

ASSUME WidthAssumption ==
  /\ {MinWidth, MaxWidth, WorkspaceWidth, DefaultWidth} \cup Viewports \subseteq Nat
  /\ MinWidth <= MaxWidth

AtMost(a, b) == IF a < b THEN a ELSE b
AtLeast(a, b) == IF a > b THEN a ELSE b
SidebarMaxWidth(v) == AtMost(MaxWidth, AtLeast(MinWidth, IF v > WorkspaceWidth THEN v - WorkspaceWidth ELSE 0))
ClampSidebarWidth(w, v) == AtMost(SidebarMaxWidth(v), AtLeast(MinWidth, w))
=============================================================================
