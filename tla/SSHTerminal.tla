------------------------------ MODULE SSHTerminal -----------------------------
(***************************************************************************)
(* The view of a remote shell (renderer/components/ssh/SSHTerminalView.tsx).*)
(* Its effect asks the backend for a shell and is run again to reconnect;   *)
(* each run is a generation.  Answers and the news that a shell has ended   *)
(* reach the view in any order.                                             *)
(***************************************************************************)
EXTENDS Unset, FiniteSets

CONSTANTS BoxSizes,    \* sizes of the container; 0 is a hidden tab
          MaxGens,     \* how often the effect runs
          MaxTyped     \* how often keys and sizes change

VARIABLES
  gen,        \* the run of the effect; its shell has the same number
  mounted,
  status,     \* what the badge says
  session,    \* sessionIdRef
  asks,       \* generation -> "asked", "ready" or "failed": the answers to come
  shells,     \* shell -> "open", or "ended": what the backend runs
  exits,      \* the news of shells that ended, on their way
  closes,     \* requests to close, on their way
  box, timer, \* the size of the container; a fit is due
  cols,       \* shell -> the size last asked for
  typed, written

termVars == <<gen, mounted, status, session, asks, shells, exits, closes, box, timer, cols,
              typed, written>>

TermPut(f, k, v) == [x \in DOMAIN f \cup {k} |-> IF x = k THEN v ELSE f[x]]
TermInit ==
  /\ gen = 1 /\ mounted = TRUE /\ status = "connecting" /\ session = None
  /\ asks = [g \in {1} |-> "asked"] /\ shells = <<>> /\ exits = {} /\ closes = {}
  /\ box \in BoxSizes /\ timer = FALSE /\ cols = [g \in {1} |-> box] /\ typed = 0 /\ written = {}

-----------------------------------------------------------------------------
(* The backend                                                             *)

OpenShell(g) ==
  /\ g \in DOMAIN asks /\ asks[g] = "asked"
  /\ asks' = [asks EXCEPT ![g] = "ready"] /\ shells' = TermPut(shells, g, "open")
  /\ UNCHANGED <<gen, mounted, status, session, exits, closes, box, timer, cols, typed, written>>
RefuseShell(g) ==
  /\ g \in DOMAIN asks /\ asks[g] = "asked" /\ asks' = [asks EXCEPT ![g] = "failed"]
  /\ UNCHANGED <<gen, mounted, status, session, shells, exits, closes, box, timer, cols, typed, written>>
ShellEnds(g) ==
  /\ g \in DOMAIN shells /\ shells[g] = "open"
  /\ shells' = [shells EXCEPT ![g] = "ended"] /\ exits' = exits \cup {g}
  /\ UNCHANGED <<gen, mounted, status, session, asks, closes, box, timer, cols, typed, written>>
CloseShell(g) ==
  /\ g \in closes /\ closes' = closes \ {g}
  /\ shells' = [shells EXCEPT ![g] = "ended"]
  /\ exits' = IF shells[g] = "open" THEN exits \cup {g} ELSE exits
  /\ UNCHANGED <<gen, mounted, status, session, asks, box, timer, cols, typed, written>>

-----------------------------------------------------------------------------
(* The effect                                                              *)

\* A hidden container asks for nothing.
FitAndResize(s) == IF box = 0 \/ s = None THEN cols ELSE TermPut(cols, s, box)
ShellForgotten(g) ==
  /\ g \in DOMAIN asks /\ asks[g] = "ready"
  /\ asks' = [x \in DOMAIN asks \ {g} |-> asks[x]]
  /\ IF mounted /\ g = gen THEN session' = g /\ status' = "connected" /\ cols' = FitAndResize(g)
     ELSE UNCHANGED <<session, status, cols>>
  /\ UNCHANGED <<gen, mounted, shells, exits, closes, box, timer, typed, written>>
ShellAnswered(g) ==
  /\ g \in DOMAIN asks /\ asks[g] = "ready"
  /\ asks' = [x \in DOMAIN asks \ {g} |-> asks[x]]
  /\ IF mounted /\ g = gen
     THEN session' = g /\ status' = "connected" /\ cols' = FitAndResize(g) /\ UNCHANGED closes
     ELSE closes' = closes \cup {g} /\ UNCHANGED <<session, status, cols>>
  /\ UNCHANGED <<gen, mounted, shells, exits, box, timer, typed, written>>
Refused(g) ==
  /\ g \in DOMAIN asks /\ asks[g] = "failed"
  /\ asks' = [x \in DOMAIN asks \ {g} |-> asks[x]]
  /\ status' = IF mounted /\ g = gen THEN "error" ELSE status
  /\ UNCHANGED <<gen, mounted, session, shells, exits, closes, box, timer, cols, typed, written>>
\* News of a shell that is not the one on show is dropped, whatever becomes of it.
Exited(g) ==
  /\ g \in exits /\ exits' = exits \ {g}
  /\ IF g = session THEN session' = None /\ status' \in {"closed", "error"}
     ELSE UNCHANGED <<session, status>>
  /\ UNCHANGED <<gen, mounted, asks, shells, closes, box, timer, cols, typed, written>>
Dispose == closes' = IF session = None THEN closes ELSE closes \cup {session}
\* From the menu, and whenever the connection's name or the language changes.
Reconnect ==
  /\ mounted /\ gen < MaxGens
  /\ Dispose /\ session' = None /\ gen' = gen + 1 /\ status' = "connecting" /\ timer' = FALSE
  /\ asks' = TermPut(asks, gen + 1, "asked") /\ cols' = TermPut(cols, gen + 1, box)
  /\ UNCHANGED <<mounted, shells, exits, box, typed, written>>
Unmount ==
  /\ mounted /\ mounted' = FALSE /\ Dispose /\ session' = None /\ timer' = FALSE
  /\ UNCHANGED <<gen, status, asks, shells, exits, box, cols, typed, written>>

-----------------------------------------------------------------------------
(* Keys and sizes                                                          *)

OnData ==
  /\ mounted /\ session # None /\ typed < MaxTyped /\ typed' = typed + 1
  /\ written' = written \cup {session}
  /\ UNCHANGED <<gen, mounted, status, session, asks, shells, exits, closes, box, timer, cols>>
\* The tab is shown, hidden or resized, or its container begins to be watched; showing
\* it fits at once, the rest in 40 ms.
ResizeBox(b) ==
  /\ mounted /\ typed < MaxTyped /\ typed' = typed + 1 /\ box' = b /\ timer' = TRUE
  /\ UNCHANGED <<gen, mounted, status, session, asks, shells, exits, closes, cols, written>>
FitTimer ==
  /\ timer /\ timer' = FALSE /\ cols' = FitAndResize(session)
  /\ UNCHANGED <<gen, mounted, status, session, asks, shells, exits, closes, box, typed, written>>

TermNext ==
  \/ \E g \in 1..gen : \/ OpenShell(g) \/ RefuseShell(g) \/ ShellEnds(g) \/ CloseShell(g)
                       \/ ShellAnswered(g) \/ Refused(g) \/ Exited(g)
  \/ Reconnect \/ Unmount \/ OnData \/ (\E b \in BoxSizes : ResizeBox(b)) \/ FitTimer

TermSpec == TermInit /\ [][TermNext]_termVars

-----------------------------------------------------------------------------
\* No shell is left behind at the server: one that runs is the one on show, or its
\* answer or a request to close it is on its way (SSHTerminalView.tsx:129).  The one
\* on show has been told the size of its container once the fit that is due is done.
TerminalsAreOwned ==
  /\ \A g \in DOMAIN shells : shells[g] = "open" =>
       (mounted /\ session = g) \/ g \in closes \/ g \in DOMAIN asks
  /\ session # None /\ ~timer /\ box # 0 => cols[session] = box
=============================================================================
