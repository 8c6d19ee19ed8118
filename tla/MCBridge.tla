------------------------------- MODULE MCBridge -------------------------------
(***************************************************************************)
(* Small instances of Connector for TLC, and the laws of ChatEvents.  The  *)
(* laws have no variables; TLC would work them out in every state, so they *)
(* are asked for in the states before the first start only.                *)
(*                                                                         *)
(* Ghost and spaces share only the process they live in, so an instance    *)
(* looks at one at a time: what happens to the ghost is explored with a    *)
(* process that has no icon and no spaces, the rest with a ghost nobody    *)
(* has talked to.                                                          *)
(***************************************************************************)
EXTENDS Connector, ChatEvents

\* Nothing has happened to the ghost.
GhostRests ==
  /\ ghost = NewGhost /\ db = NewGhost
  /\ \A t \in Calls : call[t] = Idle
  /\ skin = NoSkin /\ tagged
  /\ changes = 0 /\ answers = 0

\* No icon, no space, nobody from an older version, one Connect at a time.
ProcessIsPlain ==
  /\ icon = None
  /\ unswept = {} /\ LegacyRows = {}
  /\ \A u \in Users : space[u] = "none"
  /\ \A u \in Users : \A i \in Connects \ {1} : connect[u][i] = "none"

Apart == GhostRests \/ ProcessIsPlain

ApartSpec == Init /\ [][Next /\ Apart']_vars /\ Fairness

\* Both event sources show the same of what happens (ChatEvents).
SameFromBothSources == starts = 0 => SourcesAgree

\* What a player types stays chat of that player (ChatEvents).
ChatStaysChat == starts = 0 => NoFakeEvents

\* The plugin source loses and changes no text (ChatEvents).
PluginIsComplete == starts = 0 => PluginShowsAll

\* The log tailer shows the deaths whose verbs it knows (ChatEvents).
LogShowsDeaths == starts = 0 => LogShowsKnownDeaths

=============================================================================
