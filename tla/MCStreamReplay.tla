--------------------------- MODULE MCStreamReplay ---------------------------
(***************************************************************************)
(* PluginStream with one history variable, to ask whether a reconnect      *)
(* brings every event missed while the connection was down.                *)
(***************************************************************************)
EXTENDS PluginStream

VARIABLE connectedAt    \* connectedAt[b]: seq of boot b when the bridge first
                        \* saw a 200 from it, or NotYet

NotYet == MaxSeq + 1

ReplayInit == Init /\ connectedAt = [b \in Boots |-> NotYet]

ReplayNext ==
  /\ Next
  /\ connectedAt' = IF bpc = "dial" /\ bpc' = "read" /\ connectedAt[boot] = NotYet
                      THEN [connectedAt EXCEPT ![boot] = seq[boot]]
                      ELSE connectedAt

ReplaySpec == ReplayInit /\ [][ReplayNext]_<<vars, connectedAt>>

\* "On reconnect it sends Last-Event-ID so the plugin replays events missed
\* while the connection was down" (pluginstream.go:91-92): the first event of a
\* boot that reaches Matrix is no later than the first one published since the
\* bridge was connected, unless the history has lost what comes before it.
MissedEventsReplayed ==
  ctxDone \/
  \A i \in 1..Len(posted) :
    LET y == posted[i] IN
      (i = 1 \/ posted[i - 1].boot # y.boot)
        => \/ y.seq <= connectedAt[y.boot] + 1
           \/ Evicted(y.boot, y.seq - 1)

=============================================================================
