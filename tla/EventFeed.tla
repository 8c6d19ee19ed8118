------------------------------ MODULE EventFeed ------------------------------
(***************************************************************************)
(* What an event source promises to the rest of the bridge: the events of  *)
(* a server reach it in order, each at most once, and while the            *)
(* subscription lasts an event is passed over only when it has fallen out  *)
(* of the source's history of the last Retention events.  The promise      *)
(* starts with the first event of a boot that is delivered; what was       *)
(* published before it is not covered, and neither is what follows the end *)
(* of the subscription.  PluginStream and LogTailer say what a boot is:    *)
(* a life of the plugin, or a log stream.                                  *)
(***************************************************************************)
EXTENDS EventIds

CONSTANTS MaxBoot,      \* bound: number of boots
          Retention     \* events the source can replay

VARIABLES boot,         \* the running boot
          published,    \* number of events published in each boot
          delivered,    \* ids handed to the bridge, in order
          stopped       \* the subscription has been cancelled

feedVars == <<boot, published, delivered, stopped>>

FeedInit == /\ boot = 1
            /\ published = [b \in 1..MaxBoot |-> 0]
            /\ delivered = <<>>
            /\ stopped = FALSE

FeedPublish == /\ published' = [published EXCEPT ![boot] = @ + 1]
               /\ UNCHANGED <<boot, delivered, stopped>>

FeedRestart == /\ boot < MaxBoot
               /\ boot' = boot + 1
               /\ UNCHANGED <<published, delivered, stopped>>

\* The events of x's boot up to and including seq s are out of the history.
Evicted(b, s) == s + Retention <= published[b]

\* y may be the next delivery after x.
Follows(x, y) ==
  /\ Before(x, y)
  /\ \/ stopped
     \/ x.boot # y.boot
     \/ y.seq = x.seq + 1
     \/ Evicted(y.boot, y.seq - 1)

FeedDeliver ==
  \E b \in 1..boot : \E s \in 1..published[b] :
    LET e == [boot |-> b, seq |-> s] IN
      /\ delivered # <<>> => Follows(delivered[Len(delivered)], e)
      /\ delivered' = Append(delivered, e)
      /\ UNCHANGED <<boot, published, stopped>>

FeedStop == /\ stopped' = TRUE
            /\ UNCHANGED <<boot, published, delivered>>

FeedNext == FeedPublish \/ FeedRestart \/ FeedDeliver \/ FeedStop

FeedSpec == FeedInit /\ [][FeedNext]_feedVars

=============================================================================
