------------------------------- MODULE Connector -------------------------------
(***************************************************************************)
(* The bridge process around the ghosts: MCConnector (connector.go) starts *)
(* from its configuration, sweeps the login rows of an older version,      *)
(* bridgev2 loads the rest, and each login's MCClient connects and brings  *)
(* the avatar of its space up to date; the admin logs in with the          *)
(* provisioning secret (login.go).  The process may end at any time and be *)
(* started with another configuration, which changes what the tags stored  *)
(* with the ghosts are compared to.                                        *)
(***************************************************************************)
EXTENDS GhostAvatar

CONSTANTS
  Users,       \* Matrix users with rows in the login table
  Admins,      \* those the permissions make admins of the bridge
  OldServers,  \* servers that were logins of their own in an older version
  Icons,       \* what comes to be configured as bot avatar; may hold None
  MaxStarts,   \* bound: starts of the process
  MaxConnects  \* bound: calls of Connect for a user in one life of the process

ASSUME ConnectorAssumption == /\ Admins \subseteq Users
                              /\ "admin" \notin OldServers
                              /\ MaxStarts \in Nat
                              /\ MaxConnects \in Nat

VARIABLES
  rows,       \* the login table: <<user, "admin">>, <<user, server>> of old
  space,      \* space[u]: avatar of u's space, "none" without a space
  starts

VARIABLES
  phase,      \* "down", "cleanup" (in Start) or "up"
  todo,       \* users whose rows the clean-up has not looked at
  unswept,    \* rows that a request failed for in this clean-up
  icon,       \* networkIconMXC, None without one
  connect     \* connect[u][i]: where the i-th Connect for u stands

storeVars == <<rows, space, starts>>
procVars == <<phase, todo, unswept, icon, connect>>
vars == <<avatarVars, storeVars, procVars>>

Connects == 1..MaxConnects
Rows == Users \X ({"admin"} \cup OldServers)
LegacyRows == rows \cap (Users \X OldServers)
Legacy(u) == rows \cap ({u} \X OldServers)
NotConnected == [u \in Users |-> [i \in Connects |-> "none"]]

\* The older version has left legacy rows, perhaps beside an admin's, and
\* spaces without avatar.
Init ==
  /\ AvatarInit
  /\ fetcher = "skin"
  /\ \E old \in SUBSET (Users \X OldServers), admins \in SUBSET Admins :
       /\ rows = old \cup (admins \X {"admin"})
       /\ space = [u \in Users |-> IF \E r \in rows : r[1] = u THEN None
                                                             ELSE "none"]
  /\ starts = 0
  /\ phase = "down"
  /\ todo = {}
  /\ unswept = {}
  /\ icon = None
  /\ connect = NotConnected

-----------------------------------------------------------------------------
(* Start.                                                                  *)

\* The configured avatar service, or the own renderer: without one, or with
\* the one that is defunct.  The clean-up lists the users, or gives up.
Start(url, bot) ==
  /\ phase = "down"
  /\ starts < MaxStarts
  /\ starts' = starts + 1
  /\ phase' = "cleanup"
  /\ fetcher' = IF url \in {"", "starlight"} THEN "skin" ELSE "url"
  /\ icon' = bot
  /\ \/ todo' = {r[1] : r \in rows} /\ unswept' = {} /\ faults' = faults
     \/ todo' = {} /\ unswept' = LegacyRows /\ Fault
  /\ UNCHANGED <<worldVars, shown, ghost, db, call, askVars, mishap, rows,
                 space, connect>>

\* Mutant of CleanUser: a request that fails ends the clean-up.
CleanUserGivesUp(u) ==
  /\ phase = "cleanup"
  /\ u \in todo
  /\ \E kept \in SUBSET Legacy(u) :
       /\ IF kept = {} THEN faults' = faults /\ todo' = todo \ {u}
                       ELSE Fault /\ todo' = {}
       /\ rows' = rows \ (Legacy(u) \ kept)
       /\ unswept' = unswept \cup kept
  /\ UNCHANGED <<worldVars, shown, fetcher, ghost, db, call, askVars, mishap,
                 space, starts, phase, icon, connect>>

\* The legacy rows of a user go, but for those that cannot be deleted; none
\* go if they cannot be listed.
CleanUser(u) ==
  /\ phase = "cleanup"
  /\ u \in todo
  /\ todo' = todo \ {u}
  /\ \E kept \in SUBSET Legacy(u) :
       /\ IF kept = {} THEN faults' = faults ELSE Fault
       /\ rows' = rows \ (Legacy(u) \ kept)
       /\ unswept' = unswept \cup kept
  /\ UNCHANGED <<worldVars, shown, fetcher, ghost, db, call, askVars, mishap,
                 space, starts, phase, icon, connect>>

\* bridgev2 calls LoadUserLogin for each row, which makes a client for an
\* admin row and an error of any other, and then Connect of every client.
LoadLogins ==
  /\ phase = "cleanup"
  /\ todo = {}
  /\ phase' = "up"
  /\ connect' = [u \in Users |-> [i \in Connects |->
                   IF i = 1 /\ <<u, "admin">> \in rows THEN "discover"
                                                        ELSE "none"]]
  /\ UNCHANGED <<avatarVars, storeVars, todo, unswept, icon>>

-----------------------------------------------------------------------------
(* Login, and what Connect does for the space.                             *)

\* SubmitUserInput with the right secret: the row is written, a client made
\* and its Connect begun, beside those of earlier logins under way.
Login(u) ==
  /\ phase = "up"
  /\ u \in Admins
  /\ \E i \in Connects :
       /\ connect[u][i] = "none"
       /\ \A j \in 1..(i - 1) : connect[u][j] # "none"
       /\ connect' = [connect EXCEPT ![u][i] = "discover"]
  /\ rows' = rows \cup {<<u, "admin">>}
  /\ UNCHANGED <<avatarVars, space, starts, phase, todo, unswept, icon>>

\* NewLogin fails: there is no row and no Connect.
LoginFails(u) ==
  /\ phase = "up"
  /\ u \in Admins
  /\ Fault
  /\ UNCHANGED <<worldVars, shown, fetcher, ghost, db, call, askVars, mishap,
                 storeVars, procVars>>

Go(u, i, from, to) ==
  /\ connect[u][i] = from
  /\ connect' = [connect EXCEPT ![u][i] = to]

\* discoverAll fails: Connect returns and the client does nothing.
DiscoverFails(u, i) ==
  /\ Go(u, i, "discover", "noDiscovery")
  /\ Fault
  /\ UNCHANGED <<worldVars, shown, fetcher, ghost, db, call, askVars, mishap,
                 storeVars, phase, todo, unswept, icon>>

Discovered(u, i) ==
  /\ Go(u, i, "discover", "icon")
  /\ UNCHANGED <<avatarVars, storeVars, phase, todo, unswept, icon>>

\* The first portal made for u brings the space, with the icon of the moment:
\* in a discovery, or ever after, when the watcher starts a server.
PortalMade(u) ==
  /\ \E i \in Connects : connect[u][i] \in {"discover", "unsent", "done"}
  /\ space[u] = "none"
  /\ space' = [space EXCEPT ![u] = icon]
  /\ UNCHANGED <<avatarVars, rows, starts, procVars>>

\* Mutant of UpdateSpaceAvatar: a space that has an avatar keeps it.
UpdateSpaceUnset(u, i) ==
  /\ Go(u, i, "icon", "done")
  /\ IF icon # None /\ space[u] = None THEN space' = [space EXCEPT ![u] = icon]
                                       ELSE space' = space
  /\ UNCHANGED <<avatarVars, rows, starts, phase, todo, unswept, icon>>

\* updateSpaceAvatar: without an icon, without a space or with the icon on the
\* space there is nothing to do; else the icon is sent.
UpdateSpaceAvatar(u, i) ==
  /\ \/ Go(u, i, "icon", "done") /\ faults' = faults
        /\ IF icon = None \/ space[u] = "none"
             THEN space' = space
             ELSE space' = [space EXCEPT ![u] = icon]
     \/ Go(u, i, "icon", "unsent") /\ Fault /\ space' = space
        /\ icon # None /\ space[u] \notin {"none", icon}
  /\ UNCHANGED <<worldVars, shown, fetcher, ghost, db, call, askVars, mishap,
                 rows, starts, phase, todo, unswept, icon>>

-----------------------------------------------------------------------------
\* The process ends.
Stop ==
  /\ phase # "down"
  /\ phase' = "down"
  /\ todo' = {}
  /\ unswept' = {}
  /\ connect' = NotConnected
  /\ AvatarStop
  /\ UNCHANGED <<fetcher, storeVars, icon>>

\* A client that receives from its servers.
Receiving ==
  \E u \in Users, i \in Connects : connect[u][i] \notin {"none", "noDiscovery"}

Message(t) == Receiving /\ Begin(t) /\ UNCHANGED <<storeVars, procVars>>

GhostStep(t) == UserInfo(t) /\ UNCHANGED <<storeVars, procVars>>

Hour == HourPasses /\ UNCHANGED <<storeVars, procVars>>

StartStep == (\E u \in Users : CleanUser(u)) \/ LoadLogins

ConnectStep(u, i) ==
  Discovered(u, i) \/ DiscoverFails(u, i) \/ UpdateSpaceAvatar(u, i)

Next ==
  \/ ChangeSkin /\ UNCHANGED <<storeVars, procVars>>
  \/ Hour
  \/ \E t \in Calls : Message(t) \/ GhostStep(t)
  \/ \E url \in {"", "starlight", "custom"}, bot \in Icons :
       Start(url, bot)
  \/ StartStep
  \/ \E u \in Users : Login(u) \/ LoginFails(u) \/ PortalMade(u)
  \/ \E u \in Users, i \in Connects : ConnectStep(u, i)
  \/ Stop

Spec == Init /\ [][Next]_vars

\* Players keep talking and time goes on; every request is answered or fails.
Fairness == /\ \A t \in Calls : WF_vars(Message(t)) /\ WF_vars(GhostStep(t))
            /\ WF_vars(Hour)
            /\ WF_vars(StartStep)
            /\ \A u \in Users, i \in Connects : WF_vars(ConnectStep(u, i))

FairSpec == Spec /\ Fairness

-----------------------------------------------------------------------------
(* Properties.                                                             *)

Ghosts == [avatar : Tags \cup {None}, set : BOOLEAN, etag : Tags \cup {None},
           age : {"never", "fresh", "stale"}]

CallRecord ==
  [pc : {"idle", "ask", "download", "upload", "store", "renew"},
   tag : Tags \cup {None}, image : Images \cup {None}]

Stages == {"none", "discover", "noDiscovery", "icon", "unsent", "done"}

\* Types.
TypeOK ==
  /\ skin \in Images
  /\ tagged \in BOOLEAN
  /\ shown \in Images \cup {None}
  /\ changes \in 0..MaxChanges
  /\ faults \in 0..MaxFaults
  /\ fetcher \in {"skin", "url"}
  /\ ghost \in Ghosts
  /\ db \in Ghosts
  /\ call \in [Calls -> CallRecord]
  /\ answers \in Nat
  /\ skinless \in BOOLEAN
  /\ mishap \in BOOLEAN
  /\ rows \subseteq Rows
  /\ space \in [Users -> Icons \cup {None, "none"}]
  /\ starts \in 0..MaxStarts
  /\ phase \in {"down", "cleanup", "up"}
  /\ todo \subseteq Users
  /\ unswept \subseteq Rows
  /\ icon \in Icons \cup {None}
  /\ connect \in [Users -> [Connects -> Stages]]

\* The tag a ghost is stored with is the tag of the avatar its Matrix profile
\* shows, so that "unchanged" may be believed: whichever calls of GetUserInfo
\* run side by side, whatever skin is changed meanwhile, and across restarts
\* with another avatar service.  It takes one of four mishaps to tear the two
\* apart: an upload that fails, two calls with different tags that interleave
\* between upload and store, an end of the process in that place, or a service
\* that sends no ETag (client.go:200-278, avatar.go:269-320).
TagNamesAvatar ==
  ~mishap /\ (\A t \in Calls : call[t].pc # "store") /\ ghost.etag # None
  => ghost.set /\ ghost.avatar = ghost.etag /\ shown = ghost.etag.of

\* "Restart the TTL so we don't look the skin up again on every message"
\* (client.go:262-263): in an hour the skin servers answer no more lookups for
\* a player than calls were under way when the first answer was stored,
\* however often the player talks, unless a request failed or a mishap left
\* the ghost without avatar or tag.  A player without a texture is the other
\* exception: of such an answer nothing is kept, so every message asks again.
AskedHourly ==
  ~mishap /\ faults = 0 /\ ~skinless => answers <= Cardinality(Calls)

\* While a player talks, the ghost comes to show the skin the player wears,
\* after the skin was changed as well as after a restart, unless the skin has
\* no texture or a mishap happened.
AvatarFollows ==
  []<>(\/ shown = skin
       \/ mishap
       \/ fetcher = "skin" /\ skin = NoSkin
       \/ ~Receiving)

\* "any row reaching this function should be an admin row"
\* (connector.go:231-234): when the logins are loaded the only legacy rows left
\* are those a request failed for; the failure costs no other row, be it of
\* the same user or of another (connector.go:145, 153).
LegacySwept == phase = "up" => LegacyRows \subseteq unswept

\* A Connect that is done leaves the space with the configured avatar, whether
\* the space is of an older version, was made under another configuration, by
\* a Connect beside this one, or comes only afterwards, with a server started
\* later (client.go:82-85, 105-110).
SpaceHasIcon ==
  \A u \in Users, i \in Connects :
    connect[u][i] = "done" /\ icon # None => space[u] \in {"none", icon}

=============================================================================
