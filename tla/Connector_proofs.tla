--------------------------- MODULE Connector_proofs ---------------------------
(***************************************************************************)
(* Proofs about Connector, for every number of users, of calls side by     *)
(* side, of skins, icons and starts.                                       *)
(***************************************************************************)
EXTENDS Connector, FiniteSetTheorems, TLAPS

-----------------------------------------------------------------------------
(* Tags and records.                                                       *)

LEMMA TagType ==
  /\ \A s \in Skins : Tag("skin", s) \in Tags
  /\ \A s \in Images : Tag("url", s) \in Tags
  /\ \A x \in Tags : x.of \in Images
  /\ \A by, s : Tag(by, s).of = s
BY DEF Tag, Tags, Images

LEMMA NewType == NewGhost \in Ghosts /\ Idle \in CallRecord
BY DEF NewGhost, Ghosts, Idle, CallRecord

-----------------------------------------------------------------------------
(* The inductive invariant.                                                *)

NoStore == \A t \in Calls : call[t].pc # "store"

\* A texture that is being downloaded has a tag that names it.
DownloadInv == \A t \in Calls : call[t].pc = "download" => call[t].tag \in Tags

\* Nothing but a call about to store its tag sets the row and the ghost apart.
RowInv == NoStore => db = ghost

\* Without a mishap, from fetch to store each call holds an image and its tag,
\* the profile shows what the ghost's avatar was made from, the avatar is that
\* of every call about to store, and the stored tag is the avatar's once no
\* call is.
AvatarInv ==
  ~mishap =>
    /\ ghost.set => shown = ghost.avatar.of
    /\ \A t \in Calls : call[t].pc = "upload" =>
         call[t].tag \in Tags /\ call[t].image = call[t].tag.of
    /\ \A t \in Calls : call[t].pc = "store" =>
         ghost.set /\ ghost.avatar = call[t].tag
    /\ NoStore /\ ghost.etag # None => ghost.set /\ ghost.avatar = ghost.etag

\* A legacy row is that of a user on the list of the clean-up, or a request for
\* it has failed.
SweepInv ==
  /\ phase = "cleanup" => \A row \in LegacyRows : row[1] \in todo \/ row \in unswept
  /\ phase = "up" => LegacyRows \subseteq unswept

\* No client connects before the logins are loaded.
ConnectInv == phase # "up" => connect = NotConnected

-----------------------------------------------------------------------------
(* Type correctness.                                                       *)

AvatarTypeOK ==
  /\ skin \in Images
  /\ tagged \in BOOLEAN
  /\ shown \in Images \cup {None}
  /\ changes \in 0..MaxChanges
  /\ faults \in 0..MaxFaults
  /\ fetcher \in {"skin", "url"}
  /\ ghost \in Ghosts
  /\ db \in Ghosts
  /\ call \in [Calls -> CallRecord]
  /\ answers \in Nat
  /\ skinless \in BOOLEAN
  /\ mishap \in BOOLEAN

BridgeTypeOK ==
  /\ rows \subseteq Rows
  /\ space \in [Users -> Icons \cup {None, "none"}]
  /\ starts \in 0..MaxStarts
  /\ phase \in {"down", "cleanup", "up"}
  /\ todo \subseteq Users
  /\ unswept \subseteq Rows
  /\ icon \in Icons \cup {None}
  /\ connect \in [Users -> [Connects -> Stages]]

\* The process's own steps: they leave the ghost alone.
OwnStep ==
  \/ \E url \in {"", "starlight", "custom"}, bot \in Icons : Start(url, bot)
  \/ StartStep
  \/ \E u \in Users : Login(u) \/ LoginFails(u) \/ PortalMade(u)
  \/ \E u \in Users, i \in Connects : ConnectStep(u, i)

LEMMA TypeParts == TypeOK <=> AvatarTypeOK /\ BridgeTypeOK
BY DEF TypeOK, AvatarTypeOK, BridgeTypeOK

LEMMA FaultType ==
  ASSUME faults \in 0..MaxFaults, Fault
  PROVE  faults' \in 0..MaxFaults /\ faults' # 0
BY AvatarAssumption DEF Fault

LEMMA StartsType ==
  ASSUME starts \in 0..MaxStarts, starts < MaxStarts
  PROVE  starts + 1 \in 0..MaxStarts
BY ConnectorAssumption

LEMMA InitType == Init => TypeOK /\ DownloadInv
<1> SUFFICES ASSUME Init PROVE TypeOK /\ DownloadInv
  OBVIOUS
<1>1. AvatarTypeOK
  <2>1. call \in [Calls -> CallRecord] /\ ghost \in Ghosts /\ db \in Ghosts
    BY NewType DEF Init, AvatarInit
  <2>2. tagged \in BOOLEAN /\ mishap \in BOOLEAN /\ skinless \in BOOLEAN
    BY Zenon DEF Init, AvatarInit
  <2>3. /\ skin \in Images /\ shown \in Images \cup {None}
        /\ changes \in 0..MaxChanges /\ faults \in 0..MaxFaults
        /\ fetcher \in {"skin", "url"} /\ answers \in Nat
    BY AvatarAssumption DEF Init, AvatarInit
  <2> QED BY <2>1, <2>2, <2>3 DEF AvatarTypeOK
<1>3. DownloadInv
  BY DEF Init, AvatarInit, DownloadInv, Idle
<1>2. BridgeTypeOK
  BY ConnectorAssumption DEF Init, BridgeTypeOK, Rows, NotConnected, Stages
<1> QED BY <1>1, <1>2, <1>3, TypeParts

LEMMA UserInfoType ==
  ASSUME AvatarTypeOK, DownloadInv, NEW t \in Calls, UserInfo(t) \/ Begin(t)
  PROVE  AvatarTypeOK' /\ DownloadInv'
<1> USE DEF AvatarTypeOK, DownloadInv, worldVars, askVars
<1>0. call[t] \in CallRecord
  OBVIOUS
<1>1. CASE Begin(t)
  BY <1>0, <1>1, AvatarAssumption DEF Begin, Ghosts, CallRecord
<1>2. CASE ResolveTexture(t)
  <2>1. Tag("skin", skin) \in Tags
    BY <1>2, TagType DEF ResolveTexture, HasTexture, Images
  <2>2. answers' \in Nat /\ skinless' \in BOOLEAN
    BY <1>2 DEF ResolveTexture, Counted
  <2> QED BY <1>0, <1>2, <2>1, <2>2 DEF ResolveTexture, HasTexture, CallRecord
<1>3. CASE Download(t)
  BY <1>0, <1>3, TagType DEF Download, CallRecord
<1>4. CASE AskService(t)
  <2>1. Tag("url", skin) \in Tags
    BY TagType
  <2>2. answers' \in Nat /\ skinless' \in BOOLEAN
    BY <1>4 DEF AskService, Counted
  <2> QED BY <1>0, <1>4, <2>1, <2>2 DEF AskService, CallRecord
<1>5. CASE FetchFails(t)
  BY <1>5, NewType, FaultType DEF FetchFails, Idle
<1>6. CASE Upload(t)
  <2>1. ghost' \in Ghosts
    BY <1>0, <1>6 DEF Upload, CallRecord, Ghosts
  <2>2. shown' \in Images \cup {None}
    BY <1>0, <1>6 DEF Upload, CallRecord
  <2>3. call' \in [Calls -> CallRecord] /\ DownloadInv'
    BY <1>0, <1>6 DEF Upload, CallRecord
  <2>4. mishap' \in BOOLEAN
    BY <1>6 DEF Upload
  <2> QED BY <1>6, <2>1, <2>2, <2>3, <2>4 DEF Upload
<1>7. CASE UploadFails(t)
  BY <1>0, <1>7, FaultType DEF UploadFails, CallRecord, Ghosts
<1>8. CASE Store(t)
  BY <1>0, <1>8, NewType DEF Store, CallRecord, Ghosts, Idle
<1>9. CASE Renew(t)
  BY <1>0, <1>9, NewType DEF Renew, Ghosts, Idle
<1>10. CASE NoTexture(t)
  <2>1. answers' \in Nat /\ skinless' \in BOOLEAN
    BY <1>10 DEF NoTexture, Counted
  <2> QED BY <1>10, <2>1, NewType DEF NoTexture, Idle
<1> QED BY <1>1, <1>2, <1>3, <1>4, <1>5, <1>6, <1>7, <1>8, <1>9, <1>10 DEF UserInfo

LEMMA AvatarWorldType ==
  ASSUME AvatarTypeOK, DownloadInv, ChangeSkin \/ HourPasses
  PROVE  AvatarTypeOK' /\ DownloadInv'
<1>1. CASE ChangeSkin
  BY <1>1, AvatarAssumption DEF ChangeSkin, AvatarTypeOK, DownloadInv, askVars
<1>2. CASE HourPasses
  <2>1. ghost' \in Ghosts /\ db' \in Ghosts
    BY <1>2 DEF HourPasses, AvatarTypeOK, Ghosts
  <2> QED BY <1>2, <2>1 DEF HourPasses, AvatarTypeOK, DownloadInv, worldVars
<1> QED BY <1>1, <1>2

LEMMA StopType ==
  ASSUME AvatarTypeOK, AvatarStop, UNCHANGED fetcher
  PROVE  AvatarTypeOK' /\ DownloadInv'
BY NewType DEF AvatarStop, AvatarTypeOK, DownloadInv, worldVars, Idle

\* What the bridge's own steps do to the ghost: nothing, but for requests that
\* fail and the configured avatar service.
LEMMA OwnStepType ==
  ASSUME TypeOK, DownloadInv, OwnStep
  PROVE  TypeOK' /\ DownloadInv'
<1> USE DEF AvatarTypeOK, BridgeTypeOK, DownloadInv, worldVars, askVars
<1>0. AvatarTypeOK /\ BridgeTypeOK
  BY TypeParts
<1>1. CASE \E url \in {"", "starlight", "custom"}, bot \in Icons : Start(url, bot)
  <2>1. PICK url \in {"", "starlight", "custom"}, bot \in Icons : Start(url, bot)
    BY <1>1
  <2>2. {r[1] : r \in rows} \subseteq Users
    BY <1>0 DEF Rows
  <2>3. starts' \in 0..MaxStarts
    <3>1. starts \in 0..MaxStarts /\ starts < MaxStarts
      BY <1>0, <2>1 DEF Start
    <3>2. starts + 1 \in 0..MaxStarts
      BY <3>1, StartsType
    <3> QED BY <2>1, <3>2 DEF Start
  <2>4. faults' \in 0..MaxFaults
    BY <1>0, <2>1, FaultType DEF Start
  <2>5. AvatarTypeOK' /\ DownloadInv'
    BY <1>0, <2>1, <2>4 DEF Start
  <2>7. LegacyRows \subseteq Rows
    BY <1>0 DEF LegacyRows
  <2>6. BridgeTypeOK'
    BY <1>0, <2>1, <2>2, <2>3, <2>7 DEF Start
  <2> QED BY <2>5, <2>6, TypeParts DEF TypeOK
<1>2. CASE \E u \in Users : CleanUser(u)
  <2>0. PICK u \in Users : CleanUser(u)
    BY <1>2
  <2>1. PICK kept \in SUBSET Legacy(u) :
           /\ faults' = faults \/ Fault
           /\ todo' = todo \ {u}
           /\ rows' = rows \ (Legacy(u) \ kept)
           /\ unswept' = unswept \cup kept
           /\ UNCHANGED <<worldVars, shown, fetcher, ghost, db, call, askVars,
                          mishap, space, starts, phase, icon, connect>>
    BY <2>0 DEF CleanUser
  <2>2. Legacy(u) \subseteq Rows
    BY <1>0 DEF Legacy
  <2>3. faults' \in 0..MaxFaults
    BY <1>0, <2>1, FaultType
  <2> QED BY <1>0, <2>1, <2>2, <2>3 DEF TypeOK
<1>3. CASE LoadLogins
  <2>1. connect' \in [Users -> [Connects -> Stages]]
    BY <1>3 DEF LoadLogins, Stages
  <2> QED BY <1>0, <1>3, <2>1 DEF LoadLogins, TypeOK, avatarVars, storeVars
<1>4. CASE \E u \in Users : Login(u)
  <2>1. PICK u \in Users : Login(u)
    BY <1>4
  <2>2. rows' \subseteq Rows
    <3>1. <<u, "admin">> \in Rows
      BY DEF Rows
    <3> QED BY <1>0, <2>1, <3>1 DEF Login
  <2>5. connect' \in [Users -> [Connects -> Stages]]
    BY <1>0, <2>1 DEF Login, Stages
  <2>3. AvatarTypeOK' /\ DownloadInv'
    BY <1>0, <2>1 DEF Login, avatarVars
  <2>4. BridgeTypeOK'
    BY <1>0, <2>1, <2>2, <2>5 DEF Login
  <2> QED BY <2>3, <2>4 DEF TypeOK
<1>5. CASE \E u \in Users : LoginFails(u)
  BY <1>0, <1>5, FaultType DEF LoginFails, TypeOK, storeVars, procVars
<1>6. CASE \E u \in Users : PortalMade(u)
  BY <1>0, <1>6 DEF PortalMade, TypeOK, avatarVars, procVars
<1>7. CASE \E u \in Users, i \in Connects : ConnectStep(u, i)
  <2>1. PICK u \in Users, i \in Connects : ConnectStep(u, i)
    BY <1>7
  <2>2. connect' \in [Users -> [Connects -> Stages]]
    <3>1. PICK to \in Stages : connect' = [connect EXCEPT ![u][i] = to]
      BY <2>1 DEF ConnectStep, Discovered, DiscoverFails, UpdateSpaceAvatar, Go, Stages
    <3> QED BY <1>0, <3>1
  <2>3. faults' \in 0..MaxFaults
    BY <1>0, <2>1, FaultType DEF ConnectStep, Discovered, DiscoverFails,
       UpdateSpaceAvatar, avatarVars
  <2>4. space' \in [Users -> Icons \cup {None, "none"}]
    BY <1>0, <2>1 DEF ConnectStep, Discovered, DiscoverFails, UpdateSpaceAvatar,
       storeVars
  <2>5. UNCHANGED <<skin, tagged, changes, shown, fetcher, ghost, db, call, answers,
                    skinless, mishap, rows, starts, phase, todo, unswept, icon>>
    BY <2>1 DEF ConnectStep, Discovered, DiscoverFails, UpdateSpaceAvatar,
       avatarVars, storeVars
  <2> QED BY <1>0, <2>2, <2>3, <2>4, <2>5 DEF TypeOK
<1> QED BY <1>1, <1>2, <1>3, <1>4, <1>5, <1>6, <1>7 DEF OwnStep, StartStep

LEMMA OwnStepRests ==
  ASSUME OwnStep
  PROVE  /\ UNCHANGED <<ghost, db, call, shown, answers, skinless, mishap>>
         /\ faults' = faults \/ Fault
<1>1. CASE \E url \in {"", "starlight", "custom"}, bot \in Icons : Start(url, bot)
  BY <1>1 DEF Start, askVars
<1>2. CASE \E u \in Users : CleanUser(u)
  BY <1>2 DEF CleanUser, askVars
<1>3. CASE LoadLogins \/ \E u \in Users : Login(u) \/ LoginFails(u) \/ PortalMade(u)
  BY <1>3 DEF LoadLogins, Login, LoginFails, PortalMade, avatarVars, askVars
<1>4. CASE \E u \in Users, i \in Connects : ConnectStep(u, i)
  BY <1>4 DEF ConnectStep, Discovered, DiscoverFails, UpdateSpaceAvatar, avatarVars,
     askVars
<1> QED BY <1>1, <1>2, <1>3, <1>4 DEF OwnStep, StartStep

LEMMA NextType == TypeOK /\ DownloadInv /\ [Next]_vars => (TypeOK /\ DownloadInv)'
<1> SUFFICES ASSUME TypeOK, DownloadInv, [Next]_vars
             PROVE  TypeOK' /\ DownloadInv'
  OBVIOUS
<1>0. AvatarTypeOK /\ BridgeTypeOK
  BY TypeParts
<1>1. CASE /\ \/ ChangeSkin \/ HourPasses
              \/ \E t \in Calls : UserInfo(t) \/ Begin(t)
           /\ UNCHANGED <<storeVars, procVars>>
  <2>1. AvatarTypeOK' /\ DownloadInv'
    BY <1>0, <1>1, UserInfoType, AvatarWorldType
  <2>2. BridgeTypeOK'
    BY <1>0, <1>1 DEF BridgeTypeOK, storeVars, procVars
  <2> QED BY <2>1, <2>2, TypeParts DEF TypeOK, AvatarTypeOK, BridgeTypeOK
<1>2. CASE Stop
  <2>1. AvatarTypeOK' /\ DownloadInv'
    BY <1>0, <1>2, StopType DEF Stop
  <2>2. BridgeTypeOK'
    BY <1>0, <1>2 DEF Stop, BridgeTypeOK, storeVars, NotConnected, Stages
  <2> QED BY <2>1, <2>2 DEF TypeOK, AvatarTypeOK, BridgeTypeOK
<1>3. CASE UNCHANGED vars
  BY <1>3 DEF vars, avatarVars, worldVars, askVars, storeVars, procVars, TypeOK,
     DownloadInv
<1> QED BY <1>1, <1>2, <1>3, OwnStepType
        DEF Next, Message, GhostStep, Hour, OwnStep

\* Every reachable state has its types.
THEOREM TypeCorrect == Spec => []TypeOK
<1>1. Init => TypeOK /\ DownloadInv
  BY InitType
<1>2. TypeOK /\ DownloadInv /\ [Next]_vars => (TypeOK /\ DownloadInv)'
  BY NextType
<1> QED BY <1>1, <1>2, PTL DEF Spec

-----------------------------------------------------------------------------
(* The stored tag and the avatar shown.                                    *)

LEMMA InitAvatar == Init => RowInv /\ AvatarInv
BY DEF Init, AvatarInit, RowInv, AvatarInv, NoStore, Idle, NewGhost

\* A fetch touches neither the ghost nor its row.
LEMMA FetchAvatar ==
  ASSUME AvatarTypeOK, DownloadInv, RowInv, AvatarInv, NEW t \in Calls,
         \/ Begin(t) \/ ResolveTexture(t) \/ NoTexture(t) \/ Download(t)
         \/ AskService(t) \/ FetchFails(t)
  PROVE  RowInv' /\ AvatarInv'
<1>0. /\ call \in [Calls -> CallRecord]
      /\ call[t] \in CallRecord
      /\ call[t].pc # "store"
      /\ \A u \in Calls \ {t} : call'[u] = call[u]
      /\ call'[t].pc # "store"
      /\ UNCHANGED <<ghost, db, shown>>
      /\ ~mishap' => ~mishap
  <2>1. call \in [Calls -> CallRecord] /\ call[t] \in CallRecord
    BY DEF AvatarTypeOK
  <2>2. CASE Begin(t)
    BY <2>1, <2>2 DEF Begin
  <2>3. CASE ResolveTexture(t)
    <3>1. UNCHANGED <<ghost, db, shown, mishap>> /\ call[t].pc = "ask"
      BY <2>3 DEF ResolveTexture
    <3>2. \/ call' = [call EXCEPT ![t].pc = "renew"]
          \/ call' = [call EXCEPT ![t].pc = "download", ![t].tag = Tag("skin", skin)]
      BY <2>3 DEF ResolveTexture
    <3> QED BY <2>1, <3>1, <3>2 DEF CallRecord
  <2>4. CASE AskService(t)
    <3>1. UNCHANGED <<ghost, db, shown>> /\ call[t].pc = "ask"
      BY <2>4 DEF AskService
    <3>2. ~mishap' => ~mishap
      BY <2>4, Zenon DEF AskService
    <3>3. /\ \A u \in Calls \ {t} : call'[u] = call[u]
          /\ call'[t].pc # "store"
      BY <2>1, <2>4 DEF AskService, CallRecord
    <3> QED BY <2>1, <3>1, <3>2, <3>3
  <2>5. CASE NoTexture(t) \/ FetchFails(t)
    <3>1. /\ UNCHANGED <<ghost, db, shown, mishap>> /\ call[t].pc # "store"
          /\ call' = [call EXCEPT ![t] = Idle]
      BY <2>5 DEF NoTexture, FetchFails
    <3> QED BY <2>1, <3>1 DEF Idle
  <2>6. CASE Download(t)
    BY <2>1, <2>6 DEF Download, CallRecord
  <2> QED BY <2>2, <2>3, <2>4, <2>5, <2>6
<1>1. NoStore' <=> NoStore
  BY <1>0 DEF NoStore
<1>2. RowInv'
  BY <1>0, <1>1 DEF RowInv
<1>3. ~mishap' /\ call'[t].pc = "upload" =>
        call'[t].tag \in Tags /\ call'[t].image = call'[t].tag.of
  <2>1. CASE Download(t)
    BY <1>0, <2>1 DEF Download, DownloadInv, CallRecord
  <2>2. CASE AskService(t)
    <3>1. Tag("url", skin) \in Tags /\ Tag("url", skin).of = skin
      BY TagType DEF AvatarTypeOK
    <3>2. ~mishap' => tagged
      BY <2>2 DEF AskService
    <3> QED BY <1>0, <2>2, <3>1, <3>2 DEF AskService, CallRecord
  <2>3. CASE Begin(t) \/ NoTexture(t) \/ FetchFails(t)
    <3>1. \/ call' = [call EXCEPT ![t] = Idle]
          \/ call' = [call EXCEPT ![t] = [pc |-> "ask", tag |-> ghost.etag,
                                          image |-> None]]
      BY <2>3 DEF Begin, NoTexture, FetchFails
    <3> QED BY <1>0, <3>1 DEF Idle
  <2>4. CASE ResolveTexture(t)
    <3>1. \/ call' = [call EXCEPT ![t].pc = "renew"]
          \/ call' = [call EXCEPT ![t].pc = "download", ![t].tag = Tag("skin", skin)]
      BY <2>4 DEF ResolveTexture
    <3> QED BY <1>0, <3>1 DEF CallRecord
  <2> QED BY <2>1, <2>2, <2>3, <2>4
<1> QED BY <1>0, <1>1, <1>2, <1>3 DEF AvatarInv

\* An upload leaves every call about to store with the ghost's avatar, unless
\* two of them race.
LEMMA UploadAvatar ==
  ASSUME AvatarTypeOK, RowInv, AvatarInv, NEW t \in Calls,
         Upload(t) \/ UploadFails(t)
  PROVE  RowInv' /\ AvatarInv'
<1>0. /\ call \in [Calls -> CallRecord]
      /\ call[t].pc = "upload"
      /\ call'[t].pc = "store" /\ call'[t].tag = call[t].tag
      /\ \A u \in Calls \ {t} : call'[u] = call[u]
  BY DEF AvatarTypeOK, CallRecord, Upload, UploadFails
<1>1. ~NoStore'
  BY <1>0 DEF NoStore
<1>2. CASE UploadFails(t)
  BY <1>1, <1>2 DEF UploadFails, RowInv, AvatarInv
<1>3. CASE Upload(t)
  <2> SUFFICES ASSUME ~mishap' PROVE AvatarInv'
    BY <1>1 DEF RowInv, AvatarInv
  <2>1. ~mishap /\ ~Racing(t)
    BY <1>3 DEF Upload
  <2>2. ghost'.set /\ ghost'.avatar = call[t].tag
    BY <1>3 DEF Upload, AvatarTypeOK, Ghosts
  <2>3. shown' = call[t].tag.of
    <3>1. call[t].image = call[t].tag.of
      BY <1>0, <2>1 DEF AvatarInv
    <3>2. ghost.set => shown = ghost.avatar.of
      BY <2>1 DEF AvatarInv
    <3> QED BY <1>3, <3>1, <3>2 DEF Upload
  <2>4. \A u \in Calls \ {t} : call[u].pc = "store" => call[u].tag = call[t].tag
    BY <2>1 DEF Racing
  <2>5. \A u \in Calls : call'[u].pc = "store" =>
          ghost'.set /\ ghost'.avatar = call'[u].tag
    BY <1>0, <2>2, <2>4
  <2>6. \A u \in Calls : call'[u].pc = "upload" =>
          call'[u].tag \in Tags /\ call'[u].image = call'[u].tag.of
    BY <1>0, <2>1 DEF AvatarInv
  <2> QED BY <1>1, <2>2, <2>3, <2>5, <2>6 DEF AvatarInv
<1> QED BY <1>2, <1>3

\* What is stored is the tag of the avatar that is set.
LEMMA StoreAvatar ==
  ASSUME AvatarTypeOK, RowInv, AvatarInv, NEW t \in Calls, Store(t) \/ Renew(t)
  PROVE  RowInv' /\ AvatarInv'
<1>0. /\ call \in [Calls -> CallRecord]
      /\ call'[t].pc = "idle"
      /\ \A u \in Calls \ {t} : call'[u] = call[u]
      /\ ghost \in Ghosts
      /\ ghost'.set = ghost.set /\ ghost'.avatar = ghost.avatar
      /\ shown' = shown /\ db' = ghost' /\ mishap' = mishap
  <2>1. call \in [Calls -> CallRecord] /\ ghost \in Ghosts
    BY DEF AvatarTypeOK
  <2>2. call' = [call EXCEPT ![t] = Idle]
    BY DEF Store, Renew
  <2>3. ghost'.set = ghost.set /\ ghost'.avatar = ghost.avatar
    BY <2>1 DEF Store, Renew, Ghosts
  <2>4. shown' = shown /\ db' = ghost' /\ mishap' = mishap
    BY DEF Store, Renew
  <2> QED BY <2>1, <2>2, <2>3, <2>4 DEF Idle
<1>1. RowInv'
  BY <1>0 DEF RowInv
<1>2. ASSUME ~mishap', NoStore', ghost'.etag # None
      PROVE  ghost'.set /\ ghost'.avatar = ghost'.etag
  <2>1. CASE Store(t)
    <3>1. ghost'.etag = call[t].tag
      BY <1>0, <2>1 DEF Store, Ghosts
    <3>2. ghost.set /\ ghost.avatar = call[t].tag
      BY <1>0, <1>2, <2>1 DEF Store, AvatarInv
    <3> QED BY <1>0, <3>1, <3>2
  <2>2. CASE Renew(t)
    <3>1. NoStore /\ ghost'.etag = ghost.etag
      BY <1>0, <1>2, <2>2 DEF Renew, NoStore, Ghosts
    <3> QED BY <1>0, <1>2, <3>1 DEF AvatarInv
  <2> QED BY <2>1, <2>2
<1> QED BY <1>0, <1>1, <1>2 DEF AvatarInv

LEMMA WorldAvatar ==
  ASSUME AvatarTypeOK, RowInv, AvatarInv, ChangeSkin \/ HourPasses
  PROVE  RowInv' /\ AvatarInv'
<1>1. CASE ChangeSkin
  BY <1>1 DEF ChangeSkin, RowInv, AvatarInv, NoStore
<1>2. CASE HourPasses
  <2>1. /\ ghost'.set = ghost.set /\ ghost'.avatar = ghost.avatar
        /\ ghost'.etag = ghost.etag
        /\ UNCHANGED <<call, shown, mishap>>
    BY <1>2 DEF HourPasses, AvatarTypeOK, Ghosts
  <2>2. db = ghost => db' = ghost'
    BY <1>2 DEF HourPasses, AvatarTypeOK, Ghosts
  <2> QED BY <2>1, <2>2 DEF RowInv, AvatarInv, NoStore
<1> QED BY <1>1, <1>2

\* An end of the process between upload and store is a mishap; at any other
\* time the row has all the ghost has.
LEMMA StopAvatar ==
  ASSUME RowInv, AvatarInv, AvatarStop
  PROVE  RowInv' /\ AvatarInv'
<1>1. /\ \A t \in Calls : call'[t].pc = "idle"
      /\ ghost' = db /\ db' = db /\ shown' = shown
      /\ ~mishap' => ~mishap /\ NoStore
  BY DEF AvatarStop, NoStore, Idle
<1> QED BY <1>1 DEF RowInv, AvatarInv, NoStore

LEMMA NextAvatar ==
  ASSUME TypeOK, DownloadInv, RowInv, AvatarInv, [Next]_vars
  PROVE  RowInv' /\ AvatarInv'
<1>0. AvatarTypeOK
  BY TypeParts
<1>1. CASE \E t \in Calls : Begin(t) \/ UserInfo(t)
  BY <1>0, <1>1, FetchAvatar, UploadAvatar, StoreAvatar DEF UserInfo
<1>2. CASE ChangeSkin \/ HourPasses
  BY <1>0, <1>2, WorldAvatar
<1>3. CASE Stop
  BY <1>3, StopAvatar DEF Stop
<1>4. CASE UNCHANGED <<ghost, db, call, shown, mishap>>
  BY <1>4 DEF RowInv, AvatarInv, NoStore
<1>5. ASSUME OwnStep \/ UNCHANGED vars
      PROVE  UNCHANGED <<ghost, db, call, shown, mishap>>
  BY <1>5, OwnStepRests DEF vars, avatarVars
<1> QED BY <1>1, <1>2, <1>3, <1>4, <1>5
        DEF Next, Message, GhostStep, Hour, OwnStep

\* In every reachable state the ghost's stored tag is that of the avatar its
\* profile shows, unless a mishap has happened.
THEOREM StoredTagNamesAvatar == Spec => []TagNamesAvatar
<1>1. Init => TypeOK /\ DownloadInv /\ RowInv /\ AvatarInv
  BY InitType, InitAvatar
<1>2. TypeOK /\ DownloadInv /\ RowInv /\ AvatarInv /\ [Next]_vars
        => (TypeOK /\ DownloadInv /\ RowInv /\ AvatarInv)'
  BY NextType, NextAvatar
<1>3. AvatarInv => TagNamesAvatar
  BY DEF AvatarInv, NoStore, TagNamesAvatar
<1> QED BY <1>1, <1>2, <1>3, PTL DEF Spec

-----------------------------------------------------------------------------
(* How often the skin servers are asked.                                   *)

Asking == {t \in Calls : call[t].pc = "ask"}
Answered == {t \in Calls :
               call[t].pc \in {"download", "upload", "store", "renew"}}

\* While the avatar is fresh nobody begins to ask, and who still asks was
\* under way; before, every answer is in the hands of a call that will make
\* the avatar fresh.
CountInv ==
  IF ghost.age = "fresh"
    THEN answers + Cardinality(Asking) <= Cardinality(Calls)
    ELSE answers <= Cardinality(Answered)

\* A fresh avatar is set and has a tag, so that the next message skips it.
TaggedInv ==
  /\ ghost.etag # None => ghost.set
  /\ ghost.age = "fresh" => ghost.etag # None
  /\ \A t \in Calls : call[t].pc \in {"ask", "renew"} /\ call[t].tag # None
                        => ghost.etag # None
  /\ \A t \in Calls : call[t].pc = "renew" => call[t].tag # None
  /\ \A t \in Calls : call[t].pc = "store" => call[t].tag \in Tags

HourInv == ~mishap /\ faults = 0 => TaggedInv /\ (~skinless => CountInv)

One(b) == IF b THEN 1 ELSE 0

LEMMA CountChange ==
  ASSUME NEW S, IsFiniteSet(S), NEW T, NEW x, S \ {x} = T \ {x}
  PROVE  /\ IsFiniteSet(T)
         /\ Cardinality(T) = Cardinality(S) + One(x \in T) - One(x \in S)
<1>1. CASE (x \in S) = (x \in T)
  <2>1. S = T
    BY <1>1
  <2> QED BY <2>1, FS_CardinalityType DEF One
<1>2. CASE x \in S /\ x \notin T
  <2>1. T = S \ {x}
    BY <1>2
  <2> QED BY <1>2, <2>1, FS_RemoveElement, FS_CardinalityType DEF One
<1>3. CASE x \notin S /\ x \in T
  <2>1. T = S \cup {x}
    BY <1>3
  <2> QED BY <1>3, <2>1, FS_AddElement, FS_CardinalityType DEF One
<1> QED BY <1>1, <1>2, <1>3

LEMMA CountType ==
  /\ IsFiniteSet(Asking) /\ IsFiniteSet(Answered)
  /\ Cardinality(Calls) \in Nat
  /\ Cardinality(Asking) \in Nat /\ Cardinality(Answered) \in Nat
  /\ Cardinality(Asking) + Cardinality(Answered) <= Cardinality(Calls)
<1>1. IsFiniteSet(Calls) /\ Asking \in SUBSET Calls /\ Answered \in SUBSET Calls
  BY AvatarAssumption DEF Asking, Answered
<1>2. IsFiniteSet(Asking) /\ IsFiniteSet(Answered)
  BY <1>1, FS_Subset
<1>3. Asking \cap Answered = {}
  BY DEF Asking, Answered
<1>4. Cardinality(Asking \cup Answered)
        = Cardinality(Asking) + Cardinality(Answered) - 0
  BY <1>2, <1>3, FS_Union, FS_EmptySet
<1>5. Asking \cup Answered \in SUBSET Calls
  BY <1>1
<1>6. Cardinality(Asking \cup Answered) <= Cardinality(Calls)
  BY <1>1, <1>5, FS_Subset
<1> QED BY <1>1, <1>2, <1>4, <1>6, FS_CardinalityType

\* A step of one call changes the two counts by that call only.
LEMMA CallMoves ==
  ASSUME NEW t \in Calls, \A u \in Calls \ {t} : call'[u] = call[u]
  PROVE  /\ Cardinality(Asking') = Cardinality(Asking)
              + One(call'[t].pc = "ask") - One(call[t].pc = "ask")
         /\ Cardinality(Answered') = Cardinality(Answered)
              + One(call'[t].pc \in {"download", "upload", "store", "renew"})
              - One(call[t].pc \in {"download", "upload", "store", "renew"})
<1>1. Asking \ {t} = Asking' \ {t} /\ Answered \ {t} = Answered' \ {t}
  BY DEF Asking, Answered
<1>2. /\ (t \in Asking) = (call[t].pc = "ask")
      /\ (t \in Asking') = (call'[t].pc = "ask")
      /\ (t \in Answered)
           = (call[t].pc \in {"download", "upload", "store", "renew"})
      /\ (t \in Answered')
           = (call'[t].pc \in {"download", "upload", "store", "renew"})
  BY DEF Asking, Answered
<1>3. Cardinality(Asking') =
        Cardinality(Asking) + One(t \in Asking') - One(t \in Asking)
  BY <1>1, CountType, CountChange
<1>4. Cardinality(Answered') =
        Cardinality(Answered) + One(t \in Answered') - One(t \in Answered)
  BY <1>1, CountType, CountChange
<1> QED BY <1>2, <1>3, <1>4

LEMMA InitHour == Init => HourInv
<1> SUFFICES ASSUME Init PROVE HourInv
  OBVIOUS
<1>1. CountInv
  BY CountType DEF Init, AvatarInit, CountInv, NewGhost
<1>2. TaggedInv
  BY DEF Init, AvatarInit, TaggedInv, NewGhost, Idle
<1> QED BY <1>1, <1>2 DEF HourInv

LEMMA NoFault ==
  ASSUME AvatarTypeOK, faults' = 0, faults' = faults \/ Fault
  PROVE  faults = 0
BY FaultType DEF AvatarTypeOK

\* A call begins only when the avatar is not fresh.
LEMMA BeginHour ==
  ASSUME AvatarTypeOK, HourInv, NEW t \in Calls, Begin(t)
  PROVE  HourInv'
<1>0. UNCHANGED <<mishap, faults, skinless>>
  BY DEF Begin, askVars
<1> SUFFICES ASSUME ~mishap, faults = 0
             PROVE  TaggedInv' /\ (~skinless => CountInv')
  BY <1>0 DEF HourInv
<1>1. /\ call \in [Calls -> CallRecord]
      /\ call[t].pc = "idle"
      /\ call' = [call EXCEPT ![t] = [pc |-> "ask", tag |-> ghost.etag,
                                      image |-> None]]
      /\ UNCHANGED <<ghost, answers>>
  BY DEF Begin, AvatarTypeOK, askVars
<1>2. TaggedInv
  BY DEF HourInv
<1>3. ghost.age # "fresh"
  BY <1>2 DEF Begin, SkipFetch, TaggedInv
<1>4. Cardinality(Answered') = Cardinality(Answered)
  BY <1>1, CallMoves, CountType DEF One
<1>5. ~skinless => CountInv'
  BY <1>1, <1>3, <1>4 DEF CountInv, HourInv
<1> QED BY <1>1, <1>2, <1>5 DEF TaggedInv

\* An answer takes its call from those that ask to those that are answered.
LEMMA AnswerHour ==
  ASSUME AvatarTypeOK, HourInv, NEW t \in Calls, ResolveTexture(t) \/ AskService(t)
  PROVE  HourInv'
<1>0. faults' = faults /\ (~mishap' => ~mishap) /\ (~skinless' => ~skinless)
  <2>1. CASE ResolveTexture(t)
    BY <2>1, Zenon DEF ResolveTexture, Counted
  <2>2. CASE AskService(t)
    BY <2>2, Zenon DEF AskService, Counted
  <2> QED BY <2>1, <2>2
<1> SUFFICES ASSUME ~mishap, faults = 0, ~mishap'
             PROVE  TaggedInv' /\ (~skinless => CountInv')
  BY <1>0 DEF HourInv
<1>1. /\ call \in [Calls -> CallRecord]
      /\ call[t].pc = "ask"
      /\ call'[t].pc \in {"download", "upload", "renew"}
      /\ \A u \in Calls \ {t} : call'[u] = call[u]
      /\ ghost' = ghost
  <2>1. call \in [Calls -> CallRecord]
    BY DEF AvatarTypeOK
  <2>2. CASE ResolveTexture(t)
    <3>1. \/ call' = [call EXCEPT ![t].pc = "renew"]
          \/ call' = [call EXCEPT ![t].pc = "download", ![t].tag = Tag("skin", skin)]
      BY <2>2 DEF ResolveTexture
    <3>2. call[t].pc = "ask" /\ ghost' = ghost
      BY <2>2 DEF ResolveTexture
    <3> QED BY <2>1, <3>1, <3>2 DEF CallRecord
  <2>3. CASE AskService(t)
    BY <2>1, <2>3 DEF AskService, CallRecord
  <2> QED BY <2>2, <2>3
<1>2. TaggedInv
  BY DEF HourInv
<1>3. answers \in Nat /\ answers' \in Nat /\ answers' <= answers + 1
  BY DEF ResolveTexture, AskService, Counted, AvatarTypeOK
<1>4. /\ Cardinality(Answered') = Cardinality(Answered) + 1
      /\ Cardinality(Asking') = Cardinality(Asking) - 1
  BY <1>1, CallMoves, CountType DEF One
<1>5. ASSUME ~skinless PROVE CountInv'
  <2>1. CountInv
    BY <1>5 DEF HourInv
  <2> QED BY <1>1, <1>3, <1>4, <2>1, CountType DEF CountInv
<1>6. call'[t].pc = "renew" => call[t].tag # None /\ call'[t].tag = call[t].tag
  <2>1. CASE ResolveTexture(t)
    <3>1. Tag("skin", skin) \in Tags
      BY <2>1, TagType DEF ResolveTexture, HasTexture, AvatarTypeOK, Images
    <3> QED BY <1>1, <2>1, <3>1, AvatarAssumption
            DEF ResolveTexture, HasTexture, CallRecord
  <2>2. CASE AskService(t)
    <3>1. Tag("url", skin) \in Tags
      BY TagType DEF AvatarTypeOK
    <3> QED BY <1>1, <2>2, <3>1, AvatarAssumption DEF AskService, CallRecord
  <2> QED BY <2>1, <2>2
<1> QED BY <1>1, <1>2, <1>5, <1>6 DEF TaggedInv

\* An answer without a texture excuses the count of this hour, and leaves the
\* ghost as it was.
LEMMA SkinlessHour ==
  ASSUME AvatarTypeOK, HourInv, NEW t \in Calls, NoTexture(t)
  PROVE  HourInv'
<1>1. skinless' /\ faults' = faults /\ mishap' = mishap /\ ghost' = ghost
  BY Zenon DEF NoTexture, Counted
<1>2. call'[t].pc = "idle" /\ \A u \in Calls \ {t} : call'[u] = call[u]
  BY DEF NoTexture, AvatarTypeOK, Idle
<1>3. ASSUME TaggedInv PROVE TaggedInv'
  BY <1>1, <1>2, <1>3 DEF TaggedInv
<1> QED BY <1>1, <1>3 DEF HourInv

\* Between the answer and the end of the call the counts stay.
LEMMA CarryHour ==
  ASSUME AvatarTypeOK, AvatarInv, HourInv, NEW t \in Calls,
         Download(t) \/ Upload(t)
  PROVE  HourInv'
<1>0. faults' = faults /\ (~mishap' => ~mishap) /\ skinless' = skinless
  <2>1. CASE Download(t)
    BY <2>1 DEF Download, askVars
  <2>2. CASE Upload(t)
    BY <2>2, Zenon DEF Upload, askVars
  <2> QED BY <2>1, <2>2
<1> SUFFICES ASSUME ~mishap, faults = 0, ~mishap'
             PROVE  TaggedInv' /\ (~skinless => CountInv')
  BY <1>0 DEF HourInv
<1>1. /\ call \in [Calls -> CallRecord]
      /\ call[t].pc \in {"download", "upload"}
      /\ call'[t].pc \in {"upload", "store"}
      /\ call'[t].pc = "store" => call[t].pc = "upload" /\ call'[t].tag = call[t].tag
      /\ \A u \in Calls \ {t} : call'[u] = call[u]
      /\ answers' = answers
  BY DEF Download, Upload, AvatarTypeOK, CallRecord, askVars
<1>2. ghost'.age = ghost.age /\ ghost'.etag = ghost.etag /\ (ghost.set => ghost'.set)
  BY DEF Download, Upload, AvatarTypeOK, Ghosts
<1>3. TaggedInv
  BY DEF HourInv
<1>4. /\ Cardinality(Answered') = Cardinality(Answered)
      /\ Cardinality(Asking') = Cardinality(Asking)
  BY <1>1, CallMoves, CountType DEF One
<1>5. ~skinless => CountInv'
  BY <1>1, <1>2, <1>4 DEF CountInv, HourInv
<1>6. call'[t].pc = "store" => call'[t].tag \in Tags
  BY <1>1 DEF AvatarInv
<1> QED BY <1>1, <1>2, <1>3, <1>5, <1>6 DEF TaggedInv

\* The first call to end makes the avatar fresh: all answers so far are those
\* of answered calls, and no call is both answered and asking.
LEMMA EndHour ==
  ASSUME AvatarTypeOK, AvatarInv, HourInv, NEW t \in Calls, Store(t) \/ Renew(t)
  PROVE  HourInv'
<1>0. UNCHANGED <<mishap, faults, skinless, answers>>
  BY DEF Store, Renew, askVars
<1> SUFFICES ASSUME ~mishap, faults = 0
             PROVE  TaggedInv' /\ (~skinless => CountInv')
  BY <1>0 DEF HourInv
<1>1. /\ call \in [Calls -> CallRecord]
      /\ ghost \in Ghosts
  BY DEF AvatarTypeOK
<1>2. /\ call[t].pc \in {"store", "renew"}
      /\ call'[t].pc = "idle"
      /\ \A u \in Calls \ {t} : call'[u] = call[u]
  <2>1. call' = [call EXCEPT ![t] = Idle] /\ call[t].pc \in {"store", "renew"}
    BY DEF Store, Renew
  <2> QED BY <1>1, <2>1 DEF Idle
<1>3. TaggedInv
  BY DEF HourInv
<1>4. ghost'.age = "fresh" /\ ghost'.set = ghost.set
  BY <1>1 DEF Store, Renew, Ghosts
<1>5. ghost'.etag # None /\ ghost'.set
  <2>1. CASE Store(t)
    <3>1. ghost'.etag = call[t].tag /\ call[t].pc = "store"
      BY <1>1, <2>1 DEF Store, Ghosts
    <3>2. call[t].tag \in Tags /\ ghost.set
      BY <1>3, <3>1 DEF TaggedInv, AvatarInv
    <3> QED BY <1>4, <3>1, <3>2, AvatarAssumption
  <2>2. CASE Renew(t)
    <3>1. ghost'.etag = ghost.etag /\ call[t].pc = "renew"
      BY <1>1, <2>2 DEF Renew, Ghosts
    <3> QED BY <1>3, <1>4, <3>1 DEF TaggedInv
  <2> QED BY <2>1, <2>2
<1>6. Cardinality(Asking') = Cardinality(Asking)
  BY <1>2, CallMoves, CountType DEF One
<1>7. answers \in Nat
  BY DEF AvatarTypeOK
<1>8. ASSUME ~skinless PROVE CountInv'
  <2>1. CountInv
    BY <1>8 DEF HourInv
  <2> QED BY <1>0, <2>1, <1>4, <1>6, <1>7, CountType DEF CountInv
<1> QED BY <1>2, <1>3, <1>5, <1>8 DEF TaggedInv

\* A new hour, and a new process, start to count at nothing.
LEMMA ResetHour ==
  ASSUME AvatarTypeOK, RowInv, HourInv, HourPasses \/ AvatarStop
  PROVE  HourInv'
<1>1. CASE HourPasses
  <2>1. /\ ghost'.age # "fresh" /\ ghost'.set = ghost.set
        /\ ghost'.etag = ghost.etag
        /\ answers' = 0
        /\ UNCHANGED <<call, mishap, faults>>
    BY <1>1 DEF HourPasses, AvatarTypeOK, Ghosts
  <2>2. Answered' = Answered
    BY <2>1 DEF Answered
  <2>3. CountInv'
    BY <2>1, <2>2, CountType DEF CountInv
  <2>4. TaggedInv => TaggedInv'
    BY <2>1 DEF TaggedInv
  <2> QED BY <2>1, <2>3, <2>4 DEF HourInv
<1>2. CASE AvatarStop
  <2> SUFFICES ASSUME ~mishap', faults' = 0 PROVE CountInv' /\ TaggedInv'
    BY DEF HourInv
  <2>1. /\ \A t \in Calls : call'[t].pc = "idle"
        /\ answers' = 0 /\ ~mishap /\ faults = 0 /\ ghost' = db /\ NoStore
    BY <1>2 DEF AvatarStop, Idle, NoStore
  <2>2. ghost' = ghost
    BY <2>1 DEF RowInv
  <2>3. Asking' = {} /\ Answered' = {}
    BY <2>1 DEF Asking, Answered
  <2>4. CountInv'
    BY <2>1, <2>3, CountType, FS_EmptySet DEF CountInv
  <2> QED BY <2>1, <2>2, <2>4 DEF HourInv, TaggedInv
<1> QED BY <1>1, <1>2

LEMMA NextHour ==
  ASSUME TypeOK, RowInv, AvatarInv, HourInv, [Next]_vars
  PROVE  HourInv'
<1>0. AvatarTypeOK
  BY TypeParts
<1>1. CASE \E t \in Calls : Begin(t) \/ UserInfo(t)
  <2>1. PICK t \in Calls : Begin(t) \/ UserInfo(t)
    BY <1>1
  <2>2. CASE FetchFails(t) \/ UploadFails(t)
    <3>1. faults' # 0
      BY <1>0, <2>2, FaultType DEF FetchFails, UploadFails, AvatarTypeOK
    <3> QED BY <3>1 DEF HourInv
  <2> QED BY <1>0, <2>1, <2>2, BeginHour, AnswerHour, SkinlessHour, CarryHour, EndHour
          DEF UserInfo
<1>2. CASE HourPasses \/ Stop
  BY <1>0, <1>2, ResetHour DEF Stop
<1>3. ASSUME UNCHANGED <<ghost, call, answers, skinless, mishap>>,
             faults' = 0 => faults = 0
      PROVE  HourInv'
  BY <1>3 DEF HourInv, CountInv, TaggedInv, Asking, Answered
<1>4. ASSUME OwnStep \/ ChangeSkin \/ UNCHANGED vars
      PROVE  /\ UNCHANGED <<ghost, call, answers, skinless, mishap>>
             /\ faults' = faults \/ Fault
  BY <1>4, OwnStepRests DEF ChangeSkin, vars, avatarVars, askVars
<1> QED BY <1>0, <1>1, <1>2, <1>3, <1>4, NoFault
        DEF Next, Message, GhostStep, Hour, OwnStep

\* Without mishaps, failing requests and answers that know of no texture, a
\* player's skin is looked up no more often in an hour than calls can run side
\* by side.
THEOREM LookedUpHourly == Spec => []AskedHourly
<1> DEFINE Inv == TypeOK /\ DownloadInv /\ RowInv /\ AvatarInv /\ HourInv
<1>1. Init => Inv
  BY InitType, InitAvatar, InitHour
<1>2. Inv /\ [Next]_vars => Inv'
  BY NextType, NextAvatar, NextHour
<1>3. Inv => AskedHourly
  BY CountType DEF HourInv, CountInv, AskedHourly, TypeOK
<1> QED BY <1>1, <1>2, <1>3, PTL DEF Spec

-----------------------------------------------------------------------------
(* The login table.                                                        *)

LEMMA InitSweep == Init => SweepInv
BY DEF Init, SweepInv

\* The sweep goes on until the list is empty; nothing writes a legacy row, and
\* nobody but the start of a process forgets a row that could not be deleted.
LEMMA NextSweep ==
  ASSUME TypeOK, SweepInv, [Next]_vars
  PROVE  SweepInv'
<1>0. rows \subseteq Rows
  BY DEF TypeOK
<1>1. CASE UNCHANGED <<phase, rows, todo, unswept>>
  BY <1>1 DEF SweepInv, LegacyRows
<1>2. CASE \E url \in {"", "starlight", "custom"}, bot \in Icons : Start(url, bot)
  <2>1. phase' = "cleanup" /\ rows' = rows
    BY <1>2 DEF Start
  <2>2. LegacyRows' = LegacyRows /\ LegacyRows \subseteq rows
    BY <2>1 DEF LegacyRows
  <2>3. \/ todo' = {r[1] : r \in rows}
        \/ unswept' = LegacyRows
    BY <1>2 DEF Start
  <2> QED BY <2>1, <2>2, <2>3 DEF SweepInv
<1>3. CASE \E u \in Users : CleanUser(u)
  <2>0. PICK u \in Users : CleanUser(u)
    BY <1>3
  <2>1. PICK kept \in SUBSET Legacy(u) :
           /\ todo' = todo \ {u}
           /\ rows' = rows \ (Legacy(u) \ kept)
           /\ unswept' = unswept \cup kept
           /\ phase = "cleanup" /\ phase' = "cleanup"
    BY <2>0 DEF CleanUser
  <2>2. SUFFICES ASSUME NEW row \in LegacyRows'
                 PROVE  row[1] \in todo' \/ row \in unswept'
    BY <2>1 DEF SweepInv
  <2>3. row \in LegacyRows /\ row \in rows'
    BY <2>1 DEF LegacyRows
  <2>4. row[1] \in todo \/ row \in unswept
    BY <2>1, <2>3 DEF SweepInv
  <2>5. CASE row[1] = u
    <3>1. row \in Legacy(u)
      BY <2>3, <2>5 DEF LegacyRows, Legacy
    <3>2. row \in kept
      BY <2>1, <2>3, <3>1
    <3> QED BY <2>1, <3>2
  <2> QED BY <2>1, <2>4, <2>5
<1>4. CASE LoadLogins
  BY <1>4 DEF LoadLogins, SweepInv, LegacyRows, storeVars
<1>5. CASE \E u \in Users : Login(u)
  <2>1. PICK u \in Users : Login(u)
    BY <1>5
  <2>2. <<u, "admin">> \notin Users \X OldServers
    BY ConnectorAssumption
  <2>3. LegacyRows' = LegacyRows
    BY <2>1, <2>2 DEF Login, LegacyRows
  <2> QED BY <2>1, <2>3 DEF Login, SweepInv
<1>6. CASE Stop
  BY <1>6 DEF Stop, SweepInv
<1>7. CASE \E u \in Users : LoginFails(u) \/ PortalMade(u)
  BY <1>1, <1>7 DEF LoginFails, PortalMade, storeVars, procVars
<1>8. CASE \E u \in Users, i \in Connects : ConnectStep(u, i)
  BY <1>1, <1>8 DEF ConnectStep, Discovered, DiscoverFails, UpdateSpaceAvatar,
     storeVars
<1>9. CASE \/ ChangeSkin /\ UNCHANGED <<storeVars, procVars>>
           \/ Hour
           \/ \E t \in Calls : Message(t) \/ GhostStep(t)
           \/ UNCHANGED vars
  BY <1>1, <1>9 DEF Hour, Message, GhostStep, vars, storeVars, procVars
<1> QED BY <1>2, <1>3, <1>4, <1>5, <1>6, <1>7, <1>8, <1>9 DEF Next, StartStep

\* When the logins are loaded a legacy row is left only where a request for it
\* failed: LoadUserLogin meets no other row than admins' and those.
THEOREM LegacyRowsSwept == Spec => []LegacySwept
<1>1. Init => TypeOK /\ DownloadInv /\ SweepInv
  BY InitType, InitSweep
<1>2. TypeOK /\ DownloadInv /\ SweepInv /\ [Next]_vars
        => (TypeOK /\ DownloadInv /\ SweepInv)'
  BY NextType, NextSweep
<1>3. SweepInv => LegacySwept
  BY DEF SweepInv, LegacySwept
<1> QED BY <1>1, <1>2, <1>3, PTL DEF Spec

-----------------------------------------------------------------------------
(* The avatar of the space.                                                *)

\* The icon changes while nobody is connected only, and whoever gets past the
\* update has the space brought to the icon.
LEMMA NextSpace ==
  ASSUME TypeOK, ConnectInv, SpaceHasIcon, [Next]_vars
  PROVE  ConnectInv' /\ SpaceHasIcon'
<1> USE DEF ConnectInv, SpaceHasIcon
<1>0. connect \in [Users -> [Connects -> Stages]]
      /\ space \in [Users -> Icons \cup {None, "none"}]
  BY DEF TypeOK
<1>1. CASE UNCHANGED <<phase, connect, space, icon>>
  BY <1>1
<1>2. CASE \E url \in {"", "starlight", "custom"}, bot \in Icons : Start(url, bot)
  <2>1. connect' = NotConnected
    BY <1>2 DEF Start
  <2> QED BY <2>1 DEF NotConnected
<1>3. CASE LoadLogins
  <2>1. \A u \in Users, i \in Connects : connect'[u][i] # "done"
    BY <1>3 DEF LoadLogins
  <2> QED BY <1>3, <2>1 DEF LoadLogins
<1>4. CASE \E u \in Users : Login(u)
  <2>1. PICK u \in Users, i \in Connects :
           /\ connect' = [connect EXCEPT ![u][i] = "discover"]
           /\ phase = "up" /\ UNCHANGED <<phase, space, icon>>
    BY <1>4 DEF Login
  <2>2. \A v \in Users, j \in Connects :
           connect'[v][j] = "done" => connect[v][j] = "done"
    BY <1>0, <2>1
  <2> QED BY <2>1, <2>2
<1>5. CASE \E u \in Users : PortalMade(u)
  <2>1. PICK u \in Users : /\ space[u] = "none"
                           /\ space' = [space EXCEPT ![u] = icon]
                           /\ UNCHANGED <<phase, connect, icon>>
    BY <1>5 DEF PortalMade, procVars
  <2> QED BY <1>0, <2>1
<1>6. CASE \E u \in Users, i \in Connects : ConnectStep(u, i)
  <2>1. PICK u \in Users, i \in Connects : ConnectStep(u, i)
    BY <1>6
  <2>2. connect[u][i] # "none" /\ UNCHANGED <<phase, icon>>
    BY <2>1 DEF ConnectStep, Discovered, DiscoverFails, UpdateSpaceAvatar, Go
  <2>3. phase = "up"
    BY <2>2 DEF NotConnected
  <2>4. \A v \in Users, j \in Connects :
           <<v, j>> # <<u, i>> => connect'[v][j] = connect[v][j]
    BY <1>0, <2>1 DEF ConnectStep, Discovered, DiscoverFails, UpdateSpaceAvatar, Go
  <2>5. \/ space' = space
        \/ space[u] # "none" /\ icon # None /\ space' = [space EXCEPT ![u] = icon]
    BY <2>1 DEF ConnectStep, Discovered, DiscoverFails, UpdateSpaceAvatar, storeVars
  <2>6. connect'[u][i] = "done" /\ icon # None => space'[u] \in {"none", icon}
    BY <1>0, <2>1 DEF ConnectStep, Discovered, DiscoverFails, UpdateSpaceAvatar, Go
  <2>7. \A v \in Users : space'[v] = space[v] \/ space'[v] = icon
    BY <1>0, <2>5
  <2> QED BY <2>2, <2>3, <2>4, <2>6, <2>7
<1>7. CASE Stop
  <2>1. connect' = NotConnected
    BY <1>7 DEF Stop
  <2> QED BY <2>1 DEF NotConnected
<1>8. ASSUME \/ ChangeSkin /\ UNCHANGED <<storeVars, procVars>>
             \/ Hour
             \/ \E t \in Calls : Message(t) \/ GhostStep(t)
             \/ \E u \in Users : CleanUser(u) \/ LoginFails(u)
             \/ UNCHANGED vars
      PROVE  UNCHANGED <<phase, connect, space, icon>>
  BY <1>8 DEF Hour, Message, GhostStep, CleanUser, LoginFails, vars, storeVars,
     procVars
<1> QED BY <1>1, <1>2, <1>3, <1>4, <1>5, <1>6, <1>7, <1>8 DEF Next, StartStep

\* When Connect is done, the space has the configured avatar.
THEOREM SpaceAvatarIsIcon == Spec => []SpaceHasIcon
<1>1. Init => TypeOK /\ DownloadInv /\ ConnectInv /\ SpaceHasIcon
  BY InitType DEF Init, ConnectInv, SpaceHasIcon, NotConnected
<1>2. TypeOK /\ DownloadInv /\ ConnectInv /\ SpaceHasIcon /\ [Next]_vars
        => (TypeOK /\ DownloadInv /\ ConnectInv /\ SpaceHasIcon)'
  BY NextType, NextSpace
<1> QED BY <1>1, <1>2, PTL DEF Spec

=============================================================================
