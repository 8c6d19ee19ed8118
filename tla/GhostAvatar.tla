------------------------------ MODULE GhostAvatar ------------------------------
(***************************************************************************)
(* The avatar of a player's ghost: MCClient.GetUserInfo (client.go), which *)
(* bridgev2 calls on every message of the player, and AvatarFetcher        *)
(* (avatar.go).  Messages from two servers are handled by two goroutines,  *)
(* so calls for the same ghost interleave, between each other and with the *)
(* player changing the skin.                                               *)
(*                                                                         *)
(* An image is the skin it was rendered from.  A tag is an ETag, the name  *)
(* of a skin given by the texture servers or by a render service.          *)
(***************************************************************************)
EXTENDS Naturals, FiniteSets

CONSTANTS
  Skins,       \* the custom skins the player uses
  NoSkin,      \* the default skin, which has no texture
  None,        \* no tag, no image
  Calls,       \* calls of GetUserInfo that may run at the same time
  MaxChanges,  \* bound: changes of the skin
  MaxFaults    \* bound: failing requests

Images == Skins \cup {NoSkin}
Tag(by, of) == [by |-> by, of |-> of]
Tags == [by : {"skin"}, of : Skins] \cup [by : {"url"}, of : Images]

ASSUME AvatarAssumption == /\ NoSkin \notin Skins
                           /\ None \notin Images \cup Tags
                           /\ IsFiniteSet(Calls)
                           /\ MaxChanges \in Nat
                           /\ MaxFaults \in Nat

VARIABLES
  skin,      \* the skin the player wears
  tagged,    \* the render service sends ETags
  shown,     \* the avatar in the ghost's Matrix profile
  changes,
  faults

VARIABLES
  fetcher,   \* AvatarFetcher: "skin" renders textures, "url" asks a service
  ghost,     \* bridgev2's Ghost with its GhostMetadata
  db,        \* its row in the database
  call,      \* call[t]: where call t of GetUserInfo and UpdateInfo stands
  answers,   \* lookups the skin servers answered since the last hour began
  skinless,  \* one of them found no texture
  mishap     \* shown and the stored tag have been torn apart

worldVars == <<skin, tagged, changes>>
askVars == <<answers, skinless>>
avatarVars == <<worldVars, shown, faults, fetcher, ghost, db, call, askVars,
                mishap>>

NewGhost == [avatar |-> None, set |-> FALSE, etag |-> None, age |-> "never"]
Idle == [pc |-> "idle", tag |-> None, image |-> None]

AvatarInit ==
  /\ skin \in Images
  /\ tagged \in BOOLEAN
  /\ shown = None
  /\ changes = 0
  /\ faults = 0
  /\ ghost = NewGhost
  /\ db = NewGhost
  /\ call = [t \in Calls |-> Idle]
  /\ answers = 0
  /\ skinless = FALSE
  /\ mishap = FALSE

-----------------------------------------------------------------------------
(* The player and the clock.                                               *)

ChangeSkin ==
  /\ changes < MaxChanges
  /\ changes' = changes + 1
  /\ skin' \in Images \ {skin}
  /\ UNCHANGED <<tagged, shown, faults, fetcher, ghost, db, call, askVars,
                 mishap>>

\* An hour goes by, since AvatarFetchedAt if there is one.
HourPasses ==
  /\ ghost' = [ghost EXCEPT !.age = IF @ = "fresh" THEN "stale" ELSE @]
  /\ db' = [db EXCEPT !.age = IF @ = "fresh" THEN "stale" ELSE @]
  /\ answers' = 0
  /\ skinless' = FALSE
  /\ UNCHANGED <<worldVars, shown, faults, fetcher, call, mishap>>

Fault == faults < MaxFaults /\ faults' = faults + 1

-----------------------------------------------------------------------------
(* GetUserInfo with AvatarFetcher.Fetch.                                   *)

\* Mutant of SkipFetch: the time of the fetch is not looked at.
SkipFetchForGood == ghost.set /\ ghost.etag # None

\* The avatar is set and was fetched less than an hour ago.
SkipFetch == ghost.set /\ ghost.etag # None /\ ghost.age = "fresh"

\* A message makes bridgev2 ask for the player's info; a call that skips the
\* fetch changes nothing.
Begin(t) ==
  /\ call[t].pc = "idle"
  /\ ~SkipFetch
  /\ call' = [call EXCEPT ![t] = [pc |-> "ask", tag |-> ghost.etag,
                                  image |-> None]]
  /\ UNCHANGED <<worldVars, shown, faults, fetcher, ghost, db, askVars, mishap>>

\* A lookup is answered.
Counted(found) ==
  /\ answers' = IF answers <= Cardinality(Calls) THEN answers + 1 ELSE answers
  /\ skinless' = (skinless \/ ~found)

\* resolveTextureID finds a texture, through Mojang or GeyserMC; a player with
\* the default skin has none, nor has one GeyserMC has not met.
HasTexture == skin # NoSkin

\* Mutant of ResolveTexture: a profile without a skin is not noticed.
ResolveAnyTexture(t) ==
  /\ call[t].pc = "ask" /\ fetcher = "skin"
  /\ call' = [call EXCEPT ![t].pc = "download", ![t].tag = Tag("skin", skin)]
  /\ Counted(TRUE)
  /\ UNCHANGED <<worldVars, shown, faults, fetcher, ghost, db, mishap>>

\* fetchFromSkin: a known texture needs no download.
ResolveTexture(t) ==
  /\ call[t].pc = "ask" /\ fetcher = "skin"
  /\ HasTexture
  /\ LET texture == Tag("skin", skin) IN
       call' = IF texture = call[t].tag
                 THEN [call EXCEPT ![t].pc = "renew"]
                 ELSE [call EXCEPT ![t].pc = "download", ![t].tag = texture]
  /\ Counted(TRUE)
  /\ UNCHANGED <<worldVars, shown, faults, fetcher, ghost, db, mishap>>

\* A texture's URL names its content.
Download(t) ==
  /\ call[t].pc = "download"
  /\ call' = [call EXCEPT ![t].pc = "upload", ![t].image = call[t].tag.of]
  /\ UNCHANGED <<worldVars, shown, faults, fetcher, ghost, db, askVars, mishap>>

\* fetchFromURL: 304 for the tag sent, or an image with a new ETag; without
\* one the old tag stays.
AskService(t) ==
  /\ call[t].pc = "ask" /\ fetcher = "url"
  /\ call' = IF tagged /\ call[t].tag = Tag("url", skin)
               THEN [call EXCEPT ![t].pc = "renew"]
               ELSE [call EXCEPT ![t].pc = "upload", ![t].image = skin,
                                 ![t].tag = IF tagged THEN Tag("url", skin)
                                                      ELSE @]
  /\ mishap' = (mishap \/ ~tagged)
  /\ Counted(TRUE)
  /\ UNCHANGED <<worldVars, shown, faults, fetcher, ghost, db>>

\* The servers answer, but a player without a texture is an error to Fetch:
\* nothing is kept of the answer, not even when it came.
NoTexture(t) ==
  /\ call[t].pc = "ask" /\ fetcher = "skin"
  /\ ~HasTexture
  /\ call' = [call EXCEPT ![t] = Idle]
  /\ Counted(FALSE)
  /\ UNCHANGED <<worldVars, shown, faults, fetcher, ghost, db, mishap>>

\* A request fails: nothing is updated.
FetchFails(t) ==
  /\ call[t].pc \in {"ask", "download"}
  /\ Fault
  /\ call' = [call EXCEPT ![t] = Idle]
  /\ UNCHANGED <<worldVars, shown, fetcher, ghost, db, askVars, mishap>>

-----------------------------------------------------------------------------
(* bridgev2's UpdateInfo with what GetUserInfo returned: first the avatar,  *)
(* then ExtraUpdates, then the ghost is saved.                              *)

\* Another call has set its avatar and not yet stored its own tag.
Racing(t) ==
  \E u \in Calls \ {t} : call[u].pc = "store" /\ call[u].tag # call[t].tag

\* Mutant of Upload: the avatar's ID does not depend on the tag.
UploadOnce(t) ==
  /\ call[t].pc = "upload"
  /\ call' = [call EXCEPT ![t].pc = "store", ![t].image = None]
  /\ IF ghost.set
       THEN UNCHANGED <<ghost, shown>>
       ELSE /\ ghost' = [ghost EXCEPT !.avatar = call[t].tag, !.set = TRUE]
            /\ shown' = call[t].image
  /\ mishap' = (mishap \/ Racing(t))
  /\ UNCHANGED <<worldVars, faults, fetcher, db, askVars>>

\* An avatar whose ID (made from the tag) is set already is not uploaded.
Upload(t) ==
  /\ call[t].pc = "upload"
  /\ call' = [call EXCEPT ![t].pc = "store", ![t].image = None]
  /\ IF ghost.set /\ ghost.avatar = call[t].tag
       THEN UNCHANGED <<ghost, shown>>
       ELSE /\ ghost' = [ghost EXCEPT !.avatar = call[t].tag, !.set = TRUE]
            /\ shown' = call[t].image
  /\ mishap' = (mishap \/ Racing(t))
  /\ UNCHANGED <<worldVars, faults, fetcher, db, askVars>>

\* The upload fails: bridgev2 notes it and goes on with ExtraUpdates.
UploadFails(t) ==
  /\ call[t].pc = "upload"
  /\ ~(ghost.set /\ ghost.avatar = call[t].tag)
  /\ Fault
  /\ call' = [call EXCEPT ![t].pc = "store", ![t].image = None]
  /\ ghost' = [ghost EXCEPT !.avatar = call[t].tag, !.set = FALSE]
  /\ mishap' = TRUE
  /\ UNCHANGED <<worldVars, shown, fetcher, db, askVars>>

\* ExtraUpdates after a new avatar, whether it was uploaded or not.
Store(t) ==
  /\ call[t].pc = "store"
  /\ ghost' = [ghost EXCEPT !.etag = call[t].tag, !.age = "fresh"]
  /\ db' = ghost'
  /\ call' = [call EXCEPT ![t] = Idle]
  /\ UNCHANGED <<worldVars, shown, faults, fetcher, askVars, mishap>>

\* Mutant of Renew: the hour does not start anew.
RenewNothing(t) ==
  /\ call[t].pc = "renew"
  /\ call' = [call EXCEPT ![t] = Idle]
  /\ UNCHANGED <<worldVars, shown, faults, fetcher, ghost, db, askVars, mishap>>

\* ExtraUpdates after an unchanged one: only the hour starts anew.
Renew(t) ==
  /\ call[t].pc = "renew"
  /\ ghost' = [ghost EXCEPT !.age = "fresh"]
  /\ db' = ghost'
  /\ call' = [call EXCEPT ![t] = Idle]
  /\ UNCHANGED <<worldVars, shown, faults, fetcher, askVars, mishap>>

UserInfo(t) ==
  \/ ResolveTexture(t) \/ NoTexture(t) \/ Download(t) \/ AskService(t)
  \/ FetchFails(t) \/ Upload(t) \/ UploadFails(t) \/ Store(t) \/ Renew(t)

\* The process ends: the calls are gone and the ghost is read again from the
\* database, which may not know of the avatar set last.
AvatarStop ==
  /\ call' = [t \in Calls |-> Idle]
  /\ ghost' = db
  /\ mishap' = (mishap \/ \E t \in Calls : call[t].pc = "store")
  /\ answers' = 0
  /\ skinless' = FALSE
  /\ UNCHANGED <<worldVars, shown, faults, db>>

=============================================================================
