---------------------------- MODULE AccountSessions ----------------------------
(***************************************************************************)
(* One account's devices, sessions and published key, under requests that  *)
(* run side by side: login with the device quota, renewal, logout, changed *)
(* password (backend/internal/authz/service.go), removal of a device       *)
(* (api/device_handler.go), the WebSocket handshake (ws/handler.go) and    *)
(* the public key (api/auth_handler.go, store/user_store.go).              *)
(*                                                                         *)
(* A request is a sequence of database statements, each a step of its own. *)
(* They succeed, but for a login's registration of the device, whose       *)
(* failure is only logged.  A handshake and a removal look at the active   *)
(* device and change it in one step.  A token stands for its row in        *)
(* sessions and its entry in revoked_tokens, taken as written at once.     *)
(***************************************************************************)
EXTENDS Naturals, Sequences, FiniteSets

CONSTANTS Devices, NoDevice,
          Handlers,          \* request handlers that run side by side
          MaxActiveDevices,
          MaxTokens,         \* bound: tokens issued
          MaxRequests        \* bound: requests begun

ASSUME AccountAssumption ==
  /\ NoDevice \notin Devices /\ IsFiniteSet(Devices)
  /\ MaxActiveDevices \in Nat \ {0} /\ {MaxTokens, MaxRequests} \subseteq Nat

VARIABLES
  row,       \* devices.is_active: "none" without a row, "active", "inactive"
  session,   \* the device of each token, in the order of issue
  revoked,   \* tokens that RequireJWT refuses
  active,    \* users.active_device_id
  key,       \* users.public_key, named by the device that made it
  doing,     \* what each handler is doing
  shut,      \* devices whose sessions were revoked since they last logged in
  gone,      \* devices turned out of the account since they last logged in
  kept,      \* tokens left valid when their device was turned out
  released,  \* the active device has logged out since it became the active one
  uncounted, \* registrations that no count of the devices foresaw
  requests

rows == <<row, session, revoked>>
keys == <<active, key, released>>
history == <<shut, gone, kept, uncounted>>
accountVars == <<rows, keys, doing, history, requests>>

NoRequest == [step |-> "idle"]
Perform(t, x) == doing' = [doing EXCEPT ![t] = x]
Continue(t, x) == Perform(t, x) /\ UNCHANGED requests
Begin(t, x) == /\ doing[t] = NoRequest /\ requests < MaxRequests
               /\ requests' = requests + 1
               /\ Perform(t, x)

AccountInit == /\ row = [d \in Devices |-> "none"] /\ session = <<>> /\ revoked = {}
               /\ active = NoDevice /\ key = NoDevice /\ released = TRUE
               /\ doing = [t \in Handlers |-> NoRequest]
               /\ shut = {} /\ gone = {} /\ kept = {} /\ uncounted = 0
               /\ requests = 0

ActiveDevices == {d \in Devices : row[d] = "active"}
Issued == DOMAIN session
TokensOf(D) == {k \in Issued : session[k] \in D}

(* RequireJWT, at the start of every request but login and the handshake.  *)
Authorized(k) == k \in Issued \ revoked

(* Devices that a request under way will give a token, or a row.           *)
Under(steps) == {doing[t].dev : t \in {u \in Handlers : doing[u].step \in steps}}
Entering == Under({"kick", "issue", "devices", "upsert", "unknown"})

Revoke(tokens, devices) == /\ revoked' = revoked \union tokens
                           /\ shut' = shut \union (devices \ Entering)
(* DeactivateDevice, of a device with a row.                               *)
TurnOut(d) == IF row[d] = "none" THEN UNCHANGED <<row, gone>>
              ELSE /\ row' = [row EXCEPT ![d] = "inactive"]
                   /\ gone' = gone \union ({d} \ Entering)
SetActive(d) == active' = d /\ released' = FALSE
--------------------------------------------------------------------------------
(* Mutant: one device too many.                                            *)
OneMoreFits == Cardinality(ActiveDevices) <= MaxActiveDevices
RoomForOne == Cardinality(ActiveDevices) < MaxActiveDevices

(* finishLogin, with the override confirmed: without it a conflict is all  *)
(* there is.  The device list is read first and decides.                   *)
Login(t, d) ==
  /\ Begin(t, [step |-> IF d \in ActiveDevices \/ RoomForOne THEN "issue" ELSE "kick",
               dev |-> d, old |-> 0, seen |-> ActiveDevices])
  /\ shut' = shut \ {d} /\ gone' = gone \ {d}
  /\ UNCHANGED <<rows, keys, kept, uncounted>>

(* The device the client named, in the list or not, or the one seen        *)
(* longest ago; its sessions are left.                                     *)
KickForLogin(t, d) ==
  /\ doing[t].step = "kick"
  /\ TurnOut(d)
  /\ kept' = kept \union (TokensOf({d}) \ revoked)
  /\ shut' = IF row[d] = "none" THEN shut ELSE shut \union ({d} \ Entering)
  /\ Continue(t, [doing[t] EXCEPT !.step = "issue", !.seen = IF d \in @ THEN @ \ {d} ELSE {}])
  /\ UNCHANGED <<session, revoked, keys, uncounted>>

(* CreateSession, for a login or a renewal.                                *)
IssueToken(t) ==
  /\ doing[t].step = "issue" /\ Len(session) < MaxTokens
  /\ session' = Append(session, doing[t].dev)
  /\ Continue(t, [doing[t] EXCEPT !.step = IF doing[t].old = 0 THEN "upsert" ELSE "retire"])
  /\ UNCHANGED <<row, revoked, keys, history>>

(* A device is registered that this count, or no count at all, foresaw.    *)
Register(d, seen) ==
  /\ row' = [row EXCEPT ![d] = "active"]
  /\ uncounted' = IF row[d] # "active" /\ ~ActiveDevices \subseteq seen
                  THEN uncounted + 1 ELSE uncounted

RegisterDevice(t) ==
  /\ doing[t].step = "upsert"
  /\ \/ Register(doing[t].dev, doing[t].seen)
     \/ UNCHANGED <<row, uncounted>>
  /\ Continue(t, NoRequest)
  /\ UNCHANGED <<session, revoked, keys, shut, gone, kept>>

(* RefreshToken: the session is valid, the device is active, then a new    *)
(* session, then the old one's revocation.                                 *)
Refresh(t, k) ==
  /\ Authorized(k)
  /\ Begin(t, [step |-> "devices", dev |-> session[k], old |-> k, seen |-> {}])
  /\ UNCHANGED <<rows, keys, history>>

(* Mutant: the device is not looked up.                                    *)
AnyDevice(d) == TRUE
StillActive(d) == row[d] = "active"

CheckDevice(t) ==
  /\ doing[t].step = "devices"
  /\ Continue(t, IF StillActive(doing[t].dev) THEN [doing[t] EXCEPT !.step = "issue"] ELSE NoRequest)
  /\ UNCHANGED <<rows, keys, history>>

RetireOld(t) ==
  /\ doing[t].step = "retire"
  /\ revoked' = revoked \union {doing[t].old}
  /\ Continue(t, NoRequest)
  /\ UNCHANGED <<row, session, keys, history>>

(* ClearActiveDevice: only the active device's own logout clears it.       *)
Cleared(d) == IF active = d THEN NoDevice ELSE active

Logout(t, k) ==
  /\ Authorized(k)
  /\ revoked' = revoked \union {k}
  /\ Begin(t, [step |-> "clear", dev |-> session[k]])
  /\ UNCHANGED <<row, session, keys, history>>

ClearActiveDevice(t) ==
  /\ doing[t].step = "clear"
  /\ active' = Cleared(doing[t].dev)
  /\ released' = (released \/ active = doing[t].dev)
  /\ Continue(t, NoRequest)
  /\ UNCHANGED <<rows, key, history>>

(* RevokeSession of any one of the account's sessions.                     *)
RevokeSession(t, k, j) ==
  /\ Authorized(k) /\ j \in Issued /\ Begin(t, NoRequest)
  /\ revoked' = revoked \union {j}
  /\ UNCHANGED <<row, session, keys, history>>

RevokeAllOtherSessions(t, k) ==
  /\ Authorized(k) /\ Begin(t, NoRequest)
  /\ Revoke(Issued \ {k}, Devices \ {session[k]})
  /\ UNCHANGED <<row, session, keys, gone, kept, uncounted>>

ChangePassword(t, k) ==
  /\ Authorized(k) /\ Begin(t, NoRequest)
  /\ Revoke(Issued, Devices)
  /\ UNCHANGED <<row, session, keys, gone, kept, uncounted>>

(* Mutant: the removed device keeps its sessions.                          *)
NotItsSessions(d) == {}
(* RevokeDeviceSessions                                                    *)
ItsSessions(d) == TokensOf({d})

(* RemoveDevice of another device: its sessions, the device, then the      *)
(* active device, and the caller's own row if it has none.                 *)
RemoveDevice(t, k, d) ==
  /\ Authorized(k) /\ d # session[k] /\ row[d] # "none"
  /\ Revoke(ItsSessions(d), {d})
  /\ Begin(t, [step |-> "remove", by |-> session[k], target |-> d])
  /\ UNCHANGED <<row, session, keys, gone, kept, uncounted>>

DeactivateRemoved(t) ==
  /\ doing[t].step = "remove"
  /\ TurnOut(doing[t].target)
  /\ Continue(t, [doing[t] EXCEPT !.step = "sync"])
  /\ UNCHANGED <<session, revoked, keys, shut, kept, uncounted>>

SyncActiveDevice(t) ==
  /\ doing[t].step = "sync"
  /\ LET x == doing[t]
     IN /\ IF active \in {x.target, NoDevice} THEN SetActive(x.by)
           ELSE UNCHANGED <<active, released>>
        /\ IF row[x.by] = "none" THEN Register(x.by, {}) ELSE UNCHANGED <<row, uncounted>>
  /\ Continue(t, NoRequest)
  /\ UNCHANGED <<session, revoked, key, shut, gone, kept>>
--------------------------------------------------------------------------------
(* Mutant: a device that was turned out connects all the same.             *)
AdmitAny(d) == TRUE
Admitted(d) == row[d] # "inactive"

(* ServeHTTP of /ws: of the token only the signature and the time count.   *)
Handshake(t, k) ==
  /\ k \in Issued
  /\ LET d == session[k]
     IN /\ Admitted(d)
        /\ Begin(t, [step |-> IF row[d] = "active" THEN "claim" ELSE "unknown", dev |-> d])
  /\ UNCHANGED <<rows, keys, history>>

RegisterUnknown(t) ==
  /\ doing[t].step = "unknown"
  /\ Register(doing[t].dev, {})
  /\ Continue(t, [doing[t] EXCEPT !.step = "claim"])
  /\ UNCHANGED <<session, revoked, keys, shut, gone, kept>>

(* The active device is replaced where there is none, or it was turned out. *)
Claim(t) ==
  /\ doing[t].step = "claim"
  /\ IF active = NoDevice \/ ~StillActive(active) THEN SetActive(doing[t].dev)
     ELSE UNCHANGED <<active, released>>
  /\ Continue(t, NoRequest)
  /\ UNCHANGED <<rows, key, history>>

(* Mutant: a device's first key needs no look at the account's.            *)
ClaimedByNobody == FALSE
Claimed == key # NoDevice /\ active # NoDevice

(* UpdatePublicKeyWithDevice: refused, or written as things were read.     *)
UpdatePublicKey(t, k) ==
  /\ Authorized(k) /\ ~Claimed
  /\ Begin(t, [step |-> "publish", dev |-> session[k], seen |-> <<key, active>>])
  /\ UNCHANGED <<rows, keys, history>>

PublishKey(t) ==
  /\ doing[t].step = "publish"
  /\ key' = doing[t].dev /\ SetActive(doing[t].dev)
  /\ Continue(t, NoRequest)
  /\ UNCHANGED <<rows, history>>

(* ResetPublicKey, after the password: the key, then all other sessions.   *)
ResetPublicKey(t, k) ==
  /\ Authorized(k)
  /\ key' = session[k] /\ SetActive(session[k])
  /\ Begin(t, [step |-> "reset", by |-> k])
  /\ UNCHANGED <<rows, history>>

RevokeAfterReset(t) ==
  /\ doing[t].step = "reset"
  /\ Revoke(Issued \ {doing[t].by}, Devices \ {session[doing[t].by]})
  /\ Continue(t, NoRequest)
  /\ UNCHANGED <<row, session, keys, gone, kept, uncounted>>

AccountNext == \E t \in Handlers :
  \/ \E d \in Devices : Login(t, d) \/ KickForLogin(t, d)
  \/ IssueToken(t) \/ RegisterDevice(t) \/ CheckDevice(t) \/ RetireOld(t)
  \/ ClearActiveDevice(t) \/ DeactivateRemoved(t) \/ SyncActiveDevice(t)
  \/ RegisterUnknown(t) \/ Claim(t) \/ PublishKey(t) \/ RevokeAfterReset(t)
  \/ \E k \in Issued :
       \/ Refresh(t, k) \/ Logout(t, k) \/ RevokeAllOtherSessions(t, k) \/ ChangePassword(t, k)
       \/ Handshake(t, k) \/ UpdatePublicKey(t, k) \/ ResetPublicKey(t, k)
       \/ \E j \in Issued : RevokeSession(t, k, j)
       \/ \E d \in Devices : RemoveDevice(t, k, d)

AccountSpec == AccountInit /\ [][AccountNext]_accountVars
--------------------------------------------------------------------------------
(* A device that was turned out, or whose sessions were revoked, gets back *)
(* in only by a new login: it holds no valid token but those an overriding *)
(* login left it, and is not registered again by a handshake.  Except for  *)
(* a login or a renewal of that device that had begun before: the new      *)
(* session is created after its checks (service.go:696).                   *)
EjectedStaysOut == /\ TokensOf(shut) \subseteq revoked \union kept
                   /\ gone \intersect ActiveDevices = {}

(* The account has no more active devices than the quota, but for those    *)
(* that were registered without being counted (a handshake or a removal    *)
(* by an unregistered device), beside another login, or for a kick of a    *)
(* device that was not active.                                             *)
DevicesWithinQuota == Cardinality(ActiveDevices) <= MaxActiveDevices + uncounted

(* A published key is replaced by another device's only by a reset, or     *)
(* after the active device has logged out; two updates that both read the  *)
(* account as unclaimed both go through (user_store.go:641).               *)
KeyStands ==
  [][key # NoDevice /\ key' # key
       => \E t \in Handlers :
            \/ doing[t] = NoRequest /\ doing'[t].step = "reset"
            \/ /\ doing[t].step = "publish" /\ doing'[t] = NoRequest
               /\ released \/ doing[t].seen # <<key, active>>]_accountVars
================================================================================
