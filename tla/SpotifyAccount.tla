--------------------------- MODULE SpotifyAccount ---------------------------
(***************************************************************************)
(* The Spotify account: the login flow over the loopback port (internal/   *)
(* spotify/auth.go), the tokens (token.go), the Secret Service they are    *)
(* stored in (secret.go), the client that sends requests with them         *)
(* (client.go), and the Service that answers the API (service.go and       *)
(* cmd/knobd/spotify.go).                                                  *)
(*                                                                         *)
(* Tokens are told apart by the account, that is the Client ID, they were  *)
(* granted to.  Whether Spotify still accepts one is its own choice at     *)
(* each request.                                                           *)
(***************************************************************************)
EXTENDS Integers

CONSTANTS Account,     \* Client IDs the configuration may hold
          Flow,        \* bound: a POST /spotify/login each
          MaxEdits,    \* bound: how often the configured Client ID changes
          MaxLogouts,  \* bound: POSTs of /spotify/logout
          MaxLists,    \* bound: GETs of /spotify/playlists and /spotify/devices
          MaxExpiries  \* bound: how often a cached access token comes near its end

VARIABLES clientID,   \* Config.Spotify.ClientID
          stored,     \* the accounts with a refresh token in the Secret Service
          cache,      \* TokenManager's account, accessToken and expiresAt
          op,         \* where each goroutine is in Client.do
          authorized, inProgress,   \* Service.status
          meKnown,    \* Client.meID is set
          session,    \* Auth.session: whose it is
          flow,       \* the login flows
          startup, listing, logout, \* where those callers are
          used        \* counters of the bounds

tokens == <<stored, cache>>
status == <<authorized, inProgress>>
logins == <<session, flow>>
callers == <<startup, listing, logout, meKnown>>
accountVars == <<clientID, tokens, op, status, logins, callers, used>>

NoAccount == "no account"
NoFlow == "no flow"

(* Who calls the client: a completed login, the check at the start, the    *)
(* API's lists, and the two goroutines of the spotify.* actions.           *)
Process == Flow \union {"startup", "lists", "runner", "writer"}

ASSUME AccountAssumption ==
    /\ NoAccount \notin Account
    /\ Flow \intersect {NoFlow, "startup", "lists", "runner", "writer"} = {}
    /\ MaxEdits \in Nat /\ MaxLogouts \in Nat /\ MaxLists \in Nat /\ MaxExpiries \in Nat

NoCache == [account |-> NoAccount, token |-> NoAccount, fresh |-> FALSE]
Idle == [at |-> "idle", account |-> NoAccount, token |-> NoAccount, retried |-> FALSE]
NewFlow == [login |-> "none", account |-> NoAccount, prior |-> NoFlow, listener |-> "none",
            server |-> "none", cancelled |-> FALSE, watcher |-> "none",
            callback |-> "none", granted |-> FALSE, once |-> FALSE, complete |-> "none"]

AccountInit ==
    /\ clientID \in Account
    /\ stored \in SUBSET Account /\ cache = NoCache
    /\ op = [p \in Process |-> Idle]
    /\ authorized = FALSE /\ inProgress = FALSE /\ meKnown = FALSE
    /\ session = NoFlow /\ flow = [f \in Flow |-> NewFlow]
    /\ startup = "begins" /\ listing = "idle"
    /\ logout = [at |-> "idle", account |-> NoAccount]
    /\ used = [edits |-> 0, logouts |-> 0, lists |-> 0, expiries |-> 0]

Uses(what, max) == used[what] < max /\ used' = [used EXCEPT ![what] = @ + 1]

-----------------------------------------------------------------------------
(* The Secret Service: what a call may answer, and leave behind.  Looking  *)
(* for the item, unlocking it and a prompt the user dismisses or leaves    *)
(* open can each fail; an item may still be written after a prompt timed   *)
(* out.                                                                    *)

Got(a) == {"error"} \union (IF a \in stored THEN {"token"} ELSE {"missing"})

AfterSet(a) ==
    {[ok |-> TRUE, stored |-> stored \union {a}]}
        \union {[ok |-> FALSE, stored |-> st] : st \in {stored, stored \union {a}}}

AfterDelete(a) == {stored, stored \ {a}}

-----------------------------------------------------------------------------
(* The access token *)

(* Mutant of CachedFor: whoever the cached token belongs to. *)
CachedForAnybody(a) == cache.token # NoAccount /\ cache.fresh

CachedFor(a) == cache.account = a /\ cache.token # NoAccount /\ cache.fresh

Granted(a) == [account |-> a, token |-> a, fresh |-> TRUE]

Cleared(a) ==
    IF cache.account = a THEN [cache EXCEPT !.token = NoAccount, !.fresh = FALSE] ELSE cache

Invalidated(a) == IF cache.account = a THEN [cache EXCEPT !.token = NoAccount] ELSE cache

Goes(p, at) == op' = [op EXCEPT ![p].at = at]

GoesOn(p, at) == Goes(p, at) /\ UNCHANGED <<clientID, status, logins, callers, used>>

AccessToken(p) ==
    /\ op[p].at = "asks"
    /\ IF CachedFor(op[p].account)
       THEN op' = [op EXCEPT ![p].at = "sends", ![p].token = cache.token]
       ELSE Goes(p, "reads")
    /\ UNCHANGED <<clientID, tokens, status, logins, callers, used>>

ReadStored(p) ==
    /\ op[p].at = "reads"
    /\ \E answer \in Got(op[p].account) :
           GoesOn(p, IF answer = "token" THEN "refreshes" ELSE "failed")
    /\ UNCHANGED tokens

(* An error, invalid_grant, a token with a rotated refresh token, or one   *)
(* without.                                                                *)
RefreshTokens(p) ==
    /\ op[p].at = "refreshes"
    /\ \E next \in {"failed", "drops", "persists", "caches"} : GoesOn(p, next)
    /\ UNCHANGED tokens

DropRevoked(p) ==
    /\ op[p].at = "drops"
    /\ stored' \in AfterDelete(op[p].account)
    /\ GoesOn(p, "clears") /\ UNCHANGED cache

ClearRevoked(p) ==
    /\ op[p].at = "clears"
    /\ cache' = Cleared(op[p].account)
    /\ GoesOn(p, "failed") /\ UNCHANGED stored

PersistRotated(p) ==
    /\ op[p].at = "persists"
    /\ \E after \in AfterSet(op[p].account) : stored' = after.stored
    /\ GoesOn(p, "caches") /\ UNCHANGED cache

CacheRefreshed(p) ==
    /\ op[p].at = "caches"
    /\ cache' = Granted(op[p].account)
    /\ op' = [op EXCEPT ![p].at = "sends", ![p].token = op[p].account]
    /\ UNCHANGED <<clientID, stored, status, logins, callers, used>>

(* Less than tokenSkew is left of the cached token. *)
TokenExpires ==
    /\ cache.fresh /\ cache' = [cache EXCEPT !.fresh = FALSE]
    /\ Uses("expiries", MaxExpiries)
    /\ UNCHANGED <<clientID, stored, op, status, logins, callers>>

-----------------------------------------------------------------------------
(* A request *)

Calls(p) ==
    op' = [op EXCEPT ![p] = IF clientID = NoAccount THEN [Idle EXCEPT !.at = "failed"]
                            ELSE [Idle EXCEPT !.at = "asks", !.account = clientID]]

Answered(p) == op[p].at \in {"ok", "failed"}

Succeeded(p) == op[p].at = "ok"

Done(p) == op' = [op EXCEPT ![p] = Idle]

Respond(p) ==
    /\ op[p].at = "sends"
    /\ \E result \in {"ok", "failed"} : GoesOn(p, result)
    /\ UNCHANGED tokens

(* A 401: once more, with a token that has just been refreshed. *)
Unauthorized(p) ==
    /\ op[p].at = "sends" /\ ~op[p].retried
    /\ cache' = Invalidated(op[p].account)
    /\ op' = [op EXCEPT ![p].at = "asks", ![p].token = NoAccount, ![p].retried = TRUE]
    /\ UNCHANGED <<clientID, stored, status, logins, callers, used>>

Step(p) ==
    \/ AccessToken(p) \/ ReadStored(p) \/ RefreshTokens(p) \/ DropRevoked(p)
    \/ ClearRevoked(p) \/ PersistRotated(p) \/ CacheRefreshed(p)
    \/ Respond(p) \/ Unauthorized(p)

-----------------------------------------------------------------------------
(* The start, the lists and the logout *)

ValidateStoredToken ==
    /\ startup = "begins"
    /\ \E answer \in Got(clientID) :
           IF answer = "token" THEN startup' = "validates" /\ Calls("startup")
           ELSE startup' = "done" /\ UNCHANGED op
    /\ UNCHANGED <<clientID, tokens, status, logins, listing, logout, meKnown, used>>

Validated ==
    /\ startup = "validates" /\ Answered("startup")
    /\ authorized' = Succeeded("startup")
    /\ startup' = "done" /\ Done("startup")
    /\ UNCHANGED <<clientID, tokens, inProgress, logins, listing, logout, meKnown, used>>

MayList == authorized

GetDevices ==
    /\ listing = "idle" /\ MayList /\ Uses("lists", MaxLists)
    /\ listing' = "devices" /\ Calls("lists")
    /\ UNCHANGED <<clientID, tokens, status, logins, startup, logout, meKnown>>

(* Which playlists may be edited depends on the user's id, which is asked  *)
(* for once.                                                               *)
GetPlaylists ==
    /\ listing = "idle" /\ MayList /\ Uses("lists", MaxLists)
    /\ listing' = IF meKnown THEN "playlists" ELSE "asks who"
    /\ Calls("lists")
    /\ UNCHANGED <<clientID, tokens, status, logins, startup, logout, meKnown>>

CurrentUserID ==
    /\ listing = "asks who" /\ Answered("lists")
    /\ IF Succeeded("lists")
       THEN meKnown' = TRUE /\ listing' = "playlists" /\ Calls("lists")
       ELSE listing' = "idle" /\ Done("lists") /\ UNCHANGED meKnown
    /\ UNCHANGED <<clientID, tokens, status, logins, startup, logout, used>>

(* The answer has come, and with it the next page of the playlists.        *)
Listed ==
    /\ listing \in {"devices", "playlists"} /\ Answered("lists")
    /\ \/ listing' = "idle" /\ Done("lists") /\ UNCHANGED used
       \/ /\ listing = "playlists" /\ Succeeded("lists") /\ Uses("lists", MaxLists)
          /\ Calls("lists") /\ UNCHANGED listing
    /\ UNCHANGED <<clientID, tokens, status, logins, startup, logout, meKnown>>

(* Service.Logout, and TokenManager.Logout up to the Secret Service. *)
Logout ==
    /\ logout.at = "idle" /\ clientID # NoAccount /\ Uses("logouts", MaxLogouts)
    /\ cache' = Cleared(clientID)
    /\ logout' = [at |-> "deletes", account |-> clientID]
    /\ UNCHANGED <<clientID, stored, op, status, logins, startup, listing, meKnown>>

LogoutDeletes ==
    /\ logout.at = "deletes"
    /\ stored' \in AfterDelete(logout.account)
    /\ logout' = [logout EXCEPT !.at = "resets"]
    /\ UNCHANGED <<clientID, cache, op, status, logins, startup, listing, meKnown, used>>

LogoutResets ==
    /\ logout.at = "resets"
    /\ authorized' = FALSE /\ inProgress' = FALSE
    /\ logout' = [at |-> "idle", account |-> NoAccount]
    /\ UNCHANGED <<clientID, tokens, op, logins, startup, listing, meKnown, used>>

(* Somebody edits the configuration. *)
EditClientID ==
    /\ Uses("edits", MaxEdits)
    /\ clientID' \in (Account \union {NoAccount}) \ {clientID}
    /\ UNCHANGED <<tokens, op, status, logins, callers>>

-----------------------------------------------------------------------------
(* A login.  StartLogin runs in the request's goroutine, between Login and *)
(* LoginStarted; the server, the watcher of the login's context and the    *)
(* handler of the callback run in their own.                               *)

Sets(f, new) == flow' = [flow EXCEPT ![f] = new]

LoginOnly(f, new) ==
    Sets(f, new) /\ UNCHANGED <<clientID, tokens, op, status, session, callers, used>>

StartLogin(f, a) ==
    /\ Sets(f, [flow[f] EXCEPT !.login = "cancels", !.account = a, !.prior = session])
    /\ session' = NoFlow

Login(f) ==
    /\ flow[f].login = "none" /\ clientID # NoAccount
    /\ StartLogin(f, clientID)
    /\ UNCHANGED <<clientID, tokens, op, status, callers, used>>

(* Server.Close and Server.Shutdown close the listener of a server that is *)
(* serving; one that is yet to serve closes it then.                       *)
Shut(fl) ==
    [fl EXCEPT !.server = "shut",
               !.listener = IF fl.server = "serves" THEN "closed" ELSE fl.listener]

CancelPrior(f) ==
    /\ flow[f].login = "cancels"
    /\ LET prior == flow[f].prior
           closed == IF prior = NoFlow THEN flow
                     ELSE [flow EXCEPT ![prior] = [Shut(@) EXCEPT !.cancelled = TRUE]]
       IN  flow' = [closed EXCEPT ![f].login = "binds", ![f].prior = NoFlow]
    /\ UNCHANGED <<clientID, tokens, op, status, session, callers, used>>

PortFree == \A f \in Flow : flow[f].listener # "open"

(* The port may still be in use after a second, by another login or by     *)
(* another process.                                                        *)
Bind(f) ==
    /\ flow[f].login = "binds"
    /\ \/ PortFree
          /\ LoginOnly(f, [flow[f] EXCEPT !.login = "registers", !.listener = "open"])
       \/ LoginOnly(f, [flow[f] EXCEPT !.login = "fails"])

Register(f) ==
    /\ flow[f].login = "registers"
    /\ session' = f
    /\ Sets(f, [flow[f] EXCEPT !.login = "returns", !.server = "begins", !.watcher = "waits"])
    /\ UNCHANGED <<clientID, tokens, op, status, callers, used>>

LoginStarted(f) ==
    /\ flow[f].login = "returns"
    /\ Sets(f, [flow[f] EXCEPT !.login = "started"]) /\ inProgress' = TRUE
    /\ UNCHANGED <<clientID, tokens, op, authorized, session, callers, used>>

Serve(f) ==
    /\ flow[f].listener = "open"
    /\ \/ flow[f].server = "begins" /\ LoginOnly(f, [flow[f] EXCEPT !.server = "serves"])
       \/ flow[f].server = "shut" /\ LoginOnly(f, [flow[f] EXCEPT !.listener = "closed"])

LoginTimesOut(f) ==
    /\ flow[f].watcher = "waits" /\ ~flow[f].cancelled
    /\ LoginOnly(f, [flow[f] EXCEPT !.cancelled = TRUE])

Watch(f) ==
    /\ flow[f].watcher = "waits" /\ flow[f].cancelled
    /\ LoginOnly(f, [flow[f] EXCEPT !.watcher = "finishes"])

Shutdown(f) ==
    /\ flow[f].watcher # "waits" /\ flow[f].server \in {"begins", "serves"}
    /\ LoginOnly(f, Shut(flow[f]))

(* The browser comes back, with a code once somebody has seen the URL.     *)
Callback(f) ==
    /\ flow[f].server = "serves" /\ flow[f].callback = "none"
    /\ \/ LoginOnly(f, [flow[f] EXCEPT !.callback = "finishes"])
       \/ flow[f].login = "started"
          /\ LoginOnly(f, [flow[f] EXCEPT !.callback = "exchanges"])

ExchangeCode(f) ==
    /\ flow[f].callback = "exchanges"
    /\ \E granted \in BOOLEAN :
           LoginOnly(f, [flow[f] EXCEPT !.callback = "finishes", !.granted = granted])

(* Mutant of EndedSession: whoever's session it is. *)
EndedSessionOfAny(f) == NoFlow

EndedSession(f) == IF session = f THEN NoFlow ELSE session

(* The first of the callback and the watcher to get here decides how the   *)
(* login has ended: tokens that come second are lost.                      *)
Finish(f) ==
    /\ ~flow[f].once
    /\ session' = EndedSession(f)
    /\ LET Ends(granted) == [flow[f] EXCEPT !.once = TRUE, !.cancelled = TRUE,
                                            !.granted = granted, !.complete = "ends"]
       IN  \/ flow[f].callback = "finishes" /\ Sets(f, Ends(flow[f].granted))
           \/ flow[f].watcher = "finishes" /\ Sets(f, Ends(FALSE))
    /\ UNCHANGED <<clientID, tokens, op, status, callers, used>>

LoginEnds(f) ==
    /\ flow[f].complete = "ends"
    /\ inProgress' = FALSE
    /\ Sets(f, [flow[f] EXCEPT !.complete = IF flow[f].granted THEN "stores" ELSE "done"])
    /\ UNCHANGED <<clientID, tokens, op, authorized, session, callers, used>>

(* SetTokens, whose two halves are apart. *)
StoreTokens(f) ==
    /\ flow[f].complete = "stores"
    /\ \E after \in AfterSet(flow[f].account) :
           /\ stored' = after.stored
           /\ Sets(f, [flow[f] EXCEPT !.complete = IF after.ok THEN "caches" ELSE "done"])
    /\ UNCHANGED <<clientID, cache, op, status, session, callers, used>>

CacheTokens(f) ==
    /\ flow[f].complete = "caches"
    /\ cache' = Granted(flow[f].account)
    /\ Sets(f, [flow[f] EXCEPT !.complete = "asks who"]) /\ Calls(f)
    /\ UNCHANGED <<clientID, stored, status, session, callers, used>>

LoginConfirmed(f) ==
    /\ flow[f].complete = "asks who" /\ Answered(f)
    /\ authorized' = TRUE
    /\ Sets(f, [flow[f] EXCEPT !.complete = "done"]) /\ Done(f)
    /\ UNCHANGED <<clientID, tokens, inProgress, session, callers, used>>

LoginStep(f) ==
    \/ Login(f) \/ CancelPrior(f) \/ Bind(f) \/ Register(f) \/ LoginStarted(f)
    \/ Serve(f) \/ LoginTimesOut(f) \/ Watch(f) \/ Shutdown(f)
    \/ Callback(f) \/ ExchangeCode(f) \/ Finish(f)
    \/ LoginEnds(f) \/ StoreTokens(f) \/ CacheTokens(f) \/ LoginConfirmed(f)

AccountNext ==
    \/ \E p \in Process : Step(p)
    \/ \E f \in Flow : LoginStep(f)
    \/ ValidateStoredToken \/ Validated
    \/ GetDevices \/ GetPlaylists \/ CurrentUserID \/ Listed
    \/ Logout \/ LogoutDeletes \/ LogoutResets
    \/ TokenExpires \/ EditClientID

-----------------------------------------------------------------------------
(* Properties *)

(* A request is sent with a token granted to the account it is made for,   *)
(* whatever becomes of the Client ID, the cached token and other requests  *)
(* on the way: "a stale token under the old identity is never reused"      *)
(* (token.go).                                                             *)
UsesOwnToken ==
    \A p \in Process : op[p].at = "sends" => op[p].token = op[p].account

Registering(f) == flow[f].login = "registers"

Taken(f) == \E g \in Flow : flow[g].login = "cancels" /\ flow[g].prior = f

(* Starting a login "frees LoopbackPort for the new listener" (auth.go):   *)
(* an open listener is one the next login will close, or one that is about *)
(* to be closed.                                                           *)
PortComesFree ==
    \A f \in Flow :
        flow[f].listener = "open" =>
            Registering(f) \/ session = f \/ Taken(f) \/ flow[f].cancelled
=============================================================================
