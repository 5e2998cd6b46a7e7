----------------------------- MODULE Music_proofs -----------------------------
(***************************************************************************)
(* What holds of the Spotify account (SpotifyJobs) for any set of Client   *)
(* IDs, logins, jobs and bounds, and of the media players (MediaTracker)   *)
(* for any number of them: that the tracker knows them (PlayersAreKnown)   *)
(* and ranks them as they started (MostRecentAlwaysWins), and that its     *)
(* ranking always selects one (OneIsSelected).                             *)
(***************************************************************************)
EXTENDS SpotifyJobs, MediaTracker, SequenceTheorems, WellFoundedInduction, TLAPS

AnyAccount == Account \union {NoAccount}

(* Where a goroutine may be in a request, with no token in its hands. *)
Before == {"idle", "asks", "reads", "refreshes", "drops", "clears", "persists", "caches",
           "ok", "failed"}

Op == [at : Before \union {"sends"},
       account : AnyAccount, token : AnyAccount, retried : BOOLEAN]

Cached == [account : AnyAccount, token : AnyAccount, fresh : BOOLEAN]

LoginFlow ==
    [login : {"none", "cancels", "binds", "fails", "registers", "returns", "started"},
     account : AnyAccount, prior : Flow \union {NoFlow},
     listener : {"none", "open", "closed"}, server : {"none", "begins", "serves", "shut"},
     cancelled : BOOLEAN, watcher : {"none", "waits", "finishes"},
     callback : {"none", "exchanges", "finishes"}, granted : BOOLEAN, once : BOOLEAN,
     complete : {"none", "ends", "stores", "caches", "asks who", "done"}]

LoginsTyped ==
    /\ clientID \in AnyAccount
    /\ flow \in [Flow -> LoginFlow]
    /\ session \in Flow \union {NoFlow}

(* What the account's actions read to say for whom a request and a token   *)
(* are.                                                                    *)
TokensTyped ==
    /\ cache \in Cached
    /\ op \in [Process -> Op]

(* The cached token is that of the cached account, or none. *)
CachesOwnToken == cache.token \in {NoAccount, cache.account}

TokenInv == TokensTyped /\ CachesOwnToken /\ UsesOwnToken

-----------------------------------------------------------------------------
Unbound == {"none", "cancels", "binds", "fails"}
Registered == {"returns", "started"}

(* Where StartLogin is tells what there is of its listener and server.     *)
ListenersFollow ==
    \A f \in Flow :
        /\ flow[f].login \in Unbound => flow[f].listener = "none"
        /\ flow[f].login = "registers" => flow[f].listener = "open"
        /\ flow[f].login \notin Registered => flow[f].server = "none"

(* Only a login that is registered can be a session, or be taken as one.   *)
SessionsRegistered ==
    /\ session # NoFlow => flow[session].login \in Registered
    /\ \A f \in Flow : flow[f].prior # NoFlow => flow[flow[f].prior].login \in Registered

(* There is one port. *)
OneListener ==
    \A f, g \in Flow : flow[f].listener = "open" /\ flow[g].listener = "open" => f = g

PortInv == LoginsTyped /\ ListenersFollow /\ SessionsRegistered /\ OneListener /\ PortComesFree

-----------------------------------------------------------------------------
(* The login flows *)

(* A step that gives one flow new fields and leaves the others alone. *)
LEMMA SetsOne ==
    ASSUME LoginsTyped, NEW f \in Flow, NEW new \in LoginFlow, Sets(f, new)
    PROVE  /\ flow' \in [Flow -> LoginFlow]
           /\ flow'[f] = new
           /\ \A g \in Flow \ {f} : flow'[g] = flow[g]
  BY DEF LoginsTyped, Sets

(* New fields that open nothing and take no cancellation back. *)
Follows(f, new) ==
    /\ new \in LoginFlow
    /\ new.prior = flow[f].prior
    /\ flow[f].login \in Registered => new.login \in Registered
    /\ flow[f].login \notin Registered => new.login = flow[f].login
    /\ new.listener \in {flow[f].listener, "closed"}
    /\ new.listener # flow[f].listener \/ new.server # flow[f].server
           => flow[f].login \in Registered
    /\ flow[f].cancelled => new.cancelled

(* A step with such fields that leaves the session alone, or ends it with  *)
(* the login.                                                              *)
LEMMA FlowStep ==
    ASSUME PortInv, NEW f \in Flow, NEW new, Follows(f, new), Sets(f, new),
           clientID' \in AnyAccount,
           session' = session \/ (session' = NoFlow /\ session = f /\ new.cancelled)
    PROVE  PortInv'
  <1> USE DEF Follows
  <1>1. /\ flow' \in [Flow -> LoginFlow]
        /\ flow'[f] = new
        /\ \A g \in Flow \ {f} : flow'[g] = flow[g]
    BY SetsOne DEF PortInv
  <1>2. LoginsTyped'
    BY <1>1 DEF PortInv, LoginsTyped
  <1>3. \A g \in Flow : flow[g].login \in Registered => flow'[g].login \in Registered
    BY <1>1
  <1>4. ListenersFollow'
    BY <1>1 DEF PortInv, ListenersFollow, Unbound, Registered
  <1>5. SessionsRegistered'
    <2>1. \A g \in Flow : flow'[g].prior = flow[g].prior
      BY <1>1
    <2>2. \A g \in Flow : flow[g].prior \in Flow \union {NoFlow}
      BY DEF PortInv, LoginsTyped, LoginFlow
    <2>3. session \in Flow \union {NoFlow}
      BY DEF PortInv, LoginsTyped
    <2> QED
      BY <1>3, <2>1, <2>2, <2>3 DEF PortInv, SessionsRegistered
  <1>6. \A g \in Flow : flow'[g].listener = "open" => flow[g].listener = "open"
    BY <1>1
  <1>7. OneListener'
    BY <1>6 DEF PortInv, OneListener
  <1>8. PortComesFree'
    <2> SUFFICES ASSUME NEW g \in Flow, flow'[g].listener = "open"
                 PROVE  (Registering(g) \/ session = g \/ Taken(g) \/ flow[g].cancelled)'
      BY DEF PortComesFree
    <2>1. Registering(g) \/ session = g \/ Taken(g) \/ flow[g].cancelled
      BY <1>6 DEF PortInv, PortComesFree
    <2>2. CASE Registering(g)
      BY <2>2, <1>1 DEF Registering, Registered
    <2>3. CASE session = g
      BY <2>3, <1>1, AccountAssumption
    <2>4. CASE Taken(g)
      BY <2>4, <1>1 DEF Taken, Registered
    <2>5. CASE flow[g].cancelled
      BY <2>5, <1>1
    <2> QED
      BY <2>1, <2>2, <2>3, <2>4, <2>5
  <1> QED
    BY <1>2, <1>4, <1>5, <1>7, <1>8 DEF PortInv

(* The four steps that take a session, close its server, open the port and *)
(* register it.                                                            *)
LEMMA LoginPort ==
    ASSUME PortInv, NEW f \in Flow, Login(f)
    PROVE  PortInv'
  <1> DEFINE new == [flow[f] EXCEPT !.login = "cancels", !.account = clientID, !.prior = session]
  <1>1. /\ Sets(f, new) /\ session' = NoFlow /\ clientID' = clientID
        /\ flow[f].login = "none"
    BY DEF Login, StartLogin
  <1>2. flow[f] \in LoginFlow /\ session \in Flow \union {NoFlow} /\ clientID \in AnyAccount
    BY DEF PortInv, LoginsTyped
  <1>3. /\ new \in LoginFlow
        /\ new.login = "cancels" /\ new.prior = session /\ new.listener = flow[f].listener
        /\ new.server = flow[f].server /\ new.cancelled = flow[f].cancelled
    BY <1>2 DEF LoginFlow
  <1> HIDE DEF new
  <1>4. /\ flow' \in [Flow -> LoginFlow]
        /\ flow'[f] = new
        /\ \A g \in Flow \ {f} : flow'[g] = flow[g]
    BY <1>1, <1>3, SetsOne DEF PortInv
  <1>5. LoginsTyped'
    BY <1>1, <1>2, <1>4 DEF LoginsTyped
  <1>6. ListenersFollow'
    BY <1>1, <1>3, <1>4 DEF PortInv, ListenersFollow, Unbound, Registered
  <1>7. SessionsRegistered'
    <2>1. \A g \in Flow : flow[g].login \in Registered => flow'[g].login \in Registered
      BY <1>1, <1>4 DEF Registered
    <2>2. \A g \in Flow : flow[g].prior \in Flow \union {NoFlow}
      BY DEF PortInv, LoginsTyped, LoginFlow
    <2>3. ASSUME NEW g \in Flow, flow'[g].prior # NoFlow
          PROVE  flow'[flow'[g].prior].login \in Registered
      BY <1>2, <1>3, <1>4, <2>1, <2>2, <2>3 DEF PortInv, SessionsRegistered
    <2> QED
      BY <1>1, <2>3 DEF SessionsRegistered
  <1>8. OneListener'
    BY <1>3, <1>4 DEF PortInv, OneListener
  <1>9. PortComesFree'
    <2> SUFFICES ASSUME NEW g \in Flow, flow'[g].listener = "open"
                 PROVE  (Registering(g) \/ session = g \/ Taken(g) \/ flow[g].cancelled)'
      BY DEF PortComesFree
    <2>1. g # f
      BY <1>1, <1>3, <1>4 DEF PortInv, ListenersFollow, Unbound
    <2>2. Registering(g) \/ session = g \/ Taken(g) \/ flow[g].cancelled
      BY <1>4, <2>1 DEF PortInv, PortComesFree
    <2>3. CASE session = g
      BY <2>3, <1>3, <1>4 DEF Taken
    <2>4. CASE Taken(g)
      BY <2>4, <1>1, <1>4 DEF Taken
    <2> QED
      BY <2>1, <2>2, <2>3, <2>4, <1>4 DEF Registering
  <1> QED
    BY <1>5, <1>6, <1>7, <1>8, <1>9 DEF PortInv

LEMMA CancelPort ==
    ASSUME PortInv, NEW f \in Flow, CancelPrior(f)
    PROVE  PortInv'
  <1> DEFINE p == flow[f].prior
             cut == [Shut(flow[p]) EXCEPT !.cancelled = TRUE]
             new == [flow[f] EXCEPT !.login = "binds", !.prior = NoFlow]
  <1>1. /\ flow[f].login = "cancels" /\ session' = session /\ clientID' = clientID
        /\ flow[f] \in LoginFlow /\ p \in Flow \union {NoFlow}
        /\ flow \in [Flow -> LoginFlow]
    BY DEF CancelPrior, PortInv, LoginsTyped, LoginFlow
  <1>2. p # NoFlow => p \in Flow /\ flow[p].login \in Registered /\ p # f
    BY <1>1 DEF PortInv, SessionsRegistered, Registered
  <1>3. /\ new \in LoginFlow
        /\ new.login = "binds" /\ new.prior = NoFlow /\ new.listener = flow[f].listener
        /\ new.server = flow[f].server /\ new.cancelled = flow[f].cancelled
    BY <1>1 DEF LoginFlow
  <1>4. ASSUME p # NoFlow
        PROVE  /\ cut \in LoginFlow
               /\ cut.login = flow[p].login /\ cut.prior = flow[p].prior /\ cut.cancelled
               /\ cut.listener = flow[p].listener \/ cut.listener = "closed"
    <2>1. flow[p] \in LoginFlow
      BY <1>1, <1>2, <1>4
    <2> QED
      BY <2>1 DEF LoginFlow, Shut
  <1>5. flow' = [(IF p = NoFlow THEN flow ELSE [flow EXCEPT ![p] = cut]) EXCEPT ![f] = new]
    <2>1. CASE p = NoFlow
      BY <2>1, <1>1 DEF CancelPrior
    <2>2. CASE p # NoFlow
      BY <2>2, <1>1, <1>2 DEF CancelPrior
    <2> QED
      BY <2>1, <2>2
  <1>6. /\ flow' \in [Flow -> LoginFlow]
        /\ flow'[f] = new
        /\ p # NoFlow => flow'[p] = cut
        /\ \A g \in Flow \ {f, p} : flow'[g] = flow[g]
    BY <1>1, <1>2, <1>3, <1>4, <1>5
  <1> HIDE DEF new, cut
  <1>7. \A g \in Flow : /\ flow'[g].listener = "open" => flow[g].listener = "open"
                        /\ flow[g].login \in Registered => flow'[g].login \in Registered
                        /\ flow'[g].prior \in {flow[g].prior, NoFlow}
                        /\ flow[g].cancelled => flow'[g].cancelled
    <2> SUFFICES ASSUME NEW g \in Flow
                 PROVE  /\ flow'[g].listener = "open" => flow[g].listener = "open"
                        /\ flow[g].login \in Registered => flow'[g].login \in Registered
                        /\ flow'[g].prior \in {flow[g].prior, NoFlow}
                        /\ flow[g].cancelled => flow'[g].cancelled
      OBVIOUS
    <2>1. CASE g = f
      BY <2>1, <1>1, <1>3, <1>6 DEF Registered
    <2>2. CASE g = p /\ g # f
      <3>1. p # NoFlow
        BY <2>2, AccountAssumption
      <3> QED
        BY <2>2, <3>1, <1>4, <1>6
    <2>3. CASE g # p /\ g # f
      BY <2>3, <1>6
    <2> QED
      BY <2>1, <2>2, <2>3
  <1>8. LoginsTyped'
    BY <1>1, <1>6 DEF PortInv, LoginsTyped
  <1>9. ListenersFollow'
    <2> SUFFICES ASSUME NEW g \in Flow
                 PROVE  /\ flow'[g].login \in Unbound => flow'[g].listener = "none"
                        /\ flow'[g].login = "registers" => flow'[g].listener = "open"
                        /\ flow'[g].login \notin Registered => flow'[g].server = "none"
      BY DEF ListenersFollow
    <2>1. CASE g = f
      BY <2>1, <1>1, <1>3, <1>6 DEF PortInv, ListenersFollow, Unbound, Registered
    <2>2. CASE g = p /\ g # f
      <3>1. p # NoFlow
        BY <2>2, AccountAssumption
      <3> QED
        BY <2>2, <3>1, <1>2, <1>4, <1>6 DEF Unbound, Registered
    <2>3. CASE g # p /\ g # f
      BY <2>3, <1>6 DEF PortInv, ListenersFollow
    <2> QED
      BY <2>1, <2>2, <2>3
  <1>10. SessionsRegistered'
    <2>1. \A g \in Flow : flow[g].prior \in Flow \union {NoFlow}
      BY <1>1 DEF LoginFlow
    <2>2. session \in Flow \union {NoFlow}
      BY DEF PortInv, LoginsTyped
    <2> QED
      BY <1>1, <1>7, <2>1, <2>2 DEF PortInv, SessionsRegistered
  <1>11. OneListener'
    BY <1>7 DEF PortInv, OneListener
  <1>12. PortComesFree'
    <2> SUFFICES ASSUME NEW g \in Flow, flow'[g].listener = "open"
                 PROVE  (Registering(g) \/ session = g \/ Taken(g) \/ flow[g].cancelled)'
      BY DEF PortComesFree
    <2>1. g # f
      BY <1>1, <1>7 DEF PortInv, ListenersFollow, Unbound
    <2>2. CASE g = p
      BY <2>2, <1>2, <1>4, <1>6, AccountAssumption
    <2>3. CASE g # p
      <3>1. flow'[g] = flow[g]
        BY <2>1, <2>3, <1>6
      <3>2. Registering(g) \/ session = g \/ Taken(g) \/ flow[g].cancelled
        BY <1>7 DEF PortInv, PortComesFree
      <3>3. ASSUME Taken(g) PROVE Taken(g)'
        <4>1. PICK h \in Flow : flow[h].login = "cancels" /\ flow[h].prior = g
          BY <3>3 DEF Taken
        <4>2. flow'[h] = flow[h]
          <5>1. h # f
            BY <4>1, <2>3
          <5>2. h = p => p # NoFlow
            BY AccountAssumption
          <5>3. h # p
            BY <4>1, <5>2, <1>2 DEF Registered
          <5> QED
            BY <5>1, <5>3, <1>6
        <4> QED
          BY <4>1, <4>2 DEF Taken
      <3> QED
        BY <3>1, <3>2, <3>3, <1>1 DEF Registering
    <2> QED
      BY <2>2, <2>3
  <1> QED
    BY <1>8, <1>9, <1>10, <1>11, <1>12 DEF PortInv

LEMMA BindPort ==
    ASSUME PortInv, NEW f \in Flow, Bind(f)
    PROVE  PortInv'
  <1> DEFINE Binds(new) == /\ new \in LoginFlow /\ new.prior = flow[f].prior
                           /\ new.server = flow[f].server /\ new.cancelled = flow[f].cancelled
                           /\ Sets(f, new)
                           /\ \/ PortFree /\ new.login = "registers" /\ new.listener = "open"
                              \/ new.login = "fails" /\ new.listener = flow[f].listener
  <1>1. /\ flow[f].login = "binds" /\ session' = session /\ clientID' = clientID
        /\ flow[f] \in LoginFlow
    BY DEF Bind, LoginOnly, PortInv, LoginsTyped
  <1>2. PICK new : Binds(new)
    <2>1. Binds([flow[f] EXCEPT !.login = "registers", !.listener = "open"])
          \/ Binds([flow[f] EXCEPT !.login = "fails"])
      BY <1>1 DEF Bind, LoginOnly, LoginFlow
    <2> QED
      BY <2>1
  <1>3. /\ flow' \in [Flow -> LoginFlow]
        /\ flow'[f] = new
        /\ \A g \in Flow \ {f} : flow'[g] = flow[g]
    BY <1>2, SetsOne DEF PortInv
  <1>4. LoginsTyped'
    BY <1>1, <1>3 DEF PortInv, LoginsTyped
  <1>5. ListenersFollow'
    BY <1>1, <1>2, <1>3 DEF PortInv, ListenersFollow, Unbound, Registered
  <1>6. SessionsRegistered'
    <2>1. \A g \in Flow : /\ flow[g].prior \in Flow \union {NoFlow}
                          /\ flow'[g].prior = flow[g].prior
                          /\ flow[g].login \in Registered => flow'[g].login \in Registered
      BY <1>1, <1>2, <1>3 DEF PortInv, LoginsTyped, LoginFlow, Registered
    <2>2. session \in Flow \union {NoFlow}
      BY DEF PortInv, LoginsTyped
    <2> QED
      BY <1>1, <2>1, <2>2 DEF PortInv, SessionsRegistered
  <1>7. OneListener'
    BY <1>2, <1>3 DEF PortInv, OneListener, PortFree
  <1>8. PortComesFree'
    <2> SUFFICES ASSUME NEW g \in Flow, flow'[g].listener = "open"
                 PROVE  (Registering(g) \/ session = g \/ Taken(g) \/ flow[g].cancelled)'
      BY DEF PortComesFree
    <2>1. CASE g = f
      BY <2>1, <1>1, <1>2, <1>3 DEF PortInv, ListenersFollow, Unbound, Registering
    <2>2. CASE g # f
      <3>1. Registering(g) \/ session = g \/ Taken(g) \/ flow[g].cancelled
        BY <2>2, <1>3 DEF PortInv, PortComesFree
      <3>2. Taken(g) => Taken(g)'
        BY <1>1, <1>3 DEF Taken
      <3> QED
        BY <2>2, <3>1, <3>2, <1>1, <1>3 DEF Registering
    <2> QED
      BY <2>1, <2>2
  <1> QED
    BY <1>4, <1>5, <1>6, <1>7, <1>8 DEF PortInv

LEMMA RegisterPort ==
    ASSUME PortInv, NEW f \in Flow, Register(f)
    PROVE  PortInv'
  <1> DEFINE new == [flow[f] EXCEPT !.login = "returns", !.server = "begins",
                                    !.watcher = "waits"]
  <1>1. /\ flow[f].login = "registers" /\ session' = f /\ clientID' = clientID
        /\ Sets(f, new) /\ flow[f] \in LoginFlow
    BY DEF Register, PortInv, LoginsTyped
  <1>2. /\ new \in LoginFlow /\ new.login = "returns" /\ new.prior = flow[f].prior
        /\ new.listener = flow[f].listener
    BY <1>1 DEF LoginFlow
  <1> HIDE DEF new
  <1>3. /\ flow' \in [Flow -> LoginFlow]
        /\ flow'[f] = new
        /\ \A g \in Flow \ {f} : flow'[g] = flow[g]
    BY <1>1, <1>2, SetsOne DEF PortInv
  <1>4. LoginsTyped'
    BY <1>1, <1>3 DEF PortInv, LoginsTyped
  <1>5. ListenersFollow'
    BY <1>1, <1>2, <1>3 DEF PortInv, ListenersFollow, Unbound, Registered
  <1>6. SessionsRegistered'
    <2>1. \A g \in Flow : /\ flow[g].prior \in Flow \union {NoFlow}
                          /\ flow'[g].prior = flow[g].prior
                          /\ flow[g].login \in Registered => flow'[g].login \in Registered
      BY <1>2, <1>3 DEF PortInv, LoginsTyped, LoginFlow, Registered
    <2>2. flow'[f].login \in Registered
      BY <1>2, <1>3 DEF Registered
    <2> QED
      BY <1>1, <2>1, <2>2 DEF PortInv, SessionsRegistered
  <1>7. OneListener'
    BY <1>2, <1>3 DEF PortInv, OneListener
  <1>8. PortComesFree'
    <2> SUFFICES ASSUME NEW g \in Flow, flow'[g].listener = "open"
                 PROVE  session' = g
      BY DEF PortComesFree
    <2>1. flow[f].listener = "open"
      BY <1>1 DEF PortInv, ListenersFollow
    <2>2. flow[g].listener = "open"
      BY <2>1, <1>3
    <2> QED
      BY <2>1, <2>2, <1>1 DEF PortInv, OneListener
  <1> QED
    BY <1>4, <1>5, <1>6, <1>7, <1>8 DEF PortInv

LEMMA LoginStepPort ==
    ASSUME PortInv, NEW f \in Flow, LoginStep(f)
    PROVE  PortInv'
  <1>1. /\ flow[f] \in LoginFlow /\ clientID \in AnyAccount
        /\ flow[f].login \notin Registered => flow[f].server = "none"
        /\ flow[f].login \in Registered => flow[f].login \notin Unbound
        /\ flow[f].login \in Unbound => flow[f].listener = "none"
    BY DEF PortInv, LoginsTyped, ListenersFollow, Unbound, Registered
  <1>2. CASE Login(f)
    BY <1>2, LoginPort
  <1>3. CASE CancelPrior(f)
    BY <1>3, CancelPort
  <1>4. CASE Bind(f)
    BY <1>4, BindPort
  <1>5. CASE Register(f)
    BY <1>5, RegisterPort
  <1>6. CASE LoginStarted(f)
    <2> DEFINE new == [flow[f] EXCEPT !.login = "started"]
    <2>1. Sets(f, new) /\ clientID' = clientID /\ session' = session
          /\ flow[f].login = "returns"
      BY <1>6 DEF LoginStarted
    <2>2. Follows(f, new)
      BY <1>1, <2>1 DEF Follows, LoginFlow, Registered
    <2> QED
      BY <1>1, <2>1, <2>2, FlowStep
  <1>7. ASSUME NEW new, LoginOnly(f, new), Follows(f, new)
        PROVE  PortInv'
    BY <1>1, <1>7, FlowStep DEF LoginOnly
  <1>8. CASE Serve(f)
    <2>1. CASE flow[f].server = "begins" /\ LoginOnly(f, [flow[f] EXCEPT !.server = "serves"])
      <3>1. Follows(f, [flow[f] EXCEPT !.server = "serves"])
        BY <1>1, <2>1 DEF Follows, LoginFlow
      <3> QED
        BY <1>7, <2>1, <3>1
    <2>2. CASE flow[f].server = "shut" /\ LoginOnly(f, [flow[f] EXCEPT !.listener = "closed"])
      <3>1. Follows(f, [flow[f] EXCEPT !.listener = "closed"])
        BY <1>1, <2>2 DEF Follows, LoginFlow
      <3> QED
        BY <1>7, <2>2, <3>1
    <2> QED
      BY <1>8, <2>1, <2>2 DEF Serve
  <1>9. CASE LoginTimesOut(f)
    <2>1. Follows(f, [flow[f] EXCEPT !.cancelled = TRUE])
      BY <1>1 DEF Follows, LoginFlow
    <2> QED
      BY <1>7, <1>9, <2>1 DEF LoginTimesOut
  <1>10. CASE Watch(f)
    <2>1. Follows(f, [flow[f] EXCEPT !.watcher = "finishes"])
      BY <1>1 DEF Follows, LoginFlow
    <2> QED
      BY <1>7, <1>10, <2>1 DEF Watch
  <1>11. CASE Shutdown(f)
    <2>1. flow[f].server \in {"begins", "serves"} /\ LoginOnly(f, Shut(flow[f]))
      BY <1>11 DEF Shutdown
    <2>2. Follows(f, Shut(flow[f]))
      BY <1>1, <2>1 DEF Follows, LoginFlow, Shut
    <2> QED
      BY <1>7, <2>1, <2>2
  <1>12. CASE Callback(f)
    <2>1. ASSUME NEW c \in {"finishes", "exchanges"}
          PROVE  Follows(f, [flow[f] EXCEPT !.callback = c])
      BY <1>1 DEF Follows, LoginFlow
    <2> QED
      BY <1>7, <1>12, <2>1 DEF Callback
  <1>13. CASE ExchangeCode(f)
    <2>1. PICK granted \in BOOLEAN :
              LoginOnly(f, [flow[f] EXCEPT !.callback = "finishes", !.granted = granted])
      BY <1>13 DEF ExchangeCode
    <2>2. Follows(f, [flow[f] EXCEPT !.callback = "finishes", !.granted = granted])
      BY <1>1 DEF Follows, LoginFlow
    <2> QED
      BY <1>7, <2>1, <2>2
  <1>14. CASE Finish(f)
    <2> DEFINE Ends(granted) == [flow[f] EXCEPT !.once = TRUE, !.cancelled = TRUE,
                                                !.granted = granted, !.complete = "ends"]
    <2>1. PICK granted \in BOOLEAN : Sets(f, Ends(granted))
      BY <1>1, <1>14 DEF Finish, LoginFlow
    <2>2. Follows(f, Ends(granted)) /\ Ends(granted).cancelled
      BY <1>1 DEF Follows, LoginFlow
    <2>3. /\ clientID' = clientID
          /\ session' = session \/ (session' = NoFlow /\ session = f)
      BY <1>14 DEF Finish, EndedSession
    <2> HIDE DEF Ends
    <2> QED
      BY <1>1, <2>1, <2>2, <2>3, FlowStep
  <1>15. ASSUME NEW c \in {"stores", "caches", "asks who", "done"},
                Sets(f, [flow[f] EXCEPT !.complete = c]),
                clientID' = clientID, session' = session
         PROVE  PortInv'
    <2>1. Follows(f, [flow[f] EXCEPT !.complete = c])
      BY <1>1 DEF Follows, LoginFlow
    <2> QED
      BY <1>1, <1>15, <2>1, FlowStep
  <1>16. CASE LoginEnds(f)
    BY <1>15, <1>16 DEF LoginEnds
  <1>17. CASE StoreTokens(f)
    BY <1>15, <1>17 DEF StoreTokens
  <1>18. CASE CacheTokens(f)
    BY <1>15, <1>18 DEF CacheTokens
  <1>19. CASE LoginConfirmed(f)
    BY <1>15, <1>19 DEF LoginConfirmed
  <1> QED
    BY <1>2, <1>3, <1>4, <1>5, <1>6, <1>8, <1>9, <1>10, <1>11, <1>12, <1>13, <1>14,
       <1>16, <1>17, <1>18, <1>19 DEF LoginStep

(* Everything else leaves the logins alone. *)
LEMMA KeepsLogins ==
    ASSUME PortInv, UNCHANGED logins, clientID' \in AnyAccount
    PROVE  PortInv'
  BY DEF PortInv, logins, LoginsTyped, ListenersFollow, SessionsRegistered, OneListener,
         PortComesFree, Registering, Taken

LEMMA ElsewhereKeepsLogins ==
    ASSUME LoginsTyped, Next, ~(\E f \in Flow : LoginStep(f))
    PROVE  UNCHANGED logins /\ clientID' \in AnyAccount
  <1>1. clientID \in AnyAccount
    BY DEF LoginsTyped
  <1>2. ASSUME NEW p \in Process, Step(p) PROVE UNCHANGED <<logins, clientID>>
    BY <1>2 DEF Step, AccessToken, ReadStored, RefreshTokens, DropRevoked, ClearRevoked,
           PersistRotated, CacheRefreshed, Respond, Unauthorized, GoesOn
  <1>3. CASE EditClientID
    BY <1>3 DEF EditClientID, AnyAccount
  <1>4. CASE \/ ValidateStoredToken \/ Validated
             \/ GetDevices \/ GetPlaylists \/ CurrentUserID \/ Listed
             \/ Logout \/ LogoutDeletes \/ LogoutResets \/ TokenExpires
    BY <1>1, <1>4 DEF ValidateStoredToken, Validated, GetDevices, GetPlaylists,
           CurrentUserID, Listed, Logout, LogoutDeletes, LogoutResets, TokenExpires
  <1>5. CASE \/ \E job \in Job : Enqueue(job)
             \/ VolumeGoesStale
    BY <1>1, <1>5 DEF Enqueue, VolumeGoesStale, accountVars
  <1>6. CASE RunStep
    BY <1>1, <1>6 DEF RunStep, TakeRequests, TakeBadId, TakeVolumeSet, TakeVolumeAdjust,
           AnswerRequest, AnswerVolume, CacheVolume, HandVolume, RunOnly, account
  <1>7. CASE TakeVolume \/ VolumeWritten
    BY <1>1, <1>7 DEF TakeVolume, VolumeWritten, WriterOnly, account
  <1> QED
    BY <1>1, <1>2, <1>3, <1>4, <1>5, <1>6, <1>7 DEF Next, AccountNext

LEMMA InitPort ==
    ASSUME Init
    PROVE  PortInv
  <1>1. /\ clientID \in Account /\ session = NoFlow /\ flow = [f \in Flow |-> NewFlow]
    BY DEF Init, AccountInit
  <1>2. NewFlow \in LoginFlow
    BY DEF NewFlow, LoginFlow, AnyAccount
  <1> QED
    BY <1>1, <1>2 DEF PortInv, LoginsTyped, ListenersFollow, SessionsRegistered, OneListener,
       PortComesFree, AnyAccount, NewFlow, Unbound, Registered

LEMMA NextPort ==
    ASSUME PortInv, [Next]_vars
    PROVE  PortInv'
  <1>1. CASE \E f \in Flow : LoginStep(f)
    BY <1>1, LoginStepPort
  <1>2. CASE Next /\ ~(\E f \in Flow : LoginStep(f))
    BY <1>2, ElsewhereKeepsLogins, KeepsLogins DEF PortInv
  <1>3. CASE UNCHANGED vars
    <2>1. UNCHANGED logins /\ clientID' = clientID
      BY <1>3 DEF vars, accountVars
    <2> QED
      BY <2>1, KeepsLogins DEF PortInv, LoginsTyped
  <1> QED
    BY <1>1, <1>2, <1>3

LEMMA LoginsStayTyped == Spec => []LoginsTyped
  BY InitPort, NextPort, PTL DEF Spec, PortInv

(* The next login always gets the one loopback port: whoever holds it is   *)
(* the session that login will close, or has been told to let it go        *)
(* (Auth.StartLogin, finish and the watcher, auth.go).                     *)
THEOREM PortAlwaysFrees == Spec => []PortComesFree
  BY InitPort, NextPort, PTL DEF Spec, PortInv

-----------------------------------------------------------------------------
(* The tokens *)

(* A goroutine moves on, to send with the token of its account if to send. *)
LEMMA MovesOne ==
    ASSUME TokenInv, NEW p \in Process, NEW new \in Op, op' = [op EXCEPT ![p] = new],
           new.at = "sends" => new.token = new.account,
           (TokensTyped /\ CachesOwnToken => cache' \in Cached
                                          /\ cache'.token \in {NoAccount, cache'.account})
    PROVE  TokenInv'
  BY DEF TokenInv, TokensTyped, CachesOwnToken, UsesOwnToken

LEMMA CacheKept ==
    ASSUME TokensTyped, CachesOwnToken, cache' = cache
    PROVE  cache' \in Cached /\ cache'.token \in {NoAccount, cache'.account}
  BY DEF TokensTyped, CachesOwnToken

LEMMA CacheTyped ==
    ASSUME TokensTyped, CachesOwnToken, NEW a \in AnyAccount,
           cache' \in {Cleared(a), Invalidated(a), Granted(a), [cache EXCEPT !.fresh = FALSE]}
    PROVE  cache' \in Cached /\ cache'.token \in {NoAccount, cache'.account}
  <1>1. cache \in Cached /\ cache.token \in {NoAccount, cache.account}
    BY DEF TokensTyped, CachesOwnToken
  <1>2. CASE cache' = [cache EXCEPT !.token = NoAccount, !.fresh = FALSE]
    BY <1>1, <1>2 DEF Cached, AnyAccount
  <1>3. CASE cache' = [cache EXCEPT !.token = NoAccount]
    BY <1>1, <1>3 DEF Cached, AnyAccount
  <1>4. CASE cache' = [cache EXCEPT !.fresh = FALSE]
    BY <1>1, <1>4 DEF Cached
  <1>5. CASE cache' = Granted(a)
    BY <1>5 DEF Cached, Granted
  <1>6. CASE cache' = cache
    BY <1>1, <1>6
  <1> QED
    BY <1>2, <1>3, <1>4, <1>5, <1>6 DEF Cleared, Invalidated

LEMMA CacheOnly ==
    ASSUME TokenInv, NEW a \in AnyAccount, UNCHANGED op,
           cache' \in {Cleared(a), Invalidated(a), Granted(a), [cache EXCEPT !.fresh = FALSE]}
    PROVE  TokenInv'
  <1>1. cache' \in Cached /\ cache'.token \in {NoAccount, cache'.account}
    BY CacheTyped DEF TokenInv
  <1> QED
    BY <1>1 DEF TokenInv, TokensTyped, CachesOwnToken, UsesOwnToken

LEMMA KeepsTokens ==
    ASSUME TokenInv, UNCHANGED <<op, cache>>
    PROVE  TokenInv'
  BY DEF TokenInv, TokensTyped, CachesOwnToken, UsesOwnToken

(* A step within a request, that leaves the cache alone or makes one of    *)
(* the account's changes to it.                                            *)
LEMMA GoesKeeps ==
    ASSUME TokenInv, NEW p \in Process, NEW stage \in Before, Goes(p, stage),
           cache' \in {cache, Cleared(op[p].account)}
    PROVE  TokenInv'
  <1> DEFINE new == [op[p] EXCEPT !.at = stage]
  <1>1. op \in [Process -> Op]
    BY DEF TokenInv, TokensTyped
  <1>2. op' = [op EXCEPT ![p] = new] /\ new \in Op /\ new.at # "sends"
        /\ op[p].account \in AnyAccount
    BY <1>1 DEF Goes, Op, Before
  <1>3. TokensTyped /\ CachesOwnToken
            => cache' \in Cached /\ cache'.token \in {NoAccount, cache'.account}
    BY <1>2, CacheTyped, CacheKept
  <1> HIDE DEF new
  <1> QED
    BY <1>2, <1>3, MovesOne

(* A request that begins, and one that is over. *)
LEMMA CallsKeep ==
    ASSUME TokenInv, NEW p \in Process, clientID \in AnyAccount, Calls(p) \/ Done(p),
           cache' = cache \/ (\E a \in AnyAccount : cache' = Granted(a))
    PROVE  TokenInv'
  <1>1. PICK new \in Op : op' = [op EXCEPT ![p] = new] /\ new.at # "sends"
    <2>1. /\ Idle \in Op /\ [Idle EXCEPT !.at = "failed"] \in Op
          /\ [Idle EXCEPT !.at = "asks", !.account = clientID] \in Op
      BY DEF Idle, Op, Before, AnyAccount
    <2>2. /\ Idle.at # "sends" /\ [Idle EXCEPT !.at = "failed"].at # "sends"
          /\ [Idle EXCEPT !.at = "asks", !.account = clientID].at # "sends"
      BY DEF Idle
    <2>3. CASE Calls(p) /\ clientID = NoAccount
      BY <2>1, <2>2, <2>3 DEF Calls
    <2>4. CASE Calls(p) /\ clientID # NoAccount
      BY <2>1, <2>2, <2>4 DEF Calls
    <2>5. CASE Done(p)
      BY <2>1, <2>2, <2>5 DEF Done
    <2> QED
      BY <2>3, <2>4, <2>5
  <1>2. TokensTyped /\ CachesOwnToken
            => cache' \in Cached /\ cache'.token \in {NoAccount, cache'.account}
    BY CacheTyped, CacheKept
  <1> QED
    BY <1>1, <1>2, MovesOne

LEMMA StepKeeps ==
    ASSUME TokenInv, NEW p \in Process, Step(p)
    PROVE  TokenInv'
  <1>1. /\ op \in [Process -> Op] /\ op[p] \in Op /\ cache \in Cached
        /\ CachesOwnToken /\ TokensTyped
    BY DEF TokenInv, TokensTyped
  <1>2. op[p].account \in AnyAccount /\ cache.token \in AnyAccount
    BY <1>1 DEF Op, Cached
  <1>3. CASE AccessToken(p)
    <2>1. CASE CachedFor(op[p].account)
      <3> DEFINE new == [op[p] EXCEPT !.at = "sends", !.token = cache.token]
      <3>1. op' = [op EXCEPT ![p] = new] /\ cache' = cache
        BY <1>1, <1>3, <2>1 DEF AccessToken, tokens
      <3>2. cache.token = op[p].account
        BY <1>1, <2>1 DEF CachedFor, CachesOwnToken
      <3>3. new \in Op /\ new.token = new.account
        BY <1>1, <1>2, <3>2 DEF Op
      <3> HIDE DEF new
      <3> QED
        BY <3>1, <3>3, MovesOne, CacheKept
    <2>2. CASE ~CachedFor(op[p].account)
      BY <1>3, <2>2, GoesKeeps DEF AccessToken, tokens, Before
    <2> QED
      BY <2>1, <2>2
  <1>4. CASE ReadStored(p)
    <2>1. Goes(p, "refreshes") \/ Goes(p, "failed")
      BY <1>4 DEF ReadStored, GoesOn
    <2> QED
      BY <1>4, <2>1, GoesKeeps DEF ReadStored, tokens, Before
  <1>5. CASE RefreshTokens(p)
    <2>1. \E next \in {"failed", "drops", "persists", "caches"} : Goes(p, next)
      BY <1>5 DEF RefreshTokens, GoesOn
    <2> QED
      BY <1>5, <2>1, GoesKeeps DEF RefreshTokens, tokens, Before
  <1>6. CASE DropRevoked(p)
    BY <1>6, GoesKeeps DEF DropRevoked, GoesOn, Before
  <1>7. CASE ClearRevoked(p)
    BY <1>7, GoesKeeps DEF ClearRevoked, GoesOn, Before
  <1>8. CASE PersistRotated(p)
    BY <1>8, GoesKeeps DEF PersistRotated, GoesOn, Before
  <1>9. CASE CacheRefreshed(p)
    <2> DEFINE new == [op[p] EXCEPT !.at = "sends", !.token = op[p].account]
    <2>1. op' = [op EXCEPT ![p] = new] /\ cache' = Granted(op[p].account)
      BY <1>1, <1>9 DEF CacheRefreshed
    <2>2. new \in Op /\ new.token = new.account
      BY <1>1, <1>2 DEF Op
    <2>3. cache' \in Cached /\ cache'.token \in {NoAccount, cache'.account}
      BY <1>1, <1>2, <2>1, CacheTyped
    <2> HIDE DEF new
    <2> QED
      BY <2>1, <2>2, <2>3, MovesOne
  <1>10. CASE Respond(p)
    <2>1. Goes(p, "ok") \/ Goes(p, "failed")
      BY <1>10 DEF Respond, GoesOn
    <2> QED
      BY <1>10, <2>1, GoesKeeps DEF Respond, tokens, Before
  <1>11. CASE Unauthorized(p)
    <2> DEFINE new == [op[p] EXCEPT !.at = "asks", !.token = NoAccount, !.retried = TRUE]
    <2>1. op' = [op EXCEPT ![p] = new] /\ cache' = Invalidated(op[p].account)
      BY <1>1, <1>11 DEF Unauthorized
    <2>2. new \in Op /\ new.at # "sends"
      BY <1>1 DEF Op, Before, AnyAccount
    <2>3. cache' \in Cached /\ cache'.token \in {NoAccount, cache'.account}
      BY <1>1, <1>2, <2>1, CacheTyped
    <2> HIDE DEF new
    <2> QED
      BY <2>1, <2>2, <2>3, MovesOne
  <1> QED
    BY <1>3, <1>4, <1>5, <1>6, <1>7, <1>8, <1>9, <1>10, <1>11 DEF Step

LEMMA LoginKeepsTokens ==
    ASSUME TokenInv, LoginsTyped, NEW f \in Flow, LoginStep(f)
    PROVE  TokenInv'
  <1>1. f \in Process /\ clientID \in AnyAccount /\ flow[f].account \in AnyAccount
    BY DEF Process, LoginsTyped, LoginFlow
  <1>2. CASE CacheTokens(f)
    BY <1>1, <1>2, CallsKeep DEF CacheTokens
  <1>3. CASE LoginConfirmed(f)
    BY <1>1, <1>3, CallsKeep DEF LoginConfirmed, tokens
  <1>4. CASE ~CacheTokens(f) /\ ~LoginConfirmed(f)
    <2>1. UNCHANGED <<op, cache>>
      BY <1>4 DEF LoginStep, Login, CancelPrior, Bind, Register, LoginStarted, Serve,
             LoginTimesOut, Watch, Shutdown, Callback, ExchangeCode, Finish, LoginEnds,
             StoreTokens, LoginOnly, tokens
    <2> QED
      BY <2>1, KeepsTokens
  <1> QED
    BY <1>2, <1>3, <1>4

LEMMA CallersKeepTokens ==
    ASSUME TokenInv, clientID \in AnyAccount,
           \/ ValidateStoredToken \/ Validated
           \/ GetDevices \/ GetPlaylists \/ CurrentUserID \/ Listed
           \/ Logout \/ LogoutDeletes \/ LogoutResets \/ TokenExpires \/ EditClientID
    PROVE  TokenInv'
  <1>1. "startup" \in Process /\ "lists" \in Process
    BY DEF Process
  <1>2. CASE ValidateStoredToken
    <2>1. cache' = cache /\ (Calls("startup") \/ UNCHANGED op)
      BY <1>2 DEF ValidateStoredToken, tokens
    <2> QED
      BY <1>1, <2>1, CallsKeep, KeepsTokens
  <1>3. CASE Validated
    BY <1>1, <1>3, CallsKeep DEF Validated, tokens
  <1>4. CASE GetDevices \/ GetPlaylists \/ CurrentUserID \/ Listed
    <2>1. cache' = cache /\ (Calls("lists") \/ Done("lists"))
      BY <1>4 DEF GetDevices, GetPlaylists, CurrentUserID, Listed, tokens
    <2> QED
      BY <1>1, <2>1, CallsKeep
  <1>5. CASE Logout
    BY <1>5, CacheOnly DEF Logout
  <1>6. CASE TokenExpires
    BY <1>6, CacheOnly DEF TokenExpires
  <1>7. CASE LogoutDeletes \/ LogoutResets \/ EditClientID
    BY <1>7, KeepsTokens DEF LogoutDeletes, LogoutResets, EditClientID, tokens
  <1> QED
    BY <1>2, <1>3, <1>4, <1>5, <1>6, <1>7

LEMMA JobsKeepTokens ==
    ASSUME TokenInv, clientID \in AnyAccount,
           \/ \E job \in Job : Enqueue(job)
           \/ RunStep \/ VolumeGoesStale \/ TakeVolume \/ VolumeWritten
    PROVE  TokenInv'
  <1>1. "runner" \in Process /\ "writer" \in Process
    BY DEF Process
  <1>2. CASE RunStep
    <2>1. cache' = cache /\ (Calls("runner") \/ Done("runner") \/ UNCHANGED op)
      BY <1>2 DEF RunStep, TakeRequests, TakeBadId, TakeVolumeSet, TakeVolumeAdjust,
             AnswerRequest, AnswerVolume, CacheVolume, HandVolume, RunOnly, account, tokens,
             Asks
    <2> QED
      BY <1>1, <2>1, CallsKeep, KeepsTokens
  <1>3. CASE TakeVolume \/ VolumeWritten
    <2>1. cache' = cache /\ (Calls("writer") \/ Done("writer"))
      BY <1>3 DEF TakeVolume, VolumeWritten, WriterOnly, account, tokens
    <2> QED
      BY <1>1, <2>1, CallsKeep
  <1>4. CASE (\E job \in Job : Enqueue(job)) \/ VolumeGoesStale
    BY <1>4, KeepsTokens DEF Enqueue, VolumeGoesStale, accountVars, tokens
  <1> QED
    BY <1>2, <1>3, <1>4

LEMMA NextKeepsTokens ==
    ASSUME TokenInv, LoginsTyped, [Next]_vars
    PROVE  TokenInv'
  <1>1. clientID \in AnyAccount
    BY DEF LoginsTyped
  <1>2. CASE UNCHANGED vars
    BY <1>2, KeepsTokens DEF vars, accountVars, tokens
  <1>3. CASE Next
    BY <1>1, <1>3, StepKeeps, LoginKeepsTokens, CallersKeepTokens, JobsKeepTokens
       DEF Next, AccountNext
  <1> QED
    BY <1>2, <1>3

(* No request is ever sent with a token of another account than the one it *)
(* was begun for, however often the Client ID changes and whoever else     *)
(* refreshes, logs in or logs out meanwhile (TokenManager.AccessToken and  *)
(* Client.do, token.go and client.go).                                     *)
THEOREM OwnTokensOnly == Spec => []UsesOwnToken
  <1>1. Init => TokenInv
    BY DEF Init, AccountInit, TokenInv, TokensTyped, CachesOwnToken, UsesOwnToken, Op, Before,
           Cached, Idle, NoCache, AnyAccount
  <1>2. TokenInv /\ LoginsTyped /\ [Next]_vars => TokenInv'
    BY NextKeepsTokens
  <1> QED
    BY <1>1, <1>2, LoginsStayTyped, PTL DEF Spec, TokenInv

-----------------------------------------------------------------------------
(* The media players: types *)

Shown == Status \union {"vanished"}

Signal == [kind : {"owner"}, player : Player, owner : Owner \union {Nobody}]
              \union [kind : {"props"}, owner : Owner, status : {"playing", "paused", Same}]

MediaEvent == [player : Player, status : Shown]

(* What an event in hand is about, what is being asked.                    *)
InHand ==
    /\ at \in {"lists", "takes", "asks owner", "asks properties", "sends"}
    /\ IF at = "sends" THEN event \in MediaEvent ELSE event = NoEvent
    /\ asked \in [player : Player \union {Nobody}, owner : Owner \union {Nobody}]
    /\ at \in {"asks owner", "asks properties"} => asked.player \in Player
    /\ at = "asks properties" => asked.owner \in Owner

MediaTyped ==
    /\ bus \in [Player -> [owner : Owner \union {Nobody}, status : {"playing", "paused"}]]
    /\ changes \in 0 .. MaxChanges
    /\ born \in Players .. Players + changes
    /\ signals \in Seq(Signal)
    /\ InHand
    /\ listed \subseteq Player
    /\ state \in [Player -> Shown]
    /\ owners \in [Owner -> Player \union {Nobody}]
    /\ events \in Seq(MediaEvent)
    /\ known \in [Player -> Shown]

-----------------------------------------------------------------------------
(* The media players: what the backend believes is told, in order *)

Holds(p) == at = "sends" /\ event.player = p

(* What the tracker will have heard last of p is what the backend believes. *)
Told(p) ==
    /\ Holds(p) => event.status = state[p]
    /\ \A i \in DOMAIN events :
          events[i].player = p /\ (\A j \in DOMAIN events : j > i => events[j].player # p)
              => Holds(p) \/ events[i].status = state[p]
    /\ (\A i \in DOMAIN events : events[i].player # p) => Holds(p) \/ known[p] = state[p]

-----------------------------------------------------------------------------
(* The media players: owners *)

(* A unique name is of one process, which owns one name at most, and is    *)
(* not used again.                                                         *)
OwnersDistinct ==
    /\ \A p \in Player : bus[p].owner <= born
    /\ \A i \in DOMAIN signals : signals[i].kind = "props" => signals[i].owner <= born
    /\ \A o \in Owner : owners[o] # Nobody => o <= born
    /\ asked.owner <= born
    /\ \A p \in Player, q \in Player : bus[p].owner = bus[q].owner /\ Present(p) => p = q
    /\ \A p \in Player : Present(p) /\ owners[bus[p].owner] # Nobody => owners[bus[p].owner] = p
    /\ \A p \in Player : at = "asks properties" /\ bus[p].owner = asked.owner => p = asked.player

(* The i-th signal says who owns p now. *)
TellsOwner(i, p) == signals[i].kind = "owner" /\ signals[i].player = p

(* An owner the backend takes for that of p, or is about to. *)
TakenFor(o, p) == owners[o] = p \/ (at = "asks properties" /\ asked.player = p /\ asked.owner = o)

(* The i-th signal tells of a change of p's status. *)
TellsStatus(i, p) ==
    signals[i].kind = "props" /\ signals[i].owner = bus[p].owner /\ signals[i].status # Same

(* The last signal about the owner of p, and that about its status, are    *)
(* true.                                                                   *)
LastOwnerTrue(p) ==
    \A i \in DOMAIN signals :
        TellsOwner(i, p) /\ (\A j \in DOMAIN signals : j > i => ~TellsOwner(j, p))
            => signals[i].owner = bus[p].owner

LastStatusTrue(p) ==
    \A i \in DOMAIN signals :
        TellsStatus(i, p) /\ (\A j \in DOMAIN signals : j > i => ~TellsStatus(j, p))
            => signals[i].status = bus[p].status

(* What a former owner sent comes before the signal that it has gone.      *)
FormersFirst(p) ==
    \A i \in DOMAIN signals :
        signals[i].kind = "props" /\ TakenFor(signals[i].owner, p)
            => \/ signals[i].owner = bus[p].owner
               \/ \E j \in DOMAIN signals : j > i /\ TellsOwner(j, p)

(* An owner that is replaced while it is being asked was told of.          *)
AskedFirst(p) ==
    at = "asks properties" /\ asked.player = p
        => asked.owner = bus[p].owner \/ \E j \in DOMAIN signals : TellsOwner(j, p)

SignalsTrue(p) == LastOwnerTrue(p) /\ LastStatusTrue(p) /\ FormersFirst(p) /\ AskedFirst(p)

-----------------------------------------------------------------------------
(* The media players: what is not known is still to be asked or told *)

StillAsked(p) ==
    \/ at = "lists"
    \/ p \in listed
    \/ at = "asks owner" /\ asked.player = p
    \/ at = "asks properties" /\ asked.player = p

(* The backend follows p, and believes it or will hear of it. *)
Followed(p) ==
    /\ owners[bus[p].owner] = p
    /\ state[p] # "vanished"
    /\ state[p] = bus[p].status \/ \E i \in DOMAIN signals : TellsStatus(i, p)

PlayerKnown(p) ==
    \/ \E i \in DOMAIN signals : TellsOwner(i, p)
    \/ Present(p) /\ (StillAsked(p) \/ p \in unasked \/ Followed(p))
    \/ ~Present(p) /\ state[p] = "vanished"

MediaInv ==
    /\ MediaTyped
    /\ OwnersDistinct
    /\ \A p \in Player : Told(p) /\ SignalsTrue(p) /\ PlayerKnown(p)

-----------------------------------------------------------------------------
(* The media players: steps *)

PlayersMove ==
    \E p \in Player :
        \/ \E shown \in {"playing", "paused"} : Owns(p, shown)
        \/ Vanishes(p)
        \/ \E shown \in {"playing", "paused", Same} : Shows(p, shown)

(* A Cycle, the tracker's onChange and no step at all.                     *)
NoNews ==
    /\ UNCHANGED <<bus, born, backend, events, known, unasked>>
    /\ changes' = changes \/ Changed

LEMMA MediaSteps ==
    ASSUME [MediaNext]_mvars
    PROVE  PlayersMove \/ Backend \/ Applies \/ NoNews
  <1>1. CASE PlayersAct
    BY <1>1 DEF PlayersAct, PlayersMove, Appears, TakesOver, PlaysOrPauses
  <1>2. CASE \E ignored \in IgnoreLists, named \in {{}} \cup {{p} : p \in Player} :
                Transports(named, ignored)
    BY <1>2 DEF Transports, PlayersMove, PlaysOrPauses
  <1>3. CASE Notifies
    BY <1>3 DEF Notifies, NoNews, history
  <1>5. CASE UNCHANGED mvars
    BY <1>5 DEF NoNews, mvars, history, tracker
  <1>4. ASSUME NEW ignored \in IgnoreLists, Cycles(ignored) PROVE NoNews
    BY <1>4 DEF Cycles, NoNews
  <1> QED BY <1>1, <1>2, <1>3, <1>4, <1>5 DEF MediaNext, Tracks, Handlers

LEMMA PlayerNumbers ==
    /\ Nobody \notin Player /\ Nobody \notin Owner
    /\ Player \subseteq Owner /\ Player \subseteq Nat /\ Owner \subseteq Nat
    /\ Players \in Nat /\ MaxChanges \in Nat
  BY MediaTrackerAssumption DEF Player, Owner, Nobody

(* What Append and Tail do to what waits in a channel.                     *)
LEMMA OneMore ==
    ASSUME NEW S, NEW s \in Seq(S), NEW e \in S, NEW t, t = Append(s, e)
    PROVE  /\ t \in Seq(S)
           /\ DOMAIN s = 1..Len(s) /\ DOMAIN t = 1 .. Len(s) + 1 /\ Len(s) \in Nat
           /\ \A i \in DOMAIN s : t[i] = s[i]
           /\ t[Len(s) + 1] = e
  OBVIOUS

LEMMA OneLess ==
    ASSUME NEW S, NEW s \in Seq(S), s # <<>>, NEW t, t = Tail(s)
    PROVE  /\ t \in Seq(S) /\ Head(s) \in S /\ Head(s) = s[1] /\ 1 \in DOMAIN s
           /\ DOMAIN s = 1..Len(s) /\ DOMAIN t = 1 .. Len(s) - 1 /\ Len(s) \in Nat \ {0}
           /\ \A i \in DOMAIN t : t[i] = s[i + 1]
  OBVIOUS

(* A signal of a player that moves is appended, the backend stays where it *)
(* is.                                                                     *)
Moved(p, signal) ==
    /\ signal \in Signal
    /\ signals' = Append(signals, signal)
    /\ Changed
    /\ \A q \in Player \ {p} : bus'[q] = bus[q]
    /\ UNCHANGED <<at, listed, asked, event, state, owners, events, known>>

OwnerMoved(p, o) ==
    /\ Moved(p, [kind |-> "owner", player |-> p, owner |-> o])
    /\ bus'[p].owner = o
    /\ \/ o = Nobody /\ born' = born
       \/ o = born + 1 /\ born' = born + 1
    /\ unasked' = unasked \/ unasked' = unasked \ {p}

StatusMoved(p, shown) ==
    /\ Moved(p, [kind |-> "props", owner |-> bus[p].owner, status |-> shown])
    /\ shown \in {"playing", "paused", Same}
    /\ Present(p)
    /\ bus'[p].owner = bus[p].owner
    /\ bus'[p].status = IF shown = Same THEN bus[p].status ELSE shown
    /\ UNCHANGED <<born, unasked>>

BusTyped == bus \in [Player -> [owner : Owner \union {Nobody}, status : {"playing", "paused"}]]

LEMMA MovesAre ==
    ASSUME MediaTyped, NEW p \in Player,
           \/ \E shown \in {"playing", "paused"} : Owns(p, shown)
           \/ Vanishes(p)
           \/ \E shown \in {"playing", "paused", Same} : Shows(p, shown)
    PROVE  /\ BusTyped'
           /\ \/ \E o \in Owner \union {Nobody} : OwnerMoved(p, o)
              \/ \E shown \in {"playing", "paused", Same} : StatusMoved(p, shown)
  <1>1. /\ BusTyped /\ p \in Player /\ born \in Nat /\ born <= Players + changes
        /\ changes \in Nat /\ MaxChanges \in Nat /\ Players \in Nat /\ Nobody = 0
    BY PlayerNumbers DEF MediaTyped, BusTyped, Nobody
  <1>2. ASSUME NEW shown \in {"playing", "paused"}, Owns(p, shown)
        PROVE  BusTyped' /\ OwnerMoved(p, born + 1) /\ born + 1 \in Owner
    <2>1. born + 1 \in Owner
      BY <1>1, <1>2 DEF Owns, Changed, Owner
    <2>2. bus' = [bus EXCEPT ![p] = [owner |-> born + 1, status |-> shown]]
      BY <1>2 DEF Owns
    <2>3. BusTyped' /\ bus'[p].owner = born + 1 /\ \A q \in Player \ {p} : bus'[q] = bus[q]
      BY <1>1, <2>1, <2>2 DEF BusTyped
    <2>4. [kind |-> "owner", player |-> p, owner |-> born + 1] \in Signal
      BY <2>1 DEF Signal
    <2> QED BY <1>2, <2>1, <2>3, <2>4 DEF Owns, OwnerMoved, Moved, Sent, tracker
  <1>3. CASE Vanishes(p)
    <2>2. bus' = [bus EXCEPT ![p] = [owner |-> Nobody, status |-> "paused"]]
      BY <1>3 DEF Vanishes
    <2>3. BusTyped' /\ bus'[p].owner = Nobody /\ \A q \in Player \ {p} : bus'[q] = bus[q]
      BY <1>1, <2>2 DEF BusTyped
    <2>4. [kind |-> "owner", player |-> p, owner |-> Nobody] \in Signal
      BY DEF Signal
    <2>5. OwnerMoved(p, Nobody)
      BY <1>3, <2>3, <2>4 DEF Vanishes, OwnerMoved, Moved, Sent, tracker
    <2> QED BY <2>3, <2>5
  <1>4. ASSUME NEW shown \in {"playing", "paused", Same}, Shows(p, shown)
        PROVE  BusTyped' /\ StatusMoved(p, shown)
    <2>1. Present(p) /\ bus[p].owner \in Owner
      BY <1>1, <1>4 DEF Shows, Present, BusTyped
    <2>2. bus' = [bus EXCEPT ![p].status = IF shown = Same THEN @ ELSE shown]
      BY <1>4 DEF Shows
    <2>3. /\ BusTyped' /\ bus'[p].owner = bus[p].owner
          /\ bus'[p].status = IF shown = Same THEN bus[p].status ELSE shown
          /\ \A q \in Player \ {p} : bus'[q] = bus[q]
      BY <1>1, <2>2 DEF BusTyped
    <2>4. [kind |-> "props", owner |-> bus[p].owner, status |-> shown] \in Signal
      BY <2>1 DEF Signal
    <2> QED BY <1>4, <2>1, <2>3, <2>4 DEF Shows, StatusMoved, Moved, Sent, tracker
  <1> QED BY <1>2, <1>3, <1>4

-----------------------------------------------------------------------------
(* The media players: steps keep the types *)

LEMMA MovesTyped ==
    ASSUME MediaTyped, PlayersMove
    PROVE  MediaTyped'
  <1>1. PICK p \in Player : /\ BusTyped'
                           /\ \/ \E o \in Owner \union {Nobody} : OwnerMoved(p, o)
                              \/ \E shown \in {"playing", "paused", Same} : StatusMoved(p, shown)
    BY MovesAre DEF PlayersMove
  <1>2. PICK signal : Moved(p, signal)
    BY <1>1 DEF OwnerMoved, StatusMoved
  <1>3. signals' \in Seq(Signal)
    BY <1>2, OneMore DEF Moved, MediaTyped
  <1>4. changes' = changes + 1 /\ changes' <= MaxChanges /\ changes' \in 0..MaxChanges
    BY <1>2, PlayerNumbers DEF Moved, Changed, MediaTyped
  <1>5. born' \in Players .. Players + changes'
    <2>1. born' = born \/ born' = born + 1
      BY <1>1 DEF OwnerMoved, StatusMoved
    <2>2. born \in Players .. Players + changes /\ changes \in 0..MaxChanges
      BY DEF MediaTyped
    <2> QED BY <1>4, <2>1, <2>2, PlayerNumbers
  <1>6. InHand'
    BY <1>2 DEF Moved, MediaTyped, InHand
  <1> QED BY <1>1, <1>2, <1>3, <1>4, <1>5, <1>6 DEF Moved, MediaTyped, BusTyped

LEMMA BackendTyped ==
    ASSUME MediaTyped, Backend
    PROVE  MediaTyped'
  <1> USE DEF InHand
  <1>1. CASE Lists
    BY <1>1 DEF Lists, MediaTyped, tracker
  <1>2. CASE AsksNext
    <2>1. PICK p \in listed : listed' = listed \ {p} /\ AsksAbout(p)
      BY <1>2 DEF AsksNext
    <2>2. p \in Player /\ InHand'
      BY <1>2, <2>1 DEF AsksNext, AsksAbout, MediaTyped
    <2> QED BY <1>2, <2>1, <2>2 DEF AsksNext, MediaTyped, tracker
  <1>3. ASSUME NEW kind, TakesSignal(kind)
        PROVE  /\ signals' \in Seq(Signal) /\ Head(signals) \in Signal /\ Head(signals).kind = kind
               /\ at = "takes" /\ UNCHANGED <<bus, born, listed, events, known, changes>>
    BY <1>3, OneLess DEF TakesSignal, MediaTyped, tracker
  <1>4. CASE HandlesOwner
    <2>1. TakesSignal("owner") /\ AsksAbout(Head(signals).player) /\ UNCHANGED <<event, state, owners>>
      BY <1>4 DEF HandlesOwner
    <2>2. Head(signals).player \in Player
      BY <1>3, <2>1 DEF Signal
    <2> QED BY <1>3, <2>1, <2>2 DEF MediaTyped, AsksAbout
  <1>5. CASE HandlesVanish
    <2> DEFINE p == Head(signals).player
    <2>1. TakesSignal("owner") /\ p \in Player
      BY <1>3, <1>5 DEF HandlesVanish, Signal
    <2>2. /\ state' = [state EXCEPT ![p] = "vanished"]
          /\ owners' = [o \in Owner |-> IF owners[o] = p THEN Nobody ELSE owners[o]]
          /\ Sends(p, "vanished") /\ asked' = asked
      BY <1>5 DEF HandlesVanish
    <2> HIDE DEF p
    <2>3. /\ event' \in MediaEvent /\ state' \in [Player -> Shown]
          /\ owners' \in [Owner -> Player \union {Nobody}]
      BY <2>1, <2>2 DEF Sends, MediaEvent, Shown, MediaTyped
    <2> QED BY <1>3, <2>1, <2>2, <2>3 DEF MediaTyped, Sends
  <1>6. CASE HandlesProps
    <2> DEFINE p == owners[Head(signals).owner]
               shown == Head(signals).status
    <2>1. TakesSignal("props") /\ UNCHANGED <<asked, owners>>
      BY <1>6 DEF HandlesProps
    <2>2. p \in Player \union {Nobody} /\ shown \in {"playing", "paused", Same}
      BY <1>3, <2>1 DEF Signal, MediaTyped
    <2>3. CASE p = Nobody
      <3>1. UNCHANGED <<at, event, state>>
        BY <1>6, <2>3 DEF HandlesProps
      <3> QED BY <1>3, <2>1, <3>1 DEF MediaTyped
    <2>4. CASE p # Nobody
      <3>1. state' = [state EXCEPT ![p] = Merged(p, shown)] /\ Sends(p, state'[p])
        BY <1>6, <2>4 DEF HandlesProps
      <3> HIDE DEF p, shown
      <3>2. p \in Player /\ Merged(p, shown) \in Shown
        BY <2>2, <2>4 DEF Merged, Shown, Status, MediaTyped
      <3>3. state' \in [Player -> Shown] /\ event' \in MediaEvent
        BY <3>1, <3>2 DEF MediaTyped, Sends, MediaEvent
      <3> QED BY <1>3, <2>1, <3>1, <3>3 DEF MediaTyped, Sends
    <2> QED BY <2>3, <2>4
  <1>7. CASE OwnerAnswers
    <2>1. bus[asked.player].owner \in Owner
      BY <1>7 DEF OwnerAnswers, Present, MediaTyped
    <2> QED BY <1>7, <2>1 DEF OwnerAnswers, MediaTyped, tracker
  <1>8. CASE OwnerUnanswered
    BY <1>8 DEF OwnerUnanswered, NoOne, MediaTyped, tracker
  <1>9. ASSUME NEW shown \in Shown, at = "asks properties", Appeared(shown)
        PROVE  MediaTyped'
    <2>1. asked.player \in Player /\ asked.owner \in Owner
      BY <1>9 DEF MediaTyped
    <2>2. /\ state' \in [Player -> Shown] /\ owners' \in [Owner -> Player \union {Nobody}]
          /\ event' \in MediaEvent /\ at' = "sends" /\ asked' = NoOne
      BY <1>9, <2>1 DEF Appeared, Sends, MediaTyped, MediaEvent
    <2>3. InHand'
      BY <2>2 DEF NoOne
    <2> HIDE DEF InHand
    <2> QED BY <1>9, <2>2, <2>3 DEF Appeared, MediaTyped, tracker
  <1>10. CASE PropertiesAnswer
    <2>1. at = "asks properties" /\ bus[asked.player].status \in Shown
      BY <1>10 DEF PropertiesAnswer, MediaTyped, Shown, Status
    <2> QED BY <1>9, <1>10, <2>1 DEF PropertiesAnswer
  <1>11. CASE PropertiesUnanswered
    BY <1>9, <1>11 DEF PropertiesUnanswered, Shown, Status
  <1>12. CASE Sending
    <2>1. events' \in Seq(MediaEvent)
      BY <1>12, OneMore DEF Sending, MediaTyped
    <2> QED BY <1>12, <2>1 DEF Sending, MediaTyped, tracker
  <1> QED BY <1>1, <1>2, <1>4, <1>5, <1>6, <1>7, <1>8, <1>10, <1>11, <1>12 DEF Backend

LEMMA MediaTypesKept ==
    ASSUME MediaTyped, [MediaNext]_mvars
    PROVE  MediaTyped'
  <1>1. CASE Applies
    <2>1. events' \in Seq(MediaEvent) /\ Head(events) \in MediaEvent
      BY <1>1, OneLess DEF Applies, MediaTyped
    <2>2. known' \in [Player -> Shown]
      BY <1>1, <2>1 DEF Applies, MediaTyped, MediaEvent
    <2> QED BY <1>1, <2>1, <2>2 DEF Applies, MediaTyped, InHand, backend
  <1>2. CASE NoNews
    <2>1. changes' \in 0..MaxChanges /\ born' \in Players .. Players + changes'
      BY <1>2, PlayerNumbers DEF NoNews, Changed, MediaTyped
    <2> QED BY <1>2, <2>1 DEF NoNews, MediaTyped, InHand, backend
  <1> QED BY <1>1, <1>2, MediaSteps, MovesTyped, BackendTyped

-----------------------------------------------------------------------------
(* The media players: the tracker hears what the backend believes *)

Says(q, shown) ==
    /\ q \in Player /\ shown \in Shown
    /\ at # "sends"
    /\ state' = [state EXCEPT ![q] = shown]
    /\ Sends(q, shown)

LEMMA BackendSays ==
    ASSUME MediaTyped, Backend, ~Sending
    PROVE  /\ UNCHANGED <<bus, born, events, known>>
           /\ at # "sends"
           /\ \/ state' = state /\ at' # "sends"
              \/ \E q, shown : Says(q, shown)
  <1>1. CASE Lists \/ AsksNext \/ HandlesOwner \/ OwnerAnswers \/ OwnerUnanswered
    BY <1>1 DEF Lists, AsksNext, HandlesOwner, OwnerAnswers, OwnerUnanswered, AsksAbout,
                TakesSignal, tracker
  <1>2. CASE HandlesVanish
    <2>1. Head(signals).player \in Player
      BY <1>2, OneLess DEF HandlesVanish, TakesSignal, MediaTyped, Signal
    <2>2. Says(Head(signals).player, "vanished")
      BY <1>2, <2>1 DEF HandlesVanish, TakesSignal, Says, Shown
    <2> QED BY <1>2, <2>2 DEF HandlesVanish, TakesSignal, tracker
  <1>3. CASE HandlesProps
    <2> DEFINE p == owners[Head(signals).owner]
               shown == Merged(p, Head(signals).status)
    <2>1. p \in Player \union {Nobody} /\ Head(signals).status \in {"playing", "paused", Same}
      BY <1>3, OneLess DEF HandlesProps, TakesSignal, MediaTyped, Signal
    <2>2. UNCHANGED <<bus, born, events, known>> /\ at = "takes"
      BY <1>3 DEF HandlesProps, TakesSignal, tracker
    <2>3. CASE p = Nobody
      BY <1>3, <2>2, <2>3 DEF HandlesProps
    <2>4. CASE p # Nobody
      <3>1. state' = [state EXCEPT ![p] = shown] /\ Sends(p, state'[p])
        BY <1>3, <2>4 DEF HandlesProps
      <3>2. p \in Player
        BY <2>1, <2>4
      <3>3. shown \in Shown
        BY <2>1, <3>2 DEF Merged, MediaTyped, Shown, Status
      <3> HIDE DEF p, shown
      <3>4. state'[p] = shown
        BY <3>1, <3>2 DEF MediaTyped
      <3> QED BY <2>2, <3>1, <3>2, <3>3, <3>4 DEF Says
    <2> QED BY <2>3, <2>4
  <1>4. ASSUME NEW shown \in Shown, at = "asks properties", Appeared(shown)
        PROVE  UNCHANGED <<bus, born, events, known>> /\ Says(asked.player, shown)
    BY <1>4 DEF Appeared, Says, MediaTyped, InHand, tracker
  <1>5. CASE PropertiesAnswer
    <2>1. bus[asked.player].status \in Shown /\ at = "asks properties"
      BY <1>5 DEF PropertiesAnswer, MediaTyped, InHand, Shown, Status
    <2> QED BY <1>4, <1>5, <2>1 DEF PropertiesAnswer
  <1>6. CASE PropertiesUnanswered
    BY <1>4, <1>6 DEF PropertiesUnanswered, Shown, Status
  <1> QED BY <1>1, <1>2, <1>3, <1>5, <1>6 DEF Backend

LEMMA ToldSays ==
    ASSUME MediaTyped, NEW p \in Player, Told(p), Backend, ~Sending
    PROVE  Told(p)'
  <1>1. UNCHANGED <<bus, born, events, known>> /\ at # "sends"
    BY BackendSays
  <1>2. CASE state' = state /\ at' # "sends"
    BY <1>1, <1>2 DEF Told, Holds
  <1>3. ASSUME NEW q, NEW shown, Says(q, shown) PROVE Told(p)'
    <2>1. CASE p = q
      BY <1>1, <1>3, <2>1 DEF Told, Holds, Says, Sends, MediaTyped
    <2>2. CASE p # q
      BY <1>1, <1>3, <2>2 DEF Told, Holds, Says, Sends, MediaTyped
    <2> QED BY <2>1, <2>2
  <1> QED BY <1>2, <1>3, BackendSays

LEMMA ToldSending ==
    ASSUME MediaTyped, NEW p \in Player, Told(p), Sending
    PROVE  Told(p)'
  <1> DEFINE n == Len(events)
  <1>1. event \in MediaEvent /\ at = "sends" /\ at' = "takes" /\ UNCHANGED <<state, known>>
    BY DEF Sending, MediaTyped, InHand, tracker
  <1>2. /\ n \in Nat /\ DOMAIN events = 1..n /\ DOMAIN events' = 1 .. n + 1
        /\ \A i \in 1..n : events'[i] = events[i]
        /\ events'[n + 1] = event
    BY <1>1, OneMore DEF Sending, MediaTyped
  <1> HIDE DEF n
  <1>3. ~Holds(p)'
    BY <1>1 DEF Holds
  <1>4. CASE event.player = p
    <2>1. event.status = state[p]
      BY <1>1, <1>4 DEF Told, Holds
    <2>2. ASSUME NEW i \in 1 .. n + 1, \A j \in 1 .. n + 1 : j > i => events'[j].player # p
          PROVE  i = n + 1
      BY <1>2, <1>4, <2>2
    <2> QED BY <1>1, <1>2, <1>3, <1>4, <2>1, <2>2 DEF Told
  <1>5. CASE event.player # p
    <2>1. ~Holds(p)
      BY <1>5 DEF Holds
    <2>2. ASSUME NEW i \in 1 .. n + 1, events'[i].player = p,
                 \A j \in 1 .. n + 1 : j > i => events'[j].player # p
          PROVE  events'[i].status = state[p]
      <3>1. i \in 1..n /\ events[i].player = p
        BY <1>2, <1>5, <2>2
      <3>2. \A j \in 1..n : j > i => events[j].player # p
        BY <1>2, <2>2
      <3> QED BY <1>2, <2>1, <3>1, <3>2 DEF Told
    <2>3. ASSUME \A i \in 1 .. n + 1 : events'[i].player # p
          PROVE  known[p] = state[p]
      <3>1. \A i \in 1..n : events[i].player # p
        BY <1>2, <2>3
      <3> QED BY <1>2, <2>1, <3>1 DEF Told
    <2> QED BY <1>1, <1>2, <1>3, <2>2, <2>3 DEF Told
  <1> QED BY <1>4, <1>5

LEMMA ToldApplies ==
    ASSUME MediaTyped, NEW p \in Player, Told(p), Applies
    PROVE  Told(p)'
  <1> DEFINE n == Len(events)
  <1>1. UNCHANGED <<state, at, event>> /\ Holds(p)' = Holds(p)
    BY DEF Applies, backend, Holds
  <1>2. /\ n \in Nat \ {0} /\ DOMAIN events = 1..n /\ DOMAIN events' = 1 .. n - 1
        /\ \A i \in 1 .. n - 1 : events'[i] = events[i + 1]
        /\ Head(events) = events[1] /\ events[1] \in MediaEvent /\ 1 \in 1..n
    BY OneLess DEF Applies, MediaTyped
  <1>3. known' = [known EXCEPT ![events[1].player] = events[1].status]
    BY <1>2 DEF Applies
  <1> HIDE DEF n
  <1>4. events[1].player \in Player /\ known \in [Player -> Shown]
    BY <1>2 DEF MediaEvent, MediaTyped
  <1>5. ASSUME NEW i \in 1 .. n - 1, events'[i].player = p,
               \A j \in 1 .. n - 1 : j > i => events'[j].player # p
        PROVE  Holds(p) \/ events'[i].status = state[p]
    <2>1. i + 1 \in 1..n /\ events[i + 1].player = p
      BY <1>2, <1>5
    <2>2. ASSUME NEW j \in 1..n, j > i + 1 PROVE events[j].player # p
      <3>1. j - 1 \in 1 .. n - 1 /\ j - 1 > i /\ (j - 1) + 1 = j
        BY <1>2, <2>2
      <3> QED BY <1>2, <1>5, <3>1
    <2>3. Holds(p) \/ events[i + 1].status = state[p]
      BY <1>2, <2>1, <2>2 DEF Told
    <2> QED BY <1>2, <2>3
  <1>6. ASSUME \A i \in 1 .. n - 1 : events'[i].player # p
        PROVE  Holds(p) \/ known'[p] = state[p]
    <2>1. ASSUME NEW j \in 1..n, j > 1 PROVE events[j].player # p
      <3>1. j - 1 \in 1 .. n - 1 /\ (j - 1) + 1 = j
        BY <1>2, <2>1
      <3> QED BY <1>2, <1>6, <3>1
    <2>2. CASE events[1].player = p
      <3>1. Holds(p) \/ events[1].status = state[p]
        BY <1>2, <2>1, <2>2 DEF Told
      <3>2. known'[p] = events[1].status
        BY <1>3, <1>4, <2>2
      <3> QED BY <3>1, <3>2
    <2>3. CASE events[1].player # p
      <3>1. \A j \in 1..n : events[j].player # p
        BY <1>2, <2>1, <2>3
      <3>2. known'[p] = known[p]
        BY <1>3, <1>4, <2>3
      <3> QED BY <1>2, <3>1, <3>2 DEF Told
    <2> QED BY <2>2, <2>3
  <1> QED BY <1>1, <1>2, <1>5, <1>6 DEF Told, Holds

LEMMA ToldKept ==
    ASSUME MediaTyped, NEW p \in Player, Told(p), [MediaNext]_mvars
    PROVE  Told(p)'
  <1>1. CASE PlayersMove \/ NoNews
    <2>1. UNCHANGED <<at, event, state, events, known>>
      BY <1>1, MovesAre DEF PlayersMove, OwnerMoved, StatusMoved, Moved, NoNews, backend
    <2> QED BY <2>1 DEF Told, Holds
  <1> QED BY <1>1, MediaSteps, ToldSays, ToldSending, ToldApplies

-----------------------------------------------------------------------------
(* The media players: owners are told apart *)

(* What a step of the backend may do to what it knows of the owners.       *)
LEMMA BackendOwners ==
    ASSUME MediaTyped, Backend
    PROVE  /\ UNCHANGED <<bus, born>>
           /\ signals' = signals \/ (signals # <<>> /\ signals' = Tail(signals))
           /\ \A o \in Owner : \/ owners'[o] \in {owners[o], Nobody}
                               \/ /\ at = "asks properties" /\ o = asked.owner
                                  /\ owners'[o] = asked.player
           /\ OwnerAnswers \/ (at' # "asks properties" /\ asked'.owner \in {Nobody, asked.owner})
  <1>1. CASE Lists \/ Sending
    BY <1>1 DEF Lists, Sending
  <1>8. CASE OwnerUnanswered
    BY <1>8 DEF OwnerUnanswered, NoOne
  <1>6. CASE AsksNext
    <2>1. PICK p \in listed : AsksAbout(p)
      BY <1>6 DEF AsksNext
    <2>2. asked'.owner = Nobody /\ at' # "asks properties"
      BY <2>1 DEF AsksAbout
    <2> QED BY <1>6, <2>2 DEF AsksNext
  <1>2. CASE HandlesOwner
    <2>1. asked'.owner = Nobody /\ at' # "asks properties"
      BY <1>2 DEF HandlesOwner, AsksAbout
    <2> QED BY <1>2, <2>1 DEF HandlesOwner, TakesSignal
  <1>7. CASE HandlesProps
    <2>1. UNCHANGED <<owners, asked>> /\ at' # "asks properties"
      BY <1>7 DEF HandlesProps, TakesSignal, Sends
    <2> QED BY <1>7, <2>1 DEF HandlesProps, TakesSignal
  <1>3. CASE HandlesVanish
    <2>1. owners' = [o \in Owner |-> IF owners[o] = Head(signals).player THEN Nobody ELSE owners[o]]
      BY <1>3 DEF HandlesVanish
    <2> QED BY <1>3, <2>1 DEF HandlesVanish, TakesSignal, Sends
  <1>4. CASE OwnerAnswers
    BY <1>4 DEF OwnerAnswers
  <1>5. CASE PropertiesAnswer \/ PropertiesUnanswered
    <2>1. PICK shown : at = "asks properties" /\ Appeared(shown)
      BY <1>5 DEF PropertiesAnswer, PropertiesUnanswered
    <2>2. owners \in [Owner -> Player \union {Nobody}] /\ asked.owner \in Owner
      BY <2>1 DEF MediaTyped, InHand
    <2>3. owners' = [owners EXCEPT ![asked.owner] = asked.player]
      BY <2>1 DEF Appeared
    <2>4. \A o \in Owner : owners'[o] = owners[o] \/ (o = asked.owner /\ owners'[o] = asked.player)
      BY <2>2, <2>3
    <2> QED BY <2>1, <2>4 DEF Appeared, Sends, NoOne
  <1> QED BY <1>1, <1>2, <1>3, <1>4, <1>5, <1>6, <1>7, <1>8 DEF Backend

LEMMA OwnersAreNumbers ==
    ASSUME MediaTyped
    PROVE  /\ born \in Nat /\ Nobody = 0 /\ asked.owner \in Nat
           /\ \A q \in Player : bus[q].owner \in Owner \union {Nobody} /\ bus[q].owner \in Nat
  <1>1. Players \in Nat /\ changes \in Nat /\ born \in Players .. Players + changes
    BY PlayerNumbers DEF MediaTyped
  <1>2. born \in Nat
    BY <1>1
  <1>3. Owner \union {Nobody} \subseteq Nat /\ Nobody = 0
    BY PlayerNumbers DEF Nobody
  <1>4. asked.owner \in Owner \union {Nobody}
    BY DEF MediaTyped, InHand
  <1>5. \A q \in Player : bus[q].owner \in Owner \union {Nobody}
    BY DEF MediaTyped
  <1> QED BY <1>2, <1>3, <1>4, <1>5

LEMMA MovesDistinct ==
    ASSUME MediaTyped, OwnersDistinct, NEW p \in Player,
           \/ \E o \in Owner \union {Nobody} : OwnerMoved(p, o)
           \/ \E shown \in {"playing", "paused", Same} : StatusMoved(p, shown)
    PROVE  OwnersDistinct'
  <1>1. /\ born \in Nat /\ Nobody = 0 /\ asked.owner \in Nat
        /\ \A q \in Player : bus[q].owner \in Nat
    BY OwnersAreNumbers
  <1>2. PICK signal \in Signal :
            /\ signals' = Append(signals, signal)
            /\ signal.kind = "props" => signal.owner = bus[p].owner
    BY DEF OwnerMoved, StatusMoved, Moved
  <1>3. /\ DOMAIN signals = 1..Len(signals) /\ DOMAIN signals' = 1 .. Len(signals) + 1
        /\ \A i \in DOMAIN signals : signals'[i] = signals[i]
        /\ signals'[Len(signals) + 1] = signal
        /\ Len(signals) \in Nat
    <2>1. signals \in Seq(Signal) /\ signals' = Append(signals, signal)
      BY <1>2 DEF MediaTyped
    <2> QED BY <2>1, OneMore
  <1>4. /\ UNCHANGED <<at, asked, owners>>
        /\ \A q \in Player \ {p} : bus'[q] = bus[q]
        /\ \/ bus'[p].owner = Nobody /\ born' = born
           \/ bus'[p].owner = born + 1 /\ born' = born + 1 /\ born + 1 \in Owner \union {Nobody}
           \/ bus'[p].owner = bus[p].owner /\ born' = born
    BY DEF OwnerMoved, StatusMoved, Moved
  <1> HIDE DEF OwnersDistinct
  <1>13. /\ \A q \in Player : bus[q].owner <= born
         /\ \A o \in Owner : owners[o] # Nobody => o <= born
         /\ asked.owner <= born
    BY DEF OwnersDistinct
  <1>5. born <= born' /\ born' \in Nat
    BY <1>1, <1>4
  <1>6. ASSUME NEW q \in Player PROVE bus'[q].owner <= born'
    <2>1. bus[q].owner <= born
      BY DEF OwnersDistinct
    <2>2. CASE q # p
      BY <1>1, <1>4, <1>5, <2>1, <2>2
    <2>3. CASE q = p
      BY <1>1, <1>4, <1>5, <2>1, <2>3
    <2> QED BY <2>2, <2>3
  <1>7. ASSUME NEW i \in DOMAIN signals', signals'[i].kind = "props" PROVE signals'[i].owner <= born'
    <2>1. CASE i \in DOMAIN signals
      <3>1. signals[i] \in Signal
        BY <2>1 DEF MediaTyped
      <3>2. signals[i].kind = "props" /\ signals[i].owner \in Nat
        BY <1>3, <1>7, <2>1, <3>1, PlayerNumbers DEF Signal
      <3>3. signals[i].owner <= born
        BY <2>1, <3>2 DEF OwnersDistinct
      <3> QED BY <1>1, <1>3, <1>5, <2>1, <3>2, <3>3
    <2>2. CASE i = Len(signals) + 1
      <3>1. signals'[i].owner = bus[p].owner /\ bus[p].owner <= born
        BY <1>2, <1>3, <1>7, <2>2 DEF OwnersDistinct
      <3> QED BY <1>1, <1>5, <3>1
    <2> QED BY <1>3, <2>1, <2>2
  <1>8. ASSUME NEW o \in Owner, owners'[o] # Nobody PROVE o <= born'
    <2>1. o \in Nat /\ o <= born
      BY <1>4, <1>8, <1>13, PlayerNumbers
    <2> QED BY <1>1, <1>5, <2>1
  <1>9. asked'.owner <= born'
    <2>1. asked' = asked
      BY <1>4
    <2> QED BY <1>1, <1>5, <1>13, <2>1
  <1>10. ASSUME NEW q \in Player, NEW r \in Player, bus'[q].owner = bus'[r].owner, Present(q)'
         PROVE  q = r
    <2>1. bus'[q].owner # Nobody /\ bus[q].owner <= born /\ bus[r].owner <= born
      BY <1>10, <1>13 DEF Present
    <2>2. CASE bus'[q].owner = bus[q].owner /\ bus'[r].owner = bus[r].owner
      BY <1>10, <2>1, <2>2 DEF OwnersDistinct, Present
    <2>3. CASE bus'[q].owner # bus[q].owner
      <3>1. q = p /\ bus'[q].owner = born + 1
        BY <1>4, <2>1, <2>3
      <3>2. bus'[r].owner # bus[r].owner
        BY <1>1, <1>10, <2>1, <3>1
      <3> QED BY <1>4, <3>1, <3>2
    <2>4. CASE bus'[r].owner # bus[r].owner
      <3>1. r = p /\ bus'[r].owner = born + 1
        BY <1>4, <1>10, <2>1, <2>4
      <3>2. bus'[q].owner # bus[q].owner
        BY <1>1, <1>10, <2>1, <3>1
      <3> QED BY <1>4, <3>1, <3>2
    <2> QED BY <2>2, <2>3, <2>4
  <1>11. ASSUME NEW q \in Player, Present(q)', owners'[bus'[q].owner] # Nobody
         PROVE  owners'[bus'[q].owner] = q
    <2>1. CASE bus'[q].owner = bus[q].owner
      BY <1>4, <1>11, <2>1 DEF OwnersDistinct, Present
    <2>2. CASE bus'[q].owner # bus[q].owner
      <3>1. q = p /\ bus'[q].owner = born + 1 /\ born + 1 \in Owner \union {Nobody}
        BY <1>4, <1>11, <2>2 DEF Present
      <3>2. born + 1 \in Owner
        BY <1>1, <3>1
      <3>3. owners[born + 1] # Nobody
        BY <1>4, <1>11, <3>1
      <3>4. born + 1 <= born
        BY <1>13, <3>2, <3>3
      <3> QED BY <1>1, <3>4
    <2> QED BY <2>1, <2>2
  <1>12. ASSUME NEW q \in Player, at' = "asks properties", bus'[q].owner = asked'.owner
         PROVE  q = asked'.player
    <2>1. CASE bus'[q].owner = bus[q].owner
      BY <1>4, <1>12, <2>1 DEF OwnersDistinct
    <2>2. CASE bus'[q].owner # bus[q].owner
      <3>1. asked.owner # Nobody /\ asked.owner <= born
        BY <1>4, <1>12, PlayerNumbers DEF MediaTyped, InHand, OwnersDistinct
      <3>2. bus'[q].owner = born + 1 /\ asked'.owner = asked.owner
        BY <1>4, <1>12, <2>2, <3>1
      <3>3. born + 1 = asked.owner
        BY <1>12, <3>2
      <3> QED BY <1>1, <3>1, <3>3
    <2> QED BY <2>1, <2>2
  <1> QED BY <1>6, <1>7, <1>8, <1>9, <1>10, <1>11, <1>12 DEF OwnersDistinct

LEMMA BackendDistinct ==
    ASSUME MediaTyped, OwnersDistinct, Backend
    PROVE  OwnersDistinct'
  <1>1. /\ UNCHANGED <<bus, born>>
        /\ signals' = signals \/ (signals # <<>> /\ signals' = Tail(signals))
        /\ \A o \in Owner : \/ owners'[o] \in {owners[o], Nobody}
                            \/ /\ at = "asks properties" /\ o = asked.owner
                               /\ owners'[o] = asked.player
        /\ OwnerAnswers \/ (at' # "asks properties" /\ asked'.owner \in {Nobody, asked.owner})
    BY BackendOwners
  <1>2. ASSUME NEW i \in DOMAIN signals', signals'[i].kind = "props" PROVE signals'[i].owner <= born'
    <2>1. CASE signals' = signals
      BY <1>1, <1>2, <2>1 DEF OwnersDistinct
    <2>2. CASE signals # <<>> /\ signals' = Tail(signals)
      <3>1. i + 1 \in DOMAIN signals /\ signals'[i] = signals[i + 1]
        BY <2>2, OneLess DEF MediaTyped
      <3> QED BY <1>1, <1>2, <3>1 DEF OwnersDistinct
    <2> QED BY <1>1, <2>1, <2>2
  <1>3. ASSUME NEW o \in Owner, owners'[o] # Nobody PROVE o <= born'
    BY <1>1, <1>3 DEF OwnersDistinct
  <1>4. ASSUME NEW q \in Player, Present(q)', owners'[bus'[q].owner] # Nobody
        PROVE  owners'[bus'[q].owner] = q
    <2>1. bus[q].owner \in Owner /\ Present(q)
      BY <1>1, <1>4 DEF MediaTyped, Present
    <2> QED BY <1>1, <1>4, <2>1 DEF OwnersDistinct
  <1>5. CASE OwnerAnswers
    <2>1. /\ asked' = [asked EXCEPT !.owner = bus[asked.player].owner]
          /\ Present(asked.player) /\ asked.player \in Player /\ owners' = owners
      BY <1>5 DEF OwnerAnswers, MediaTyped, InHand
    <2>2. asked'.owner = bus[asked.player].owner /\ asked'.player = asked.player
      BY <2>1 DEF MediaTyped, InHand
    <2>3. asked'.owner <= born'
      BY <1>1, <2>1, <2>2 DEF OwnersDistinct
    <2>4. \A q \in Player : bus'[q].owner = asked'.owner => q = asked'.player
      BY <1>1, <2>1, <2>2 DEF OwnersDistinct
    <2> QED BY <1>1, <1>2, <1>3, <1>4, <2>3, <2>4 DEF OwnersDistinct, Present
  <1>6. CASE at' # "asks properties" /\ asked'.owner \in {Nobody, asked.owner}
    <2>1. asked'.owner <= born'
      <3>1. born \in Nat /\ Nobody = 0 /\ asked.owner <= born
        BY OwnersAreNumbers DEF OwnersDistinct
      <3>2. born' = born /\ asked'.owner \in {Nobody, asked.owner}
        BY <1>1, <1>6
      <3> QED BY <3>1, <3>2
    <2> QED BY <1>1, <1>2, <1>3, <1>4, <1>6, <2>1 DEF OwnersDistinct, Present
  <1> QED BY <1>1, <1>5, <1>6

LEMMA DistinctKept ==
    ASSUME MediaTyped, OwnersDistinct, [MediaNext]_mvars
    PROVE  OwnersDistinct'
  <1>1. CASE PlayersMove
    BY <1>1, MovesAre, MovesDistinct DEF PlayersMove
  <1>2. CASE Applies
    BY <1>2 DEF Applies, OwnersDistinct, Present, backend
  <1>3. CASE NoNews
    BY <1>3 DEF NoNews, OwnersDistinct, Present, backend
  <1> QED BY <1>1, <1>2, <1>3, MediaSteps, BackendDistinct

-----------------------------------------------------------------------------
(* The media players: signals tell the truth in the end *)

LEMMA Appended ==
    ASSUME MediaTyped, NEW p \in Player, NEW signal, Moved(p, signal)
    PROVE  /\ Len(signals) \in Nat
           /\ DOMAIN signals = 1..Len(signals) /\ DOMAIN signals' = 1 .. Len(signals) + 1
           /\ \A i \in 1..Len(signals) : signals'[i] = signals[i]
           /\ signals'[Len(signals) + 1] = signal
  <1>1. signals \in Seq(Signal) /\ signal \in Signal /\ signals' = Append(signals, signal)
    BY DEF MediaTyped, Moved
  <1> QED BY <1>1, OneMore

LEMMA OwnerMovedTells ==
    ASSUME MediaTyped, OwnersDistinct, NEW p \in Player, NEW o \in Owner \union {Nobody},
           OwnerMoved(p, o), NEW q \in Player, SignalsTrue(q)
    PROVE  SignalsTrue(q)'
  <1> DEFINE signal == [kind |-> "owner", player |-> p, owner |-> o]
  <1>1. PICK n \in Nat : /\ DOMAIN signals = 1..n /\ DOMAIN signals' = 1 .. n + 1
                         /\ \A i \in 1..n : signals'[i] = signals[i]
                         /\ signals'[n + 1] = signal
    BY Appended DEF OwnerMoved
  <1>2. \A j \in 1..n : j \in 1 .. n + 1
    OBVIOUS
  <1>3. signal.kind = "owner" /\ signal.player = p /\ signal.owner = o /\ bus'[p].owner = o
    BY DEF OwnerMoved
  <1>4. UNCHANGED <<at, asked, owners>> /\ (q # p => bus'[q] = bus[q])
    BY DEF OwnerMoved, Moved
  <1> HIDE DEF signal
  <1>5. \A i \in 1..n : TellsOwner(i, q)' = TellsOwner(i, q)
    BY <1>1 DEF TellsOwner
  <1>6. TellsOwner(n + 1, q)' <=> p = q
    BY <1>1, <1>3 DEF TellsOwner
  <1>7. ~TellsStatus(n + 1, q)' /\ signals'[n + 1].kind # "props"
    BY <1>1, <1>3 DEF TellsStatus
  <1>8. CASE q = p
    <2>1. LastOwnerTrue(q)'
      <3> SUFFICES ASSUME NEW i \in 1 .. n + 1,
                          \A j \in 1 .. n + 1 : j > i => ~TellsOwner(j, q)'
                   PROVE  signals'[i].owner = bus'[q].owner
        BY <1>1 DEF LastOwnerTrue
      <3>1. i = n + 1
        BY <1>1, <1>6, <1>8
      <3> QED BY <1>1, <1>3, <1>8, <3>1
    <2>2. ASSUME NEW i \in 1 .. n + 1 PROVE ~TellsStatus(i, q)'
      <3>1. CASE i \in 1..n /\ signals[i].kind = "props"
        <4>5. signals[i] \in Signal /\ i \in DOMAIN signals
          BY <1>1, <3>1 DEF MediaTyped
        <4>1. signals[i].owner \in Owner /\ signals[i].owner <= born
          BY <3>1, <4>5 DEF Signal, OwnersDistinct
        <4>2. o = Nobody \/ o = born + 1
          BY DEF OwnerMoved
        <4>3. signals[i].owner \in Nat /\ signals[i].owner # Nobody /\ born \in Nat
          BY <4>1, OwnersAreNumbers, PlayerNumbers
        <4>4. signals'[i].owner # bus'[q].owner
          BY <1>1, <1>3, <1>8, <3>1, <4>1, <4>2, <4>3
        <4> QED BY <4>4 DEF TellsStatus
      <3>2. CASE i \in 1..n /\ signals[i].kind # "props"
        BY <1>1, <3>2 DEF TellsStatus
      <3> QED BY <1>1, <1>7, <3>1, <3>2
    <2>3. LastStatusTrue(q)'
      BY <1>1, <2>2 DEF LastStatusTrue
    <2>4. FormersFirst(q)'
      <3> SUFFICES ASSUME NEW i \in 1 .. n + 1, signals'[i].kind = "props"
                   PROVE  \E j \in 1 .. n + 1 : j > i /\ TellsOwner(j, q)'
        BY <1>1 DEF FormersFirst
      <3>1. i \in 1..n /\ n + 1 > i /\ n + 1 \in 1 .. n + 1
        BY <1>1, <1>7
      <3> QED BY <1>6, <1>8, <3>1
    <2>5. AskedFirst(q)'
      <3>1. n + 1 \in DOMAIN signals' /\ TellsOwner(n + 1, q)'
        BY <1>1, <1>6, <1>8
      <3>2. \E j \in DOMAIN signals' : TellsOwner(j, q)'
        BY <3>1
      <3> QED BY <3>2 DEF AskedFirst
    <2> QED BY <2>1, <2>3, <2>4, <2>5 DEF SignalsTrue
  <1>9. CASE q # p
    <2>1. \A i \in 1..n : TellsStatus(i, q)' = TellsStatus(i, q)
      BY <1>1, <1>4, <1>9 DEF TellsStatus
    <2>2. LastOwnerTrue(q)'
      <3> SUFFICES ASSUME NEW i \in 1 .. n + 1, TellsOwner(i, q)',
                          \A j \in 1 .. n + 1 : j > i => ~TellsOwner(j, q)'
                   PROVE  signals'[i].owner = bus'[q].owner
        BY <1>1 DEF LastOwnerTrue
      <3>1. i \in 1..n
        BY <1>1, <1>6, <1>9
      <3>2. TellsOwner(i, q) /\ \A j \in 1..n : j > i => ~TellsOwner(j, q)
        BY <1>1, <1>5, <3>1
      <3>3. signals[i].owner = bus[q].owner
        BY <1>1, <3>1, <3>2 DEF SignalsTrue, LastOwnerTrue
      <3> QED BY <1>1, <1>4, <1>9, <3>1, <3>3
    <2>3. LastStatusTrue(q)'
      <3> SUFFICES ASSUME NEW i \in 1 .. n + 1, TellsStatus(i, q)',
                          \A j \in 1 .. n + 1 : j > i => ~TellsStatus(j, q)'
                   PROVE  signals'[i].status = bus'[q].status
        BY <1>1 DEF LastStatusTrue
      <3>1. i \in 1..n
        BY <1>1, <1>7
      <3>2. TellsStatus(i, q) /\ \A j \in 1..n : j > i => ~TellsStatus(j, q)
        BY <1>1, <2>1, <3>1
      <3>3. signals[i].status = bus[q].status
        BY <1>1, <3>1, <3>2 DEF SignalsTrue, LastStatusTrue
      <3> QED BY <1>1, <1>4, <1>9, <3>1, <3>3
    <2>4. FormersFirst(q)'
      <3> SUFFICES ASSUME NEW i \in 1 .. n + 1, NEW former, signals'[i].kind = "props",
                          signals'[i].owner = former, TakenFor(former, q)', former # bus'[q].owner
                   PROVE  \E j \in 1 .. n + 1 : j > i /\ TellsOwner(j, q)'
        BY <1>1 DEF FormersFirst
      <3>1. i \in 1..n
        BY <1>1, <1>7
      <3>2. /\ signals[i].kind = "props" /\ TakenFor(signals[i].owner, q)
            /\ signals[i].owner # bus[q].owner
        BY <1>1, <1>4, <1>9, <3>1 DEF TakenFor
      <3>3. PICK j \in 1..n : j > i /\ TellsOwner(j, q)
        BY <1>1, <3>1, <3>2 DEF SignalsTrue, FormersFirst
      <3> QED BY <1>1, <1>5, <3>3
    <2>5. AskedFirst(q)'
      <3> SUFFICES ASSUME at' = "asks properties", asked'.player = q, asked'.owner # bus'[q].owner
                   PROVE  \E j \in DOMAIN signals' : TellsOwner(j, q)'
        BY DEF AskedFirst
      <3>1. PICK j \in 1..n : TellsOwner(j, q)
        BY <1>1, <1>4, <1>9 DEF SignalsTrue, AskedFirst
      <3>2. TellsOwner(j, q)'
        BY <1>5, <3>1
      <3>3. j \in 1 .. n + 1
        BY <1>2
      <3> QED BY <1>1, <3>2, <3>3
    <2> QED BY <2>2, <2>3, <2>4, <2>5 DEF SignalsTrue
  <1> QED BY <1>8, <1>9

LEMMA StatusMovedTells ==
    ASSUME MediaTyped, OwnersDistinct, NEW p \in Player, NEW shown, StatusMoved(p, shown),
           NEW q \in Player, SignalsTrue(q)
    PROVE  SignalsTrue(q)'
  <1> DEFINE signal == [kind |-> "props", owner |-> bus[p].owner, status |-> shown]
  <1>1. PICK n \in Nat : /\ DOMAIN signals = 1..n /\ DOMAIN signals' = 1 .. n + 1
                         /\ \A i \in 1..n : signals'[i] = signals[i]
                         /\ signals'[n + 1] = signal
    BY Appended DEF StatusMoved
  <1>2. \A j \in 1..n : j \in 1 .. n + 1
    OBVIOUS
  <1>3. signal.kind = "props" /\ signal.owner = bus[p].owner /\ signal.status = shown
    OBVIOUS
  <1>4. /\ UNCHANGED <<at, asked, owners>> /\ (q # p => bus'[q] = bus[q])
        /\ bus'[q].owner = bus[q].owner /\ Present(p)
        /\ bus'[p].status = IF shown = Same THEN bus[p].status ELSE shown
    BY DEF StatusMoved, Moved
  <1> HIDE DEF signal
  <1>5. \A i \in 1..n : /\ TellsOwner(i, q)' = TellsOwner(i, q)
                        /\ TellsStatus(i, q)' = TellsStatus(i, q)
    BY <1>1, <1>4 DEF TellsOwner, TellsStatus
  <1>6. ~TellsOwner(n + 1, q)'
    BY <1>1, <1>3 DEF TellsOwner
  <1>7. TellsStatus(n + 1, q)' <=> p = q /\ shown # Same
    <2>1. bus[p].owner = bus[q].owner => p = q
      BY <1>4 DEF OwnersDistinct
    <2> QED BY <1>1, <1>3, <1>4, <2>1 DEF TellsStatus
  <1>8. LastOwnerTrue(q)'
    <2> SUFFICES ASSUME NEW i \in 1 .. n + 1, TellsOwner(i, q)',
                        \A j \in 1 .. n + 1 : j > i => ~TellsOwner(j, q)'
                 PROVE  signals'[i].owner = bus'[q].owner
      BY <1>1 DEF LastOwnerTrue
    <2>1. i \in 1..n
      BY <1>1, <1>6
    <2>2. TellsOwner(i, q) /\ \A j \in 1..n : j > i => ~TellsOwner(j, q)
      BY <1>1, <1>5, <2>1
    <2>3. signals[i].owner = bus[q].owner
      BY <1>1, <2>1, <2>2 DEF SignalsTrue, LastOwnerTrue
    <2> QED BY <1>1, <1>4, <2>1, <2>3
  <1>9. LastStatusTrue(q)'
    <2> SUFFICES ASSUME NEW i \in 1 .. n + 1, TellsStatus(i, q)',
                        \A j \in 1 .. n + 1 : j > i => ~TellsStatus(j, q)'
                 PROVE  signals'[i].status = bus'[q].status
      BY <1>1 DEF LastStatusTrue
    <2>1. CASE i = n + 1
      BY <1>1, <1>3, <1>4, <1>7, <2>1
    <2>2. CASE i # n + 1
      <3>1. i \in 1..n /\ ~TellsStatus(n + 1, q)'
        BY <1>1, <2>2
      <3>2. TellsStatus(i, q) /\ \A j \in 1..n : j > i => ~TellsStatus(j, q)
        BY <1>1, <1>5, <3>1
      <3>3. signals[i].status = bus[q].status
        BY <1>1, <3>1, <3>2 DEF SignalsTrue, LastStatusTrue
      <3>4. bus'[q].status = bus[q].status
        BY <1>4, <1>7, <3>1
      <3> QED BY <1>1, <3>1, <3>3, <3>4
    <2> QED BY <2>1, <2>2
  <1>10. FormersFirst(q)'
    <2> SUFFICES ASSUME NEW i \in 1 .. n + 1, NEW former, signals'[i].kind = "props",
                        signals'[i].owner = former, TakenFor(former, q)', former # bus'[q].owner
                 PROVE  \E j \in 1 .. n + 1 : j > i /\ TellsOwner(j, q)'
      BY <1>1 DEF FormersFirst
    <2>1. TakenFor(former, q)
      BY <1>4 DEF TakenFor
    <2>2. i # n + 1
      <3>1. TakenFor(bus[p].owner, q) => p = q
        BY <1>4, PlayerNumbers DEF TakenFor, OwnersDistinct
      <3> QED BY <1>1, <1>3, <1>4, <2>1, <3>1
    <2>3. i \in 1..n
      BY <1>1, <2>2
    <2>4. PICK j \in 1..n : j > i /\ TellsOwner(j, q)
      BY <1>1, <1>4, <2>1, <2>3 DEF SignalsTrue, FormersFirst
    <2> QED BY <1>1, <1>5, <2>4
  <1>11. AskedFirst(q)'
    <2> SUFFICES ASSUME at' = "asks properties", asked'.player = q, asked'.owner # bus'[q].owner
                 PROVE  \E j \in DOMAIN signals' : TellsOwner(j, q)'
      BY DEF AskedFirst
    <2>1. PICK j \in 1..n : TellsOwner(j, q)
      BY <1>1, <1>4 DEF SignalsTrue, AskedFirst
    <2>2. TellsOwner(j, q)'
      BY <1>5, <2>1
    <2>3. j \in 1 .. n + 1
      BY <1>2
    <2> QED BY <1>1, <2>2, <2>3
  <1> QED BY <1>8, <1>9, <1>10, <1>11 DEF SignalsTrue

(* Only an answer to GetNameOwner makes the backend take somebody for the  *)
(* owner of a name, and that is the owner.                                 *)
LEMMA BackendTakes ==
    ASSUME MediaTyped, Backend, NEW q \in Player, NEW o \in Owner, TakenFor(o, q)'
    PROVE  TakenFor(o, q) \/ o = bus[q].owner
  <1>1. /\ \/ owners'[o] \in {owners[o], Nobody}
           \/ at = "asks properties" /\ o = asked.owner /\ owners'[o] = asked.player
        /\ OwnerAnswers \/ at' # "asks properties"
    BY BackendOwners
  <1>2. CASE owners'[o] = q
    <2>1. owners'[o] # Nobody
      BY <1>2, PlayerNumbers
    <2> QED BY <1>1, <1>2, <2>1 DEF TakenFor
  <1>3. CASE owners'[o] # q
    <2>1. at' = "asks properties" /\ asked'.player = q /\ asked'.owner = o
      BY <1>3 DEF TakenFor
    <2>2. asked' = [asked EXCEPT !.owner = bus[asked.player].owner]
      BY <1>1, <2>1 DEF OwnerAnswers
    <2>3. asked'.player = asked.player /\ asked'.owner = bus[asked.player].owner
      BY <2>2 DEF MediaTyped, InHand
    <2> QED BY <2>1, <2>3
  <1> QED BY <1>2, <1>3

LEMMA BackendTells ==
    ASSUME MediaTyped, NEW q \in Player, SignalsTrue(q), Backend
    PROVE  SignalsTrue(q)'
  <1>1. /\ bus' = bus
        /\ signals' = signals \/ (signals # <<>> /\ signals' = Tail(signals))
        /\ OwnerAnswers \/ at' # "asks properties"
    BY BackendOwners
  <1>2. PICK k \in {0, 1}, n \in Nat :
            /\ DOMAIN signals = 1..n /\ DOMAIN signals' = 1 .. n - k
            /\ \A i \in 1 .. n - k : i + k \in 1..n /\ signals'[i] = signals[i + k]
    <2>0. signals \in Seq(Signal)
      BY DEF MediaTyped
    <2>1. CASE signals' = signals
      <3>1. Len(signals) \in Nat /\ DOMAIN signals = 1 .. Len(signals)
        BY <2>0
      <3>2. /\ DOMAIN signals' = 1 .. Len(signals) - 0
            /\ \A i \in 1 .. Len(signals) - 0 :
                  i + 0 \in 1 .. Len(signals) /\ signals'[i] = signals[i + 0]
        BY <2>1, <3>1
      <3> QED BY <3>1, <3>2
    <2>2. CASE signals # <<>> /\ signals' = Tail(signals)
      <3>1. /\ Len(signals) \in Nat \ {0} /\ DOMAIN signals = 1 .. Len(signals)
            /\ DOMAIN signals' = 1 .. Len(signals) - 1
            /\ \A i \in DOMAIN signals' : signals'[i] = signals[i + 1]
        BY <2>0, <2>2, OneLess
      <3>2. \A i \in 1 .. Len(signals) - 1 :
                i + 1 \in 1 .. Len(signals) /\ signals'[i] = signals[i + 1]
        BY <3>1
      <3> QED BY <3>1, <3>2
    <2> QED BY <1>1, <2>1, <2>2
  <1>3. ASSUME NEW i \in 1 .. n - k
        PROVE  /\ TellsOwner(i, q)' <=> TellsOwner(i + k, q)
               /\ TellsStatus(i, q)' <=> TellsStatus(i + k, q)
    BY <1>1, <1>2 DEF TellsOwner, TellsStatus
  <1>4. ASSUME NEW i \in 1 .. n - k, NEW j \in 1..n, j > i + k
        PROVE  j - k \in 1 .. n - k /\ j - k > i /\ (j - k) + k = j
    BY <1>4
  <1>5. LastOwnerTrue(q)'
    <2> SUFFICES ASSUME NEW i \in 1 .. n - k, TellsOwner(i, q)',
                        \A j \in 1 .. n - k : j > i => ~TellsOwner(j, q)'
                 PROVE  signals'[i].owner = bus'[q].owner
      BY <1>2 DEF LastOwnerTrue
    <2>1. i + k \in 1..n /\ TellsOwner(i + k, q)
      BY <1>2, <1>3
    <2>2. ASSUME NEW j \in 1..n, j > i + k PROVE ~TellsOwner(j, q)
      <3>1. j - k \in 1 .. n - k /\ j - k > i /\ (j - k) + k = j
        BY <1>4, <2>2
      <3>2. ~TellsOwner(j - k, q)'
        BY <3>1
      <3>3. ~TellsOwner((j - k) + k, q)
        BY <1>3, <3>1, <3>2
      <3> QED BY <3>1, <3>3
    <2>3. signals[i + k].owner = bus[q].owner
      BY <1>2, <2>1, <2>2 DEF SignalsTrue, LastOwnerTrue
    <2> QED BY <1>1, <1>2, <2>3
  <1>6. LastStatusTrue(q)'
    <2> SUFFICES ASSUME NEW i \in 1 .. n - k, TellsStatus(i, q)',
                        \A j \in 1 .. n - k : j > i => ~TellsStatus(j, q)'
                 PROVE  signals'[i].status = bus'[q].status
      BY <1>2 DEF LastStatusTrue
    <2>1. i + k \in 1..n /\ TellsStatus(i + k, q)
      BY <1>2, <1>3
    <2>2. ASSUME NEW j \in 1..n, j > i + k PROVE ~TellsStatus(j, q)
      <3>1. j - k \in 1 .. n - k /\ j - k > i /\ (j - k) + k = j
        BY <1>4, <2>2
      <3>2. ~TellsStatus(j - k, q)'
        BY <3>1
      <3>3. ~TellsStatus((j - k) + k, q)
        BY <1>3, <3>1, <3>2
      <3> QED BY <3>1, <3>3
    <2>3. signals[i + k].status = bus[q].status
      BY <1>2, <2>1, <2>2 DEF SignalsTrue, LastStatusTrue
    <2> QED BY <1>1, <1>2, <2>3
  <1>7. FormersFirst(q)'
    <2> SUFFICES ASSUME NEW i \in 1 .. n - k, NEW former, signals'[i].kind = "props",
                        signals'[i].owner = former, TakenFor(former, q)', former # bus'[q].owner
                 PROVE  \E j \in 1 .. n - k : j > i /\ TellsOwner(j, q)'
      BY <1>2 DEF FormersFirst
    <2>1. i + k \in 1..n /\ signals[i + k].kind = "props" /\ signals[i + k].owner = former
      BY <1>2
    <2>2. signals[i + k] \in Signal
      BY <1>2, <2>1 DEF MediaTyped
    <2>3. former \in Owner
      BY <2>1, <2>2 DEF Signal
    <2>4. TakenFor(former, q) /\ former # bus[q].owner
      BY <1>1, <2>3, BackendTakes
    <2>5. PICK j \in 1..n : j > i + k /\ TellsOwner(j, q)
      BY <1>2, <2>1, <2>4 DEF SignalsTrue, FormersFirst
    <2>6. j - k \in 1 .. n - k /\ j - k > i /\ (j - k) + k = j
      BY <1>4, <2>5
    <2>7. TellsOwner(j - k, q)'
      BY <1>3, <2>5, <2>6
    <2> QED BY <2>6, <2>7
  <1>8. AskedFirst(q)'
    <2> SUFFICES ASSUME at' = "asks properties", asked'.player = q
                 PROVE  asked'.owner = bus'[q].owner
      BY DEF AskedFirst
    <2>1. asked' = [asked EXCEPT !.owner = bus[asked.player].owner]
      BY <1>1 DEF OwnerAnswers
    <2> QED BY <1>1, <2>1 DEF MediaTyped, InHand
  <1> QED BY <1>5, <1>6, <1>7, <1>8 DEF SignalsTrue

LEMMA SignalsTrueKept ==
    ASSUME MediaTyped, OwnersDistinct, NEW q \in Player, SignalsTrue(q), [MediaNext]_mvars
    PROVE  SignalsTrue(q)'
  <1>1. CASE PlayersMove
    BY <1>1, MovesAre, OwnerMovedTells, StatusMovedTells DEF PlayersMove
  <1>2. CASE Applies \/ NoNews
    <2>1. UNCHANGED <<signals, bus, at, asked, owners>>
      BY <1>2 DEF Applies, NoNews, backend
    <2> QED BY <2>1 DEF SignalsTrue, LastOwnerTrue, LastStatusTrue, FormersFirst, AskedFirst,
                        TellsOwner, TellsStatus, TakenFor
  <1> QED BY <1>1, <1>2, MediaSteps, BackendTells

-----------------------------------------------------------------------------
(* The media players: nobody is forgotten *)

OwnerTold(p) == \E i \in DOMAIN signals : TellsOwner(i, p)

StatusTold(p) == \E i \in DOMAIN signals : TellsStatus(i, p)

LEMMA MovesKnown ==
    ASSUME MediaTyped, NEW p \in Player,
           \/ \E o \in Owner \union {Nobody} : OwnerMoved(p, o)
           \/ \E shown \in {"playing", "paused", Same} : StatusMoved(p, shown),
           NEW q \in Player, PlayerKnown(q)
    PROVE  PlayerKnown(q)'
  <1>1. PICK signal : Moved(p, signal)
    BY DEF OwnerMoved, StatusMoved
  <1>2. PICK n \in Nat : /\ DOMAIN signals = 1..n /\ DOMAIN signals' = 1 .. n + 1
                         /\ \A i \in 1..n : signals'[i] = signals[i]
                         /\ signals'[n + 1] = signal
    BY <1>1, Appended
  <1>3. UNCHANGED <<at, listed, asked, owners, state>> /\ (q # p => bus'[q] = bus[q])
    BY <1>1 DEF Moved
  <1>4. ASSUME OwnerTold(q) PROVE OwnerTold(q)'
    <2>1. PICK i \in 1..n : TellsOwner(i, q)
      BY <1>2, <1>4 DEF OwnerTold
    <2>2. TellsOwner(i, q)' /\ i \in DOMAIN signals'
      BY <1>2, <2>1 DEF TellsOwner
    <2> QED BY <2>2 DEF OwnerTold
  <1>5. ASSUME StatusTold(q), bus'[q].owner = bus[q].owner PROVE StatusTold(q)'
    <2>1. PICK i \in 1..n : TellsStatus(i, q)
      BY <1>2, <1>5 DEF StatusTold
    <2>2. TellsStatus(i, q)' /\ i \in DOMAIN signals'
      BY <1>2, <1>5, <2>1 DEF TellsStatus
    <2> QED BY <2>2 DEF StatusTold
  <1>6. ASSUME NEW o, OwnerMoved(p, o), q = p PROVE OwnerTold(q)'
    <2>1. signals' = Append(signals, [kind |-> "owner", player |-> p, owner |-> o])
      BY <1>6 DEF OwnerMoved, Moved
    <2>2. signals'[n + 1].kind = "owner" /\ signals'[n + 1].player = p
      <3>1. signals \in Seq(Signal) /\ Len(signals) = n
        BY <1>2 DEF MediaTyped
      <3> QED BY <2>1, <3>1
    <2>3. TellsOwner(n + 1, q)' /\ n + 1 \in DOMAIN signals'
      BY <1>2, <1>6, <2>2 DEF TellsOwner
    <2> QED BY <2>3 DEF OwnerTold
  <1>7. ASSUME NEW shown, StatusMoved(p, shown), q = p, ~OwnerTold(q)
        PROVE  PlayerKnown(q)'
    <2>1. /\ signals' = Append(signals, [kind |-> "props", owner |-> bus[p].owner, status |-> shown])
          /\ Present(q) /\ Present(q)' /\ bus'[q].owner = bus[q].owner
          /\ bus'[q].status = IF shown = Same THEN bus[q].status ELSE shown
          /\ unasked' = unasked
      BY <1>7 DEF StatusMoved, Moved, Present
    <2>2. StillAsked(q) \/ q \in unasked \/ Followed(q)
      BY <1>7, <2>1 DEF PlayerKnown, OwnerTold
    <2>3. CASE StillAsked(q) \/ q \in unasked
      BY <1>3, <2>1, <2>3 DEF PlayerKnown, StillAsked
    <2>4. CASE Followed(q)
      <3>1. owners'[bus'[q].owner] = q /\ state'[q] # "vanished"
        BY <1>3, <2>1, <2>4 DEF Followed
      <3>2. CASE shown = Same
        <4>1. bus'[q].status = bus[q].status
          BY <2>1, <3>2
        <4>2. state[q] = bus[q].status \/ StatusTold(q)
          BY <2>4 DEF Followed, StatusTold
        <4>3. state'[q] = bus'[q].status \/ StatusTold(q)'
          BY <1>3, <1>5, <2>1, <4>1, <4>2
        <4> QED BY <2>1, <3>1, <4>3 DEF PlayerKnown, Followed, StatusTold
      <3>3. CASE shown # Same
        <4>1. signals'[n + 1] = [kind |-> "props", owner |-> bus[p].owner, status |-> shown]
          <5>1. signals \in Seq(Signal) /\ Len(signals) = n
            BY <1>2 DEF MediaTyped
          <5> QED BY <2>1, <5>1
        <4>2. TellsStatus(n + 1, q)' /\ n + 1 \in DOMAIN signals'
          BY <1>2, <1>7, <2>1, <3>3, <4>1 DEF TellsStatus
        <4>3. StatusTold(q)'
          BY <4>2 DEF StatusTold
        <4> QED BY <2>1, <3>1, <4>3 DEF PlayerKnown, Followed, StatusTold
      <3> QED BY <3>2, <3>3
    <2> QED BY <2>2, <2>3, <2>4
  <1>8. CASE q # p /\ ~OwnerTold(q)
    <2>1. bus'[q] = bus[q] /\ (q \in unasked => q \in unasked')
      BY <1>3, <1>8 DEF OwnerMoved, StatusMoved
    <2>2. CASE Present(q) /\ (StillAsked(q) \/ q \in unasked)
      BY <1>3, <2>1, <2>2 DEF PlayerKnown, StillAsked, Present
    <2>3. CASE Present(q) /\ Followed(q)
      <3>1. owners'[bus'[q].owner] = q /\ state'[q] # "vanished" /\ Present(q)'
        BY <1>3, <2>1, <2>3 DEF Followed, Present
      <3>2. state[q] = bus[q].status \/ StatusTold(q)
        BY <2>3 DEF Followed, StatusTold
      <3>3. state'[q] = bus'[q].status \/ StatusTold(q)'
        BY <1>3, <1>5, <2>1, <3>2
      <3> QED BY <3>1, <3>3 DEF PlayerKnown, Followed, StatusTold
    <2>4. CASE ~Present(q) /\ state[q] = "vanished"
      BY <1>3, <2>1, <2>4 DEF PlayerKnown, Present
    <2> QED BY <1>8, <2>2, <2>3, <2>4 DEF PlayerKnown, OwnerTold
  <1>9. OwnerTold(q)' => PlayerKnown(q)'
    BY DEF PlayerKnown, OwnerTold
  <1> QED BY <1>4, <1>6, <1>7, <1>8, <1>9

(* All but the signal that is taken are still there.                       *)
LEMMA OthersTold ==
    ASSUME MediaTyped, signals # <<>>, signals' = Tail(signals), bus' = bus, NEW q \in Player
    PROVE  /\ 1 \in DOMAIN signals /\ Head(signals) = signals[1] /\ Head(signals) \in Signal
           /\ \A i \in DOMAIN signals : i # 1 => /\ i > 1
                                                 /\ TellsOwner(i, q) => OwnerTold(q)'
                                                 /\ TellsStatus(i, q) => StatusTold(q)'
  <1>1. PICK n \in Nat \ {0} :
            /\ DOMAIN signals = 1..n /\ DOMAIN signals' = 1 .. n - 1
            /\ Head(signals) = signals[1] /\ Head(signals) \in Signal
            /\ \A i \in 1 .. n - 1 : signals'[i] = signals[i + 1]
    BY OneLess DEF MediaTyped
  <1>2. ASSUME NEW i \in 1..n, i # 1
        PROVE  /\ i > 1
               /\ TellsOwner(i, q) => OwnerTold(q)'
               /\ TellsStatus(i, q) => StatusTold(q)'
    <2>1. PICK j \in 1 .. n - 1 : j = i - 1 /\ j + 1 = i /\ i > 1
      BY <1>2
    <2>2. j \in DOMAIN signals' /\ signals'[j] = signals[i]
      BY <1>1, <2>1
    <2>3. TellsOwner(i, q) => TellsOwner(j, q)'
      BY <2>2 DEF TellsOwner
    <2>4. TellsStatus(i, q) => TellsStatus(j, q)'
      BY <2>2 DEF TellsStatus
    <2> QED BY <2>1, <2>2, <2>3, <2>4 DEF OwnerTold, StatusTold
  <1>3. 1 \in 1..n
    OBVIOUS
  <1> QED BY <1>1, <1>2, <1>3

(* The steps that take no signal.                                          *)
LEMMA AsksKnown ==
    ASSUME MediaTyped, NEW q \in Player, PlayerKnown(q),
           Lists \/ AsksNext \/ OwnerAnswers \/ OwnerUnanswered \/ Sending
    PROVE  PlayerKnown(q)'
  <1>1. UNCHANGED <<bus, signals, owners, state>>
    BY DEF Lists, AsksNext, OwnerAnswers, OwnerUnanswered, Sending
  <1>2. /\ OwnerTold(q) => OwnerTold(q)'
        /\ Followed(q) => Followed(q)'
        /\ Present(q)' = Present(q)
    BY <1>1 DEF OwnerTold, Followed, TellsOwner, TellsStatus, Present
  <1>3. CASE OwnerTold(q)
    BY <1>2, <1>3 DEF PlayerKnown, OwnerTold
  <1>4. CASE ~Present(q) /\ state[q] = "vanished"
    BY <1>1, <1>2, <1>4 DEF PlayerKnown
  <1>5. CASE Present(q) /\ (StillAsked(q) \/ q \in unasked \/ Followed(q))
    <2> SUFFICES StillAsked(q) \/ q \in unasked => StillAsked(q)' \/ q \in unasked'
      BY <1>2, <1>5 DEF PlayerKnown
    <2>1. CASE Lists
      BY <1>5, <2>1 DEF Lists, StillAsked
    <2>2. CASE AsksNext
      <3>1. PICK p \in listed : listed' = listed \ {p} /\ AsksAbout(p)
        BY <2>2 DEF AsksNext
      <3> QED BY <2>2, <3>1 DEF StillAsked, AsksAbout, AsksNext, history
    <2>3. CASE OwnerAnswers
      <3>1. asked'.player = asked.player
        BY <2>3 DEF OwnerAnswers, MediaTyped, InHand
      <3> QED BY <2>3, <3>1 DEF OwnerAnswers, StillAsked, history
    <2>4. CASE OwnerUnanswered
      <3>1. /\ at = "asks owner" /\ listed' = listed /\ unasked \subseteq unasked'
            /\ Present(asked.player) => asked.player \in unasked'
        BY <2>4 DEF OwnerUnanswered
      <3> QED BY <1>5, <3>1 DEF StillAsked
    <2>5. CASE Sending
      BY <2>5 DEF Sending, StillAsked, history
    <2> QED BY <2>1, <2>2, <2>3, <2>4, <2>5
  <1> QED BY <1>3, <1>4, <1>5 DEF PlayerKnown, OwnerTold

LEMMA AppearedKnown ==
    ASSUME MediaTyped, OwnersDistinct, NEW q \in Player, SignalsTrue(q), PlayerKnown(q),
           PropertiesAnswer \/ PropertiesUnanswered
    PROVE  PlayerKnown(q)'
  <1>1. PICK shown \in Shown :
            /\ Appeared(shown) /\ shown # "vanished"
            /\ PropertiesAnswer => shown = bus[asked.player].status
    <2>1. CASE PropertiesAnswer
      <3>1. bus[asked.player].status \in {"playing", "paused"}
        BY <2>1 DEF PropertiesAnswer, MediaTyped, InHand
      <3>2. bus[asked.player].status \in Shown /\ bus[asked.player].status # "vanished"
        BY <3>1 DEF Shown, Status
      <3> QED BY <2>1, <3>2 DEF PropertiesAnswer
    <2>2. CASE ~PropertiesAnswer
      <3>1. Appeared("unknown") /\ "unknown" \in Shown
        BY <2>2 DEF PropertiesUnanswered, Shown, Status
      <3> QED BY <2>2, <3>1
    <2> QED BY <2>1, <2>2
  <1>2. at = "asks properties" /\ asked.owner \in Owner /\ asked.player \in Player
    BY DEF PropertiesAnswer, PropertiesUnanswered, MediaTyped, InHand
  <1>3. /\ owners' = [owners EXCEPT ![asked.owner] = asked.player]
        /\ state' = [state EXCEPT ![asked.player] = shown]
        /\ UNCHANGED <<bus, signals, listed>>
    BY <1>1 DEF Appeared
  <1>4. /\ OwnerTold(q) => OwnerTold(q)'
        /\ StatusTold(q) => StatusTold(q)'
        /\ Present(q)' = Present(q)
    BY <1>3 DEF OwnerTold, StatusTold, TellsOwner, TellsStatus, Present
  <1>5. CASE OwnerTold(q)
    BY <1>4, <1>5 DEF PlayerKnown, OwnerTold
  <1>6. CASE ~OwnerTold(q) /\ q = asked.player
    <2>1. asked.owner = bus[q].owner
      BY <1>2, <1>6 DEF SignalsTrue, AskedFirst, OwnerTold
    <2>2. Present(q)
      BY <1>2, <2>1, PlayerNumbers DEF Present
    <2>3. owners'[bus'[q].owner] = q /\ state'[q] = shown
      BY <1>2, <1>3, <1>6, <2>1 DEF MediaTyped
    <2>4. CASE PropertiesAnswer
      BY <1>1, <1>3, <1>4, <1>6, <2>2, <2>3, <2>4 DEF PlayerKnown, Followed
    <2>5. CASE PropertiesUnanswered
      <3>1. q \in unasked'
        BY <1>6, <2>2, <2>5 DEF PropertiesUnanswered
      <3> QED BY <1>4, <2>2, <3>1 DEF PlayerKnown
    <2> QED BY <2>4, <2>5
  <1>7. CASE ~OwnerTold(q) /\ q # asked.player
    <2>1. bus[q].owner # asked.owner
      BY <1>2, <1>7 DEF OwnersDistinct
    <2>2. state'[q] = state[q] /\ (Present(q) => owners'[bus'[q].owner] = owners[bus[q].owner])
      BY <1>2, <1>3, <2>1, <1>7 DEF MediaTyped, Present
    <2>3. q \in unasked => q \in unasked'
      BY <1>7 DEF PropertiesAnswer, PropertiesUnanswered
    <2>4. Present(q) /\ Followed(q) => Followed(q)'
      BY <1>3, <1>4, <2>2 DEF Followed, StatusTold
    <2>5. StillAsked(q) => StillAsked(q)'
      BY <1>2, <1>3, <1>7 DEF StillAsked
    <2> QED BY <1>4, <1>7, <2>2, <2>3, <2>4, <2>5 DEF PlayerKnown, OwnerTold
  <1> QED BY <1>5, <1>6, <1>7

LEMMA HandlesOwnerKnown ==
    ASSUME MediaTyped, NEW q \in Player, SignalsTrue(q), PlayerKnown(q),
           HandlesOwner \/ HandlesVanish
    PROVE  PlayerKnown(q)'
  <1> DEFINE p == Head(signals).player
             o == Head(signals).owner
  <1>1. /\ at = "takes" /\ listed = {} /\ UNCHANGED <<bus, listed, unasked>>
        /\ signals # <<>> /\ signals' = Tail(signals) /\ Head(signals).kind = "owner"
    BY DEF HandlesOwner, HandlesVanish, TakesSignal, history
  <1>2. /\ 1 \in DOMAIN signals /\ Head(signals) = signals[1] /\ Head(signals) \in Signal
        /\ \A i \in DOMAIN signals : i # 1 => /\ i > 1
                                              /\ TellsOwner(i, q) => OwnerTold(q)'
                                              /\ TellsStatus(i, q) => StatusTold(q)'
    BY <1>1, OthersTold
  <1>3. p \in Player
    BY <1>1, <1>2 DEF Signal
  <1>4. Present(q)' = Present(q)
    BY <1>1 DEF Present
  <1>5. CASE OwnerTold(q)'
    BY <1>5 DEF PlayerKnown, OwnerTold
  <1>6. CASE ~OwnerTold(q)' /\ p = q
    <2>1. TellsOwner(1, q) /\ \A j \in DOMAIN signals : j > 1 => ~TellsOwner(j, q)
      BY <1>1, <1>2, <1>6 DEF TellsOwner
    <2>2. o = bus[q].owner
      BY <1>2, <2>1 DEF SignalsTrue, LastOwnerTrue
    <2>3. CASE HandlesOwner
      <3>1. Present(q) /\ at' = "asks owner" /\ asked'.player = q
        BY <1>6, <2>2, <2>3 DEF HandlesOwner, AsksAbout, Present
      <3> QED BY <1>4, <3>1 DEF PlayerKnown, StillAsked
    <2>4. CASE HandlesVanish
      <3>1. ~Present(q) /\ state' = [state EXCEPT ![q] = "vanished"]
        BY <1>6, <2>2, <2>4 DEF HandlesVanish, Present
      <3>2. state'[q] = "vanished"
        BY <3>1 DEF MediaTyped
      <3> QED BY <1>4, <3>1, <3>2 DEF PlayerKnown
    <2> QED BY <2>3, <2>4
  <1>7. CASE ~OwnerTold(q)' /\ p # q
    <2>1. ~OwnerTold(q)
      BY <1>2, <1>7 DEF OwnerTold, TellsOwner
    <2>2. StatusTold(q) => StatusTold(q)'
      BY <1>1, <1>2 DEF StatusTold, TellsStatus
    <2>3. ~StillAsked(q)
      BY <1>1 DEF StillAsked
    <2>4. state'[q] = state[q]
      <3>1. state' = state \/ state' = [state EXCEPT ![p] = "vanished"]
        BY DEF HandlesOwner, HandlesVanish
      <3> QED BY <1>3, <1>7, <3>1 DEF MediaTyped
    <2>5. ASSUME Present(q), owners[bus[q].owner] = q PROVE owners'[bus'[q].owner] = q
      <3>1. \/ owners' = owners
            \/ owners' = [x \in Owner |-> IF owners[x] = p THEN Nobody ELSE owners[x]]
        BY DEF HandlesOwner, HandlesVanish
      <3>2. bus[q].owner \in Owner
        BY <2>5 DEF MediaTyped, Present
      <3> QED BY <1>1, <1>7, <2>5, <3>1, <3>2
    <2>6. Present(q) /\ Followed(q) => Followed(q)'
      BY <1>1, <2>2, <2>4, <2>5 DEF Followed, StatusTold
    <2> QED BY <1>1, <1>4, <2>1, <2>3, <2>4, <2>6 DEF PlayerKnown, OwnerTold
  <1> QED BY <1>5, <1>6, <1>7

LEMMA HandlesPropsKnown ==
    ASSUME MediaTyped, NEW q \in Player, SignalsTrue(q), PlayerKnown(q), HandlesProps
    PROVE  PlayerKnown(q)'
  <1> DEFINE o == Head(signals).owner
             p == owners[o]
             shown == Head(signals).status
  <1>1. /\ at = "takes" /\ listed = {} /\ UNCHANGED <<bus, listed, unasked, owners>>
        /\ signals # <<>> /\ signals' = Tail(signals) /\ Head(signals).kind = "props"
    BY DEF HandlesProps, TakesSignal, history
  <1>2. /\ 1 \in DOMAIN signals /\ Head(signals) = signals[1] /\ Head(signals) \in Signal
        /\ \A i \in DOMAIN signals : i # 1 => /\ i > 1
                                              /\ TellsOwner(i, q) => OwnerTold(q)'
                                              /\ TellsStatus(i, q) => StatusTold(q)'
    BY <1>1, OthersTold
  <1>3. o \in Owner /\ shown \in {"playing", "paused", Same}
    BY <1>1, <1>2 DEF Signal
  <1>4. Present(q)' = Present(q)
    BY <1>1 DEF Present
  <1>5. OwnerTold(q) => OwnerTold(q)'
    BY <1>1, <1>2 DEF OwnerTold, TellsOwner
  <1>6. CASE OwnerTold(q)'
    BY <1>6 DEF PlayerKnown, OwnerTold
  <1>7. CASE ~OwnerTold(q) /\ p # q
    <2>1. state'[q] = state[q]
      <3>1. state' = state \/ state' = [state EXCEPT ![p] = Merged(p, shown)]
        BY DEF HandlesProps
      <3> QED BY <1>7, <3>1 DEF MediaTyped
    <2>2. ASSUME Followed(q) PROVE Followed(q)'
      <3>1. StatusTold(q) => StatusTold(q)'
        BY <1>1, <1>2, <1>7, <2>2 DEF StatusTold, TellsStatus, Followed
      <3> QED BY <1>1, <2>1, <2>2, <3>1 DEF Followed, StatusTold
    <2>3. ~StillAsked(q)
      BY <1>1 DEF StillAsked
    <2> QED BY <1>1, <1>4, <1>7, <2>1, <2>2, <2>3 DEF PlayerKnown, OwnerTold
  <1>8. CASE ~OwnerTold(q) /\ p = q
    <2>1. o = bus[q].owner
      <3>1. signals[1].kind = "props" /\ TakenFor(signals[1].owner, q)
        BY <1>1, <1>2, <1>8 DEF TakenFor
      <3> QED BY <1>2, <1>8, <3>1 DEF SignalsTrue, FormersFirst, OwnerTold
    <2>2. Present(q) /\ ~StillAsked(q)
      BY <1>1, <1>3, <2>1, PlayerNumbers DEF Present, StillAsked
    <2>3. state' = [state EXCEPT ![q] = Merged(q, shown)]
      BY <1>8, PlayerNumbers DEF HandlesProps
    <2>4. state'[q] = Merged(q, shown)
      BY <2>3 DEF MediaTyped
    <2>5. CASE q \in unasked
      BY <1>1, <1>4, <2>2, <2>5 DEF PlayerKnown
    <2>6. CASE q \notin unasked
      <3>1. Followed(q)
        BY <1>8, <2>2, <2>6 DEF PlayerKnown, OwnerTold
      <3>2. CASE shown = Same
        <4>1. state'[q] = state[q]
          BY <2>4, <3>1, <3>2 DEF Merged, Followed
        <4>2. StatusTold(q) => StatusTold(q)'
          BY <1>2, <3>2 DEF StatusTold, TellsStatus
        <4> QED BY <1>1, <1>4, <2>2, <3>1, <4>1, <4>2 DEF PlayerKnown, Followed, StatusTold
      <3>3. CASE shown # Same
        <4>1. state'[q] = shown /\ shown # "vanished"
          <5>1. shown \in {"playing", "paused"}
            BY <1>3, <3>3
          <5>2. Merged(q, shown) = shown
            BY <3>3 DEF Merged
          <5> QED BY <2>4, <5>1, <5>2
        <4>2. TellsStatus(1, q)
          BY <1>1, <1>2, <2>1, <3>3 DEF TellsStatus
        <4>3. ~StatusTold(q)' => shown = bus[q].status
          BY <1>2, <4>2 DEF SignalsTrue, LastStatusTrue
        <4> QED BY <1>1, <1>4, <2>2, <3>1, <4>1, <4>3 DEF PlayerKnown, Followed, StatusTold
      <3> QED BY <3>2, <3>3
    <2> QED BY <2>5, <2>6
  <1> QED BY <1>5, <1>6, <1>7, <1>8

LEMMA KnownKept ==
    ASSUME MediaTyped, OwnersDistinct, NEW q \in Player, SignalsTrue(q), PlayerKnown(q),
           [MediaNext]_mvars
    PROVE  PlayerKnown(q)'
  <1>1. CASE PlayersMove
    BY <1>1, MovesAre, MovesKnown DEF PlayersMove
  <1>2. CASE Backend
    BY <1>2, AsksKnown, AppearedKnown, HandlesOwnerKnown, HandlesPropsKnown DEF Backend
  <1>3. CASE Applies \/ NoNews
    <2>1. UNCHANGED <<signals, bus, at, asked, owners, listed, state, unasked>>
      BY <1>3 DEF Applies, NoNews, backend, history
    <2> QED BY <2>1 DEF PlayerKnown, TellsOwner, TellsStatus, Present, StillAsked, Followed
  <1> QED BY <1>1, <1>2, <1>3, MediaSteps

-----------------------------------------------------------------------------
(* The media players: the theorems *)

LEMMA MediaFirst == MediaInit => MediaInv
  <1> SUFFICES ASSUME MediaInit PROVE MediaInv
    OBVIOUS
  <1>1. \A p \in Player : bus[p] \in [owner : {Nobody} \union Player, status : {"playing", "paused"}]
    BY DEF MediaInit
  <1>2. \A p \in Player : bus[p].owner = p \/ bus[p].owner = Nobody
    BY DEF MediaInit
  <1>3. MediaTyped
    <2>1. bus \in [Player -> [owner : Owner \union {Nobody}, status : {"playing", "paused"}]]
      BY PlayerNumbers DEF MediaInit
    <2>2. /\ changes \in 0 .. MaxChanges /\ born \in Players .. Players + changes
          /\ signals \in Seq(Signal) /\ events \in Seq(MediaEvent) /\ listed \subseteq Player
      BY PlayerNumbers DEF MediaInit
    <2>3. InHand
      BY DEF MediaInit, InHand, NoOne
    <2>4. /\ state \in [Player -> Shown] /\ known \in [Player -> Shown]
          /\ owners \in [Owner -> Player \union {Nobody}]
      BY DEF MediaInit, Shown
    <2> QED BY <2>1, <2>2, <2>3, <2>4 DEF MediaTyped
  <1>4. /\ signals = <<>> /\ events = <<>> /\ at = "lists" /\ asked.owner = Nobody
        /\ \A o \in Owner : owners[o] = Nobody
        /\ \A p \in Player : state[p] = "vanished" /\ known[p] = "vanished"
    BY DEF MediaInit, NoOne
  <1>5. DOMAIN signals = {} /\ DOMAIN events = {}
    BY <1>4
  <1>6. OwnersDistinct
    <2>1. \A p \in Player : p <= Players /\ Nobody <= Players /\ born = Players
      BY MediaTrackerAssumption DEF Player, Nobody, MediaInit
    <2>2. Nobody <= born
      BY MediaTrackerAssumption DEF Nobody, MediaInit
    <2>3. \A p \in Player : bus[p].owner <= born
      BY <1>2, <2>1
    <2>4. \A p \in Player, q \in Player : bus[p].owner = bus[q].owner /\ Present(p) => p = q
      BY <1>2 DEF Present
    <2>5. \A p \in Player : Present(p) => owners[bus[p].owner] = Nobody
      BY <1>3, <1>4 DEF MediaTyped, Present
    <2> QED BY <1>4, <1>5, <2>2, <2>3, <2>4, <2>5 DEF OwnersDistinct
  <1>7. ASSUME NEW p \in Player PROVE Told(p) /\ SignalsTrue(p) /\ PlayerKnown(p)
    <2>1. Told(p)
      BY <1>4, <1>5 DEF Told, Holds
    <2>2. SignalsTrue(p)
      BY <1>4, <1>5 DEF SignalsTrue, LastOwnerTrue, LastStatusTrue, FormersFirst, AskedFirst
    <2>3. PlayerKnown(p)
      BY <1>4 DEF PlayerKnown, StillAsked
    <2> QED BY <2>1, <2>2, <2>3
  <1> QED BY <1>3, <1>6, <1>7 DEF MediaInv

(* When nothing is on its way the tracker knows every player that no call  *)
(* about has timed out, for any number of players, owners that replace     *)
(* each other while they are discovered, and signals that wait.            *)
THEOREM PlayersAreKnown == MediaSpec => []KnowsThePlayers
  <1>1. MediaInit => MediaInv
    BY MediaFirst
  <1>2. MediaInv /\ [MediaNext]_mvars => MediaInv'
    BY MediaTypesKept, ToldKept, DistinctKept, SignalsTrueKept, KnownKept DEF MediaInv
  <1>3. MediaInv => KnowsThePlayers
    <2> SUFFICES ASSUME MediaInv, Settled, NEW p \in Player, p \notin unasked
                 PROVE  known[p] = IF Present(p) THEN bus[p].status ELSE "vanished"
      BY DEF KnowsThePlayers
    <2>1. DOMAIN signals = {} /\ DOMAIN events = {} /\ at = "takes" /\ listed = {}
      BY DEF Settled
    <2>2. known[p] = state[p]
      BY <2>1 DEF MediaInv, Told, Holds
    <2>3. PlayerKnown(p) /\ ~StillAsked(p)
      BY <2>1 DEF MediaInv, StillAsked
    <2> QED BY <2>1, <2>2, <2>3 DEF PlayerKnown, Followed
  <1> QED BY <1>1, <1>2, <1>3, PTL DEF MediaSpec

-----------------------------------------------------------------------------
(* The media players: rankings *)

Rank == [Player -> SUBSET Place]

(* The ranking once p, whose status was another, shows a status or is gone. *)
RankAfter(rank, p, old, new) ==
    IF new = "vanished" THEN Removed(rank, p)
    ELSE IF new = "playing" /\ old # "playing" THEN Activated(rank, p)
    ELSE rank

LEMMA RankTyped ==
    ASSUME NEW rank \in Rank, NEW p \in Player, NEW old, NEW new
    PROVE  RankAfter(rank, p, old, new) \in Rank
  <1>1. Removed(rank, p) \in Rank
    BY DEF Removed, Rank, Place
  <1>2. Activated(rank, p) \in Rank
    BY DEF Activated, Rank
  <1> QED BY <1>1, <1>2 DEF RankAfter

(* Who is behind whom when p is activated or removed. *)
LEMMA RankPairs ==
    ASSUME NEW rank \in Rank, NEW p \in Player, NEW a \in Player, NEW b \in Place
    PROVE  /\ b \in Activated(rank, p)[a] <=> b # p /\ (a = p \/ b \in rank[a])
           /\ b \in Removed(rank, p)[a]
                  <=> a # p /\ Nobody \in rank[a] /\ (b = p \/ b \in rank[a])
  BY DEF Activated, Removed, Rank, Place

-----------------------------------------------------------------------------
(* The media players: what the tracker will have heard *)

Belief == [known : [Player -> Shown], rank : Rank]

Heard(belief, e) ==
    [known |-> [belief.known EXCEPT ![e.player] = e.status],
     rank  |-> RankAfter(belief.rank, e.player, belief.known[e.player], e.status)]

(* The events in s lead a tracker from one belief to another. *)
Convinces(s, from, to) ==
    \E way \in [0 .. Len(s) -> Belief] :
        /\ way[0] = from /\ way[Len(s)] = to
        /\ \A i \in 1 .. Len(s) : way[i] = Heard(way[i - 1], s[i])

LEMMA HeardTyped ==
    ASSUME NEW belief \in Belief, NEW e \in MediaEvent
    PROVE  Heard(belief, e) \in Belief
  <1>1. e.player \in Player /\ e.status \in Shown
    BY DEF MediaEvent
  <1>2. RankAfter(belief.rank, e.player, belief.known[e.player], e.status) \in Rank
    BY <1>1, RankTyped DEF Belief
  <1> QED BY <1>1, <1>2 DEF Heard, Belief

LEMMA ConvincesMore ==
    ASSUME NEW s \in Seq(MediaEvent), NEW e \in MediaEvent, NEW from, NEW to,
           Convinces(s, from, to)
    PROVE  Convinces(Append(s, e), from, Heard(to, e))
  <1> DEFINE n == Len(s)
             t == Append(s, e)
  <1>1. PICK way \in [0 .. n -> Belief] :
            /\ way[0] = from /\ way[n] = to
            /\ \A i \in 1 .. n : way[i] = Heard(way[i - 1], s[i])
    BY DEF Convinces
  <1>2. n \in Nat /\ Len(t) = n + 1 /\ t[n + 1] = e /\ \A i \in 1 .. n : t[i] = s[i]
    OBVIOUS
  <1> HIDE DEF n, t
  <1>3. Heard(to, e) \in Belief
    BY <1>1, <1>2, HeardTyped
  <1> DEFINE next == [i \in 0 .. n + 1 |-> IF i = n + 1 THEN Heard(to, e) ELSE way[i]]
  <1>4. next \in [0 .. n + 1 -> Belief]
    <2> SUFFICES ASSUME NEW i \in 0 .. n + 1, i # n + 1 PROVE i \in 0 .. n
      BY <1>1, <1>3
    <2> QED BY <1>2
  <1>5. next[0] = from /\ next[n + 1] = Heard(to, e)
    BY <1>1, <1>2
  <1>6. ASSUME NEW i \in 1 .. n + 1 PROVE next[i] = Heard(next[i - 1], t[i])
    <2>1. CASE i = n + 1
      <3>1. next[i] = Heard(to, e) /\ t[i] = e
        BY <1>2, <2>1
      <3>2. i - 1 = n /\ n \in 0 .. n + 1 /\ n # n + 1
        BY <1>2, <2>1
      <3>3. next[i - 1] = way[n]
        BY <3>2
      <3> QED BY <1>1, <3>1, <3>3
    <2>2. CASE i # n + 1
      <3>1. i \in 1 .. n /\ i \in 0 .. n + 1 /\ i - 1 \in 0 .. n + 1 /\ i - 1 # n + 1
        BY <1>2, <2>2
      <3>2. next[i] = way[i] /\ next[i - 1] = way[i - 1]
        BY <2>2, <3>1
      <3> QED BY <1>1, <1>2, <3>1, <3>2
    <2> QED BY <2>1, <2>2
  <1> HIDE DEF next
  <1>7. /\ next \in [0 .. Len(t) -> Belief] /\ next[0] = from /\ next[Len(t)] = Heard(to, e)
        /\ \A i \in 1 .. Len(t) : next[i] = Heard(next[i - 1], t[i])
    BY <1>2, <1>4, <1>5, <1>6
  <1>8. Convinces(t, from, Heard(to, e))
    BY <1>7 DEF Convinces
  <1> QED BY <1>8 DEF t

LEMMA ConvincesLess ==
    ASSUME NEW s \in Seq(MediaEvent), s # <<>>, NEW from, NEW to, Convinces(s, from, to)
    PROVE  Convinces(Tail(s), Heard(from, Head(s)), to)
  <1> DEFINE n == Len(s)
             t == Tail(s)
  <1>1. PICK way \in [0 .. n -> Belief] :
            /\ way[0] = from /\ way[n] = to
            /\ \A i \in 1 .. n : way[i] = Heard(way[i - 1], s[i])
    BY DEF Convinces
  <1>2. /\ n \in Nat \ {0} /\ Len(t) = n - 1 /\ s[1] = Head(s)
        /\ \A i \in 1 .. n - 1 : t[i] = s[i + 1]
    OBVIOUS
  <1> HIDE DEF n, t
  <1> DEFINE next == [i \in 0 .. n - 1 |-> way[i + 1]]
  <1>3. next \in [0 .. n - 1 -> Belief]
    <2> SUFFICES ASSUME NEW i \in 0 .. n - 1 PROVE i + 1 \in 0 .. n
      BY <1>1
    <2> QED BY <1>2
  <1>4. next[0] = Heard(from, Head(s))
    <2>1. 1 \in 1 .. n /\ 1 - 1 = 0 /\ 0 \in 0 .. n - 1 /\ 0 + 1 = 1
      BY <1>2
    <2> QED BY <1>1, <1>2, <2>1
  <1>5. next[n - 1] = to
    BY <1>1, <1>2
  <1>6. ASSUME NEW i \in 1 .. n - 1 PROVE next[i] = Heard(next[i - 1], t[i])
    <2>1. /\ i + 1 \in 1 .. n /\ (i + 1) - 1 = i /\ i \in 0 .. n - 1 /\ i - 1 \in 0 .. n - 1
          /\ (i - 1) + 1 = i
      BY <1>2
    <2>2. way[i + 1] = Heard(way[i], s[i + 1])
      BY <1>1, <2>1
    <2> QED BY <1>2, <2>1, <2>2
  <1> HIDE DEF next
  <1>7. /\ next \in [0 .. Len(t) -> Belief] /\ next[0] = Heard(from, Head(s)) /\ next[Len(t)] = to
        /\ \A i \in 1 .. Len(t) : next[i] = Heard(next[i - 1], t[i])
    BY <1>2, <1>3, <1>4, <1>5, <1>6
  <1>8. Convinces(t, Heard(from, Head(s)), to)
    BY <1>7 DEF Convinces
  <1> QED BY <1>8 DEF t

LEMMA ConvincedAtOnce ==
    ASSUME NEW belief \in Belief
    PROVE  Convinces(<<>>, belief, belief)
  <1> DEFINE way == [i \in 0 .. 0 |-> belief]
  <1>1. way \in [0 .. Len(<<>>) -> Belief] /\ way[0] = belief /\ way[Len(<<>>)] = belief
    OBVIOUS
  <1>2. \A i \in 1 .. Len(<<>>) : FALSE
    OBVIOUS
  <1> HIDE DEF way
  <1> QED BY <1>1, <1>2 DEF Convinces

-----------------------------------------------------------------------------
(* The media players: what the signals that wait tell *)

(* The bus and the ranking at some time. *)
Moment == [bus  : [Player -> [owner : Owner \union {Nobody}, status : {"playing", "paused"}]],
           rank : Rank]

(* A signal tells of the step from one moment to the next. *)
Tells(m, signal, next) ==
    \/ /\ signal.kind = "owner"
       /\ \E shown \in {"playing", "paused"} :
              /\ signal.owner = Nobody => shown = "paused"
              /\ next.bus = [m.bus EXCEPT ![signal.player] = [owner |-> signal.owner,
                                                              status |-> shown]]
              /\ next.rank = RankAfter(m.rank, signal.player, m.bus[signal.player].status,
                                       IF signal.owner = Nobody THEN "vanished" ELSE shown)
    \/ /\ signal.kind = "props"
       /\ \E p \in Player :
              /\ m.bus[p].owner = signal.owner
              /\ signal.status = "playing" => m.bus[p].status # "playing"
              /\ next.bus = [m.bus EXCEPT ![p].status =
                                IF signal.status = Same THEN @ ELSE signal.status]
              /\ next.rank = RankAfter(m.rank, p, m.bus[p].status, signal.status)

(* A signal of p, which has that owner now, or of its end. *)
IsAbout(signal, p, owner) ==
    IF signal.kind = "owner" THEN signal.player = p ELSE signal.owner = owner

IsEnd(signal, p) == signal.kind = "owner" /\ signal.player = p /\ signal.owner = Nobody

(* Each owner there has been by then has one name. *)
Named(m, names, last) ==
    \A p \in Player : IF m.bus[p].owner = Nobody
                      THEN m.bus[p].status = "paused"
                      ELSE m.bus[p].owner <= last /\ names[m.bus[p].owner] = p

(* What signals after the i-th of s tell of p, if it has changed, or ended. *)
Foretold(s, i, m, to) ==
    \A p \in Player :
        /\ m.bus[p] = to.bus[p] \/ \E j \in 1 .. Len(s) : j > i /\ IsAbout(s[j], p, to.bus[p].owner)
        /\ \/ to.bus[p].owner # Nobody \/ m.bus[p].owner = Nobody
           \/ \E j \in 1 .. Len(s) : j > i /\ IsEnd(s[j], p)

(* The signals in s tell how one moment came from another. *)
Leads(s, names, last, from, to) ==
    \E way \in [0 .. Len(s) -> Moment] :
        /\ way[0] = from /\ way[Len(s)] = to
        /\ \A i \in 1 .. Len(s) : Tells(way[i - 1], s[i], way[i])
        /\ \A i \in 0 .. Len(s) : Named(way[i], names, last) /\ Foretold(s, i, way[i], to)

(* The next signal, e, tells of a step that leaves the players it is not   *)
(* about as they are.                                                      *)
Continues(names, last, to, e, names2, last2, to2) ==
    /\ e \in Signal /\ to2 \in Moment /\ Tells(to, e, to2)
    /\ last \in Nat /\ last2 \in Nat /\ last <= last2
    /\ \A o \in Owner : o <= last => names2[o] = names[o]
    /\ Named(to2, names2, last2)
    /\ \A p \in Player :
          /\ IsAbout(e, p, to2.bus[p].owner) \/ to2.bus[p] = to.bus[p]
          /\ to2.bus[p].owner # Nobody \/ to.bus[p].owner = Nobody \/ IsEnd(e, p)

LEMMA LeadsMore ==
    ASSUME NEW s \in Seq(Signal), NEW e, NEW names, NEW last, NEW names2, NEW last2,
           NEW from, NEW to, NEW to2,
           Leads(s, names, last, from, to),
           Continues(names, last, to, e, names2, last2, to2)
    PROVE  Leads(Append(s, e), names2, last2, from, to2)
  <1> DEFINE n == Len(s)
             t == Append(s, e)
  <1>1. PICK way \in [0 .. n -> Moment] :
            /\ way[0] = from /\ way[n] = to
            /\ \A i \in 1 .. n : Tells(way[i - 1], s[i], way[i])
            /\ \A i \in 0 .. n : Named(way[i], names, last) /\ Foretold(s, i, way[i], to)
    BY DEF Leads
  <1>11. /\ e \in Signal /\ to2 \in Moment /\ Tells(to, e, to2)
         /\ last \in Nat /\ last2 \in Nat /\ last <= last2
         /\ \A o \in Owner : o <= last => names2[o] = names[o]
         /\ Named(to2, names2, last2)
         /\ \A p \in Player :
               /\ IsAbout(e, p, to2.bus[p].owner) \/ to2.bus[p] = to.bus[p]
               /\ to2.bus[p].owner # Nobody \/ to.bus[p].owner = Nobody \/ IsEnd(e, p)
    BY DEF Continues
  <1>2. n \in Nat /\ Len(t) = n + 1 /\ t[n + 1] = e /\ \A i \in 1 .. n : t[i] = s[i]
    BY <1>11
  <1>3. Len(s) = n
    OBVIOUS
  <1> HIDE DEF n, t
  <1> DEFINE next == [i \in 0 .. n + 1 |-> IF i = n + 1 THEN to2 ELSE way[i]]
  <1>4. next \in [0 .. n + 1 -> Moment]
    <2> SUFFICES ASSUME NEW i \in 0 .. n + 1, i # n + 1 PROVE i \in 0 .. n
      BY <1>1, <1>11
    <2> QED BY <1>2
  <1>5. /\ next[0] = from /\ next[n + 1] = to2 /\ next[n] = to
        /\ \A i \in 0 .. n : i \in 0 .. n + 1 /\ i # n + 1 /\ next[i] = way[i]
    BY <1>1, <1>2
  <1> HIDE DEF next
  <1>6. ASSUME NEW i \in 1 .. n + 1 PROVE Tells(next[i - 1], t[i], next[i])
    <2>1. CASE i = n + 1
      <3>1. i - 1 = n /\ t[i] = e
        BY <1>2, <2>1
      <3> QED BY <1>5, <1>11, <2>1, <3>1
    <2>2. CASE i # n + 1
      <3>1. i \in 1 .. n /\ i \in 0 .. n /\ i - 1 \in 0 .. n
        BY <1>2, <2>2
      <3> QED BY <1>1, <1>2, <1>5, <3>1
    <2> QED BY <2>1, <2>2
  <1>7. ASSUME NEW m \in Moment, Named(m, names, last) PROVE Named(m, names2, last2)
    <2> SUFFICES ASSUME NEW p \in Player, m.bus[p].owner # Nobody
                 PROVE  m.bus[p].owner <= last2 /\ names2[m.bus[p].owner] = p
      BY <1>7 DEF Named
    <2>1. m.bus[p].owner \in Owner /\ m.bus[p].owner <= last /\ names[m.bus[p].owner] = p
      BY <1>7 DEF Named, Moment
    <2>2. m.bus[p].owner \in Nat
      BY <2>1, PlayerNumbers
    <2>3. m.bus[p].owner <= last2
      BY <1>11, <2>1, <2>2
    <2>4. names2[m.bus[p].owner] = names[m.bus[p].owner]
      BY <1>11, <2>1
    <2> QED BY <2>1, <2>3, <2>4
  <1>8. ASSUME NEW i \in 0 .. n, NEW m, Foretold(s, i, m, to) PROVE Foretold(t, i, m, to2)
    <2> SUFFICES ASSUME NEW p \in Player
                 PROVE  /\ \/ m.bus[p] = to2.bus[p]
                           \/ \E j \in 1 .. n + 1 : j > i /\ IsAbout(t[j], p, to2.bus[p].owner)
                        /\ \/ to2.bus[p].owner # Nobody \/ m.bus[p].owner = Nobody
                           \/ \E j \in 1 .. n + 1 : j > i /\ IsEnd(t[j], p)
      BY <1>2 DEF Foretold
    <2>1. n + 1 \in 1 .. n + 1 /\ n + 1 > i /\ \A j \in 1 .. n : j \in 1 .. n + 1
      BY <1>2
    <2>2. /\ m.bus[p] = to.bus[p] \/ \E j \in 1 .. n : j > i /\ IsAbout(s[j], p, to.bus[p].owner)
          /\ \/ to.bus[p].owner # Nobody \/ m.bus[p].owner = Nobody
             \/ \E j \in 1 .. n : j > i /\ IsEnd(s[j], p)
      BY <1>3, <1>8 DEF Foretold
    <2>3. CASE IsAbout(e, p, to2.bus[p].owner) /\ IsEnd(e, p)
      BY <1>2, <2>1, <2>3
    <2>4. CASE to2.bus[p] = to.bus[p]
      BY <1>2, <2>1, <2>2, <2>4
    <2>5. CASE IsAbout(e, p, to2.bus[p].owner) /\ ~IsEnd(e, p)
      BY <1>2, <1>11, <2>1, <2>2, <2>5
    <2> QED BY <1>11, <2>3, <2>4, <2>5
  <1>9. ASSUME NEW i \in 0 .. n + 1 PROVE Named(next[i], names2, last2) /\ Foretold(t, i, next[i], to2)
    <2>1. CASE i = n + 1
      BY <1>5, <1>11, <2>1 DEF Foretold
    <2>2. CASE i # n + 1
      <3>1. i \in 0 .. n
        BY <1>2, <2>2
      <3>2. next[i] = way[i] /\ way[i] \in Moment
        BY <1>1, <1>5, <3>1
      <3> QED BY <1>1, <1>7, <1>8, <3>1, <3>2
    <2> QED BY <2>1, <2>2
  <1>10. Leads(t, names2, last2, from, to2)
    <2>1. /\ next \in [0 .. Len(t) -> Moment] /\ next[0] = from /\ next[Len(t)] = to2
          /\ \A i \in 1 .. Len(t) : Tells(next[i - 1], t[i], next[i])
          /\ \A i \in 0 .. Len(t) : Named(next[i], names2, last2) /\ Foretold(t, i, next[i], to2)
      BY <1>2, <1>4, <1>5, <1>6, <1>9
    <2> QED BY <2>1 DEF Leads
  <1> QED BY <1>10 DEF t

LEMMA LeadsLess ==
    ASSUME NEW s \in Seq(Signal), s # <<>>, NEW names, NEW last, NEW from, NEW to,
           Leads(s, names, last, from, to)
    PROVE  \E m \in Moment : Tells(from, Head(s), m) /\ Leads(Tail(s), names, last, m, to)
  <1> DEFINE n == Len(s)
             t == Tail(s)
  <1>1. PICK way \in [0 .. n -> Moment] :
            /\ way[0] = from /\ way[n] = to
            /\ \A i \in 1 .. n : Tells(way[i - 1], s[i], way[i])
            /\ \A i \in 0 .. n : Named(way[i], names, last) /\ Foretold(s, i, way[i], to)
    BY DEF Leads
  <1>2. /\ n \in Nat \ {0} /\ Len(t) = n - 1 /\ s[1] = Head(s)
        /\ \A i \in 1 .. n - 1 : t[i] = s[i + 1]
    OBVIOUS
  <1>3. Len(s) = n
    OBVIOUS
  <1> HIDE DEF n, t
  <1> DEFINE next == [i \in 0 .. n - 1 |-> way[i + 1]]
  <1>4. next \in [0 .. n - 1 -> Moment]
    <2> SUFFICES ASSUME NEW i \in 0 .. n - 1 PROVE i + 1 \in 0 .. n
      BY <1>1
    <2> QED BY <1>2
  <1>5. next[0] = way[1] /\ next[n - 1] = to /\ way[1] \in Moment
    <2>1. 0 \in 0 .. n - 1 /\ 0 + 1 = 1 /\ n - 1 \in 0 .. n - 1 /\ (n - 1) + 1 = n /\ 1 \in 0 .. n
      BY <1>2
    <2> QED BY <1>1, <2>1
  <1>6. Tells(from, Head(s), way[1])
    <2>1. 1 \in 1 .. n /\ 1 - 1 = 0
      BY <1>2
    <2> QED BY <1>1, <1>2, <2>1
  <1>7. ASSUME NEW i \in 1 .. n - 1 PROVE Tells(next[i - 1], t[i], next[i])
    <2>1. /\ i + 1 \in 1 .. n /\ (i + 1) - 1 = i /\ i \in 0 .. n - 1 /\ i - 1 \in 0 .. n - 1
          /\ (i - 1) + 1 = i
      BY <1>2
    <2>2. Tells(way[i], s[i + 1], way[i + 1])
      BY <1>1, <2>1
    <2> QED BY <1>2, <2>1, <2>2
  <1>8. ASSUME NEW i \in 0 .. n - 1 PROVE Named(next[i], names, last) /\ Foretold(t, i, next[i], to)
    <2>1. i + 1 \in 0 .. n /\ next[i] = way[i + 1]
      BY <1>2
    <2>2. Named(way[i + 1], names, last) /\ Foretold(s, i + 1, way[i + 1], to)
      BY <1>1, <2>1
    <2>3. ASSUME NEW j \in 1 .. n, j > i + 1
          PROVE  j - 1 \in 1 .. n - 1 /\ j - 1 > i /\ t[j - 1] = s[j]
      <3>1. j - 1 \in 1 .. n - 1 /\ j - 1 > i /\ (j - 1) + 1 = j
        BY <1>2, <2>3
      <3> QED BY <1>2, <3>1
    <2> SUFFICES ASSUME NEW p \in Player
                 PROVE  /\ \/ next[i].bus[p] = to.bus[p]
                           \/ \E j \in 1 .. n - 1 : j > i /\ IsAbout(t[j], p, to.bus[p].owner)
                        /\ \/ to.bus[p].owner # Nobody \/ next[i].bus[p].owner = Nobody
                           \/ \E j \in 1 .. n - 1 : j > i /\ IsEnd(t[j], p)
      BY <1>2, <2>1, <2>2 DEF Foretold
    <2>4. /\ \/ next[i].bus[p] = to.bus[p]
             \/ \E j \in 1 .. n : j > i + 1 /\ IsAbout(s[j], p, to.bus[p].owner)
          /\ \/ to.bus[p].owner # Nobody \/ next[i].bus[p].owner = Nobody
             \/ \E j \in 1 .. n : j > i + 1 /\ IsEnd(s[j], p)
      BY <1>3, <2>1, <2>2 DEF Foretold
    <2> HIDE DEF next
    <2> QED BY <2>3, <2>4
  <1> HIDE DEF next
  <1>9. Leads(t, names, last, way[1], to)
    <2>1. /\ next \in [0 .. Len(t) -> Moment] /\ next[0] = way[1] /\ next[Len(t)] = to
          /\ \A i \in 1 .. Len(t) : Tells(next[i - 1], t[i], next[i])
          /\ \A i \in 0 .. Len(t) : Named(next[i], names, last) /\ Foretold(t, i, next[i], to)
      BY <1>2, <1>4, <1>5, <1>7, <1>8
    <2> QED BY <2>1 DEF Leads
  <1> QED BY <1>5, <1>6, <1>9 DEF t

(* What they tell of the first moment and of the last. *)
LEMMA LeadsEnds ==
    ASSUME NEW s \in Seq(Signal), NEW names, NEW last, NEW from, NEW to,
           Leads(s, names, last, from, to)
    PROVE  /\ from \in Moment /\ to \in Moment
           /\ Named(from, names, last) /\ Named(to, names, last)
           /\ Foretold(s, 0, from, to)
           /\ s = <<>> => from = to
  <1>1. PICK way \in [0 .. Len(s) -> Moment] :
            /\ way[0] = from /\ way[Len(s)] = to
            /\ \A i \in 0 .. Len(s) : Named(way[i], names, last) /\ Foretold(s, i, way[i], to)
    BY DEF Leads
  <1>2. 0 \in 0 .. Len(s) /\ Len(s) \in 0 .. Len(s) /\ (s = <<>> => Len(s) = 0)
    OBVIOUS
  <1> QED BY <1>1, <1>2

LEMMA LeadsNowhere ==
    ASSUME NEW names, NEW last, NEW m \in Moment, Named(m, names, last)
    PROVE  Leads(<<>>, names, last, m, m)
  <1> DEFINE way == [i \in 0 .. 0 |-> m]
  <1>1. way \in [0 .. Len(<<>>) -> Moment] /\ way[0] = m /\ way[Len(<<>>)] = m
    OBVIOUS
  <1>2. Foretold(<<>>, 0, m, m)
    BY DEF Foretold
  <1>3. \A i \in 0 .. Len(<<>>) : i = 0
    OBVIOUS
  <1>4. \A i \in 1 .. Len(<<>>) : FALSE
    OBVIOUS
  <1> HIDE DEF way
  <1> QED BY <1>1, <1>2, <1>3, <1>4 DEF Leads

-----------------------------------------------------------------------------
(* The media players: rankings that agree *)

(* But for the players in gone, ranking is what rank becomes when those in *)
(* starting are activated in the order of their names.                     *)
Agrees(ranking, starting, rank, gone) ==
    \A a \in Player, b \in Place :
        a \notin gone /\ b \notin gone
            => (b \in ranking[a] <=>
                   \/ a \in starting /\ b # a /\ (b \in starting => b < a)
                   \/ a \notin starting /\ b \notin starting /\ b \in rank[a])

LEMMA AgreesLess ==
    ASSUME NEW ranking, NEW starting, NEW starting2, NEW rank, NEW gone, NEW gone2,
           Agrees(ranking, starting, rank, gone),
           \A q \in Place : q \notin gone2
               => q \notin gone /\ (q \in starting <=> q \in starting2)
    PROVE  Agrees(ranking, starting2, rank, gone2)
  <1>1. Player \subseteq Place
    BY DEF Place
  <1> QED BY <1>1 DEF Agrees

(* The first of those that are to start does. *)
LEMMA AgreesOneStarts ==
    ASSUME NEW ranking, NEW starting \in SUBSET Player, NEW rank \in Rank, NEW gone,
           NEW p \in Player, \A q \in starting \ {p} : p < q,
           Agrees(ranking, starting, rank, gone)
    PROVE  Agrees(ranking, starting \ {p}, IF p \in starting THEN Activated(rank, p) ELSE rank, gone)
  <1>1. CASE p \notin starting
    <2>1. starting \ {p} = starting
      BY <1>1
    <2> QED BY <1>1, <2>1
  <1>2. CASE p \in starting
    <2> SUFFICES ASSUME NEW a \in Player, NEW b \in Place, a \notin gone, b \notin gone
                 PROVE  b \in ranking[a] <=>
                            \/ a \in starting \ {p} /\ b # a /\ (b \in starting \ {p} => b < a)
                            \/ /\ a \notin starting \ {p} /\ b \notin starting \ {p}
                               /\ b \in Activated(rank, p)[a]
      BY <1>2 DEF Agrees
    <2>1. b \in ranking[a] <=>
              \/ a \in starting /\ b # a /\ (b \in starting => b < a)
              \/ a \notin starting /\ b \notin starting /\ b \in rank[a]
      BY DEF Agrees
    <2>2. b \in Activated(rank, p)[a] <=> b # p /\ (a = p \/ b \in rank[a])
      BY RankPairs
    <2>3. a \in Nat /\ p \in Nat /\ b \in Nat
      BY PlayerNumbers DEF Place, Nobody
    <2>4. CASE a = p
      <3>1. b \in starting \ {p} => ~(b < a)
        BY <2>3, <2>4
      <3> QED BY <1>2, <2>1, <2>2, <2>4, <3>1
    <2>5. CASE b = p /\ a # p
      <3>1. a \in starting => b < a
        BY <2>5
      <3> QED BY <1>2, <2>1, <2>2, <2>5, <3>1
    <2>6. CASE a # p /\ b # p
      BY <1>2, <2>1, <2>2, <2>6
    <2> QED BY <2>4, <2>5, <2>6
  <1> QED BY <1>1, <1>2

(* A player starts, and is to be asked about. *)
LEMMA AgreesToStart ==
    ASSUME NEW ranking \in Rank, NEW rank, NEW gone, NEW p \in Player,
           Agrees(ranking, {}, rank, gone)
    PROVE  Agrees(Activated(ranking, p), {p}, rank, gone)
  <1> SUFFICES ASSUME NEW a \in Player, NEW b \in Place, a \notin gone, b \notin gone
               PROVE  b \in Activated(ranking, p)[a] <=>
                          \/ a = p /\ b # a /\ (b = p => b < a)
                          \/ a # p /\ b # p /\ b \in rank[a]
    BY DEF Agrees
  <1>1. b \in ranking[a] <=> b \in rank[a]
    BY DEF Agrees
  <1>2. b \in Activated(ranking, p)[a] <=> b # p /\ (a = p \/ b \in ranking[a])
    BY RankPairs
  <1> QED BY <1>1, <1>2

(* A player starts and the tracker will hear of it, or need not. *)
LEMMA AgreesStarted ==
    ASSUME NEW ranking \in Rank, NEW rank \in Rank, NEW gone, NEW p \in Player,
           Agrees(ranking, {}, rank, gone)
    PROVE  /\ Agrees(Activated(ranking, p), {}, Activated(rank, p), gone)
           /\ p \in gone => /\ Agrees(Activated(ranking, p), {}, rank, gone)
                            /\ Agrees(ranking, {}, Activated(rank, p), gone)
  <1>1. ASSUME NEW a \in Player, NEW b \in Place, a \notin gone, b \notin gone
        PROVE  /\ b \in ranking[a] <=> b \in rank[a]
               /\ b \in Activated(ranking, p)[a] <=> b # p /\ (a = p \/ b \in ranking[a])
               /\ b \in Activated(rank, p)[a] <=> b # p /\ (a = p \/ b \in rank[a])
    <2>1. b \in ranking[a] <=> b \in rank[a]
      BY <1>1 DEF Agrees
    <2> QED BY <2>1, RankPairs
  <1> QED BY <1>1 DEF Agrees

(* A player is gone, and the tracker will hear of it. *)
LEMMA AgreesEnded ==
    ASSUME NEW ranking \in Rank, NEW rank \in Rank, NEW gone, NEW gone2, NEW p \in Player,
           Nobody \notin gone, \A q \in Player : q \in gone => q \in gone2 \/ q = p,
           Agrees(ranking, {}, rank, gone)
    PROVE  Agrees(Removed(ranking, p), {}, Removed(rank, p), gone2)
  <1> SUFFICES ASSUME NEW a \in Player, NEW b \in Place, a \notin gone2, b \notin gone2
               PROVE  b \in Removed(ranking, p)[a] <=> b \in Removed(rank, p)[a]
    BY DEF Agrees
  <1>1. /\ b \in Removed(ranking, p)[a]
               <=> a # p /\ Nobody \in ranking[a] /\ (b = p \/ b \in ranking[a])
        /\ b \in Removed(rank, p)[a] <=> a # p /\ Nobody \in rank[a] /\ (b = p \/ b \in rank[a])
    BY RankPairs
  <1>2. CASE a = p
    BY <1>1, <1>2
  <1>3. CASE a # p
    <2>1. a \notin gone /\ Nobody \in Place /\ (b # p => b \notin gone)
      BY <1>3 DEF Place
    <2>2. Nobody \in ranking[a] <=> Nobody \in rank[a]
      BY <2>1 DEF Agrees
    <2>3. b # p => (b \in ranking[a] <=> b \in rank[a])
      BY <2>1 DEF Agrees
    <2> QED BY <1>1, <1>3, <2>2, <2>3
  <1> QED BY <1>2, <1>3

-----------------------------------------------------------------------------
(* The media players: the tracker will rank them as the bus did *)

(* The events the tracker has not applied yet, the one in hand included. *)
Queue == IF at = "sends" THEN Append(events, event) ELSE events

Ended == {p \in Player : \E j \in DOMAIN signals : IsEnd(signals[j], p)}

(* The players the backend is to ask about, and to find playing. *)
Starting(m) == {p \in Player : StillAsked(p) /\ m.bus[p].status = "playing" /\ state[p] # "playing"}

(* What the backend believes is how things were at m, but for players it   *)
(* is still to ask about and for those that have ended since.              *)
IsAt(m) ==
    \A p \in Player : ~StillAsked(p) /\ p \notin Ended
        => IF m.bus[p].owner = Nobody
           THEN state[p] = "vanished"
           ELSE owners[m.bus[p].owner] = p /\ state[p] = m.bus[p].status

(* The backend gives owners no other names than they had. *)
NamesRight(names) ==
    /\ \A o \in Owner : owners[o] # Nobody => names[o] = owners[o]
    /\ at = "asks properties" => names[asked.owner] = asked.player

(* Players are asked about in the order of their names, and those that are *)
(* gone by then were told of.                                              *)
AskedInOrder ==
    /\ at = "lists" => \A p \in Player : state[p] = "vanished"
    /\ at # "lists" => \A p \in Player : StillAsked(p) => Present(p) \/ p \in Ended
    /\ at \in {"asks owner", "asks properties"} => \A q \in listed : asked.player < q

TrackerBelieves == [known |-> known, rank |-> recency]
BackendBelieves(rank) == [known |-> state, rank |-> rank]
BusIs == [bus |-> bus, rank |-> started]

(* The backend is at m, and the tracker will have the ranking of m once it *)
(* has heard what there is to hear and those still to be asked about were. *)
Accounts(m, rank, names) ==
    /\ Convinces(Queue, TrackerBelieves, BackendBelieves(rank))
    /\ Leads(signals, names, born, m, BusIs)
    /\ Agrees(m.rank, Starting(m), rank, Ended)
    /\ IsAt(m)
    /\ NamesRight(names)

RankInv == raced \/ (AskedInOrder /\ \E m, rank, names : Accounts(m, rank, names))

LEMMA QueueTyped ==
    ASSUME MediaTyped
    PROVE  Queue \in Seq(MediaEvent)
  <1>1. events \in Seq(MediaEvent) /\ (at = "sends" => event \in MediaEvent)
    BY DEF MediaTyped, InHand
  <1> QED BY <1>1 DEF Queue

LEMMA FollowsTyped ==
    ASSUME MediaTyped, NEW m, NEW rank, NEW names, Accounts(m, rank, names)
    PROVE  /\ rank \in Rank /\ m \in Moment /\ m.rank \in Rank /\ started \in Rank
           /\ Named(m, names, born) /\ Named(BusIs, names, born)
           /\ Foretold(signals, 0, m, BusIs)
           /\ Starting(m) \in SUBSET Player /\ Nobody \notin Ended
  <1>1. Len(Queue) \in 0 .. Len(Queue)
    BY QueueTyped
  <1>2. BackendBelieves(rank) \in Belief
    BY <1>1 DEF Accounts, Convinces
  <1>3. BackendBelieves(rank).rank = rank
    BY DEF BackendBelieves
  <1>4. rank \in Rank
    BY <1>2, <1>3 DEF Belief
  <1>5. /\ m \in Moment /\ BusIs \in Moment
        /\ Named(m, names, born) /\ Named(BusIs, names, born)
        /\ Foretold(signals, 0, m, BusIs)
    BY LeadsEnds DEF Accounts, MediaTyped
  <1>6. m.rank \in Rank /\ started \in Rank
    BY <1>5 DEF Moment, BusIs
  <1> QED BY <1>4, <1>5, <1>6, PlayerNumbers DEF Starting, Ended

(* Nothing happens to the events but that one is sent. *)
LEMMA QueueKept ==
    ASSUME UNCHANGED <<events, event, state, known, recency>>, at # "sends", at' # "sends"
    PROVE  /\ Queue' = Queue /\ TrackerBelieves' = TrackerBelieves
           /\ \A rank : BackendBelieves(rank)' = BackendBelieves(rank)
  BY DEF Queue, TrackerBelieves, BackendBelieves

(* The backend has an event to send. *)
LEMMA QueueSays ==
    ASSUME MediaTyped, NEW q, NEW shown, Says(q, shown), UNCHANGED <<events, known, recency>>,
           NEW rank, Convinces(Queue, TrackerBelieves, BackendBelieves(rank)),
           NEW rank2, rank2 = RankAfter(rank, q, state[q], shown)
    PROVE  Convinces(Queue', TrackerBelieves', BackendBelieves(rank2)')
  <1> DEFINE e == [player |-> q, status |-> shown]
  <1>1. e \in MediaEvent /\ Queue \in Seq(MediaEvent)
    BY QueueTyped DEF Says, MediaEvent
  <1>2. Queue' = Append(Queue, e) /\ TrackerBelieves' = TrackerBelieves
    BY DEF Says, Sends, Queue, TrackerBelieves
  <1>4. /\ BackendBelieves(rank).known = state /\ BackendBelieves(rank).rank = rank
        /\ e.player = q /\ e.status = shown /\ state' = [state EXCEPT ![q] = shown]
    BY DEF BackendBelieves, Says
  <1>3. Heard(BackendBelieves(rank), e) = BackendBelieves(rank2)'
    <2> HIDE DEF e
    <2> QED BY <1>4 DEF Heard, BackendBelieves
  <1> HIDE DEF e
  <1> QED BY <1>1, <1>2, <1>3, ConvincesMore

-----------------------------------------------------------------------------
(* The media players: steps of the players *)

LEMMA MovesFollowed ==
    ASSUME MediaTyped, OwnersDistinct, RankInv, ~raced,
           NEW p \in Player, NEW e, Moved(p, e), recency' = recency,
           BusIs' \in Moment, Tells(BusIs, e, BusIs'),
           IsAbout(e, p, bus'[p].owner),
           Present(p)' \/ (bus'[p].status = "paused" /\ IsEnd(e, p)),
           \/ born' = born /\ bus'[p].owner \in {Nobody, bus[p].owner}
           \/ born' = born + 1 /\ bus'[p].owner = born'
    PROVE  RankInv'
  <1>1. PICK m, rank, names : AskedInOrder /\ Accounts(m, rank, names)
    BY DEF RankInv
  <1>16. PICK names2 : names2 = [o \in Owner |-> IF born' # born /\ o = born' THEN p ELSE names[o]]
    OBVIOUS
  <1>2. /\ born \in Nat /\ born' \in Nat /\ born <= born'
        /\ \A o \in Owner : o <= born => o \in Nat /\ names2[o] = names[o]
    BY <1>16, PlayerNumbers DEF MediaTyped
  <1>3. \A q \in Player : bus'[q].owner \in Owner \union {Nobody}
    BY DEF BusIs, Moment
  <1>4. Named(BusIs, names, born)
    BY <1>1, FollowsTyped
  <1>5. Named(BusIs', names2, born')
    <2> SUFFICES ASSUME NEW q \in Player
                 PROVE  IF bus'[q].owner = Nobody THEN bus'[q].status = "paused"
                        ELSE bus'[q].owner <= born' /\ names2[bus'[q].owner] = q
      BY DEF Named, BusIs
    <2>1. IF bus[q].owner = Nobody THEN bus[q].status = "paused"
          ELSE bus[q].owner <= born /\ names[bus[q].owner] = q
      BY <1>4 DEF Named, BusIs
    <2>2. bus[q].owner \in Owner \union {Nobody}
      BY DEF MediaTyped
    <2>3. ASSUME bus'[q].owner = bus[q].owner, bus[q].owner # Nobody
          PROVE  bus'[q].owner <= born' /\ names2[bus'[q].owner] = q
      <3>1. bus[q].owner <= born /\ bus[q].owner \in Nat /\ names2[bus[q].owner] = q
        BY <1>2, <2>1, <2>2, <2>3
      <3> QED BY <1>2, <2>3, <3>1
    <2>4. CASE q # p
      <3>1. bus'[q] = bus[q]
        BY <2>4 DEF Moved
      <3> QED BY <2>1, <2>3, <3>1
    <2>5. CASE q = p /\ bus'[p].owner = Nobody
      BY <2>5 DEF Present
    <2>6. CASE q = p /\ bus'[p].owner # Nobody /\ born' = born
      BY <1>2, <2>3, <2>6
    <2>7. CASE q = p /\ born' = born + 1 /\ bus'[p].owner = born'
      <3>1. born' # born /\ born' <= born' /\ (born' # Nobody => born' \in Owner)
        BY <1>2, <1>3, <2>7
      <3> QED BY <1>2, <1>3, <1>16, <2>7, <3>1 DEF Present
    <2> QED BY <2>4, <2>5, <2>6, <2>7
  <1>6. signals' = Append(signals, e) /\ e \in Signal /\ signals \in Seq(Signal)
    BY DEF Moved, MediaTyped
  <1>7. Leads(signals', names2, born', m, BusIs')
    <2>1. \A q \in Player : /\ IsAbout(e, q, BusIs'.bus[q].owner) \/ BusIs'.bus[q] = BusIs.bus[q]
                            /\ \/ BusIs'.bus[q].owner # Nobody \/ BusIs.bus[q].owner = Nobody
                               \/ IsEnd(e, q)
      BY DEF BusIs, Moved, Present
    <2>2. Leads(signals, names, born, m, BusIs)
      BY <1>1 DEF Accounts
    <2>3. \A o \in Owner : o <= born => names2[o] = names[o]
      BY <1>2
    <2>4. Continues(names, born, BusIs, e, names2, born', BusIs')
      BY <1>2, <1>5, <1>6, <2>1, <2>3 DEF Continues
    <2> QED BY <1>6, <2>2, <2>4, LeadsMore
  <1>8. \A q \in Ended : q \in Ended'
    BY <1>6, OneMore DEF Ended
  <1>9. Starting(m)' = Starting(m) /\ \A q : StillAsked(q)' = StillAsked(q)
    BY DEF Moved, Starting, StillAsked
  <1>10. Agrees(m.rank, Starting(m)', rank, Ended')
    BY <1>1, <1>8, <1>9, AgreesLess DEF Accounts
  <1>11. IsAt(m)'
    BY <1>1, <1>8, <1>9 DEF Accounts, IsAt, Moved
  <1>12. NamesRight(names2)'
    <2>1. \A o \in Owner : owners[o] # Nobody => names2[o] = owners[o]
      BY <1>1, <1>2 DEF Accounts, NamesRight, OwnersDistinct
    <2>2. at = "asks properties" => names2[asked.owner] = asked.player
      BY <1>1, <1>2 DEF Accounts, NamesRight, OwnersDistinct, MediaTyped, InHand
    <2> QED BY <2>1, <2>2 DEF NamesRight, Moved
  <1>13. AskedInOrder'
    <2>1. ASSUME NEW q \in Player, Present(q) \/ q \in Ended PROVE Present(q)' \/ q \in Ended'
      <3>1. CASE q # p
        BY <1>8, <2>1, <3>1 DEF Moved, Present
      <3>2. CASE q = p /\ IsEnd(e, p)
        <4>1. Len(signals) + 1 \in DOMAIN signals' /\ signals'[Len(signals) + 1] = e
          BY <1>6
        <4> QED BY <3>2, <4>1 DEF Ended
      <3> QED BY <3>1, <3>2
    <2> QED BY <1>1, <1>9, <2>1 DEF AskedInOrder, Moved
  <1>14. Convinces(Queue', TrackerBelieves', BackendBelieves(rank)')
    <2>1. Queue' = Queue /\ TrackerBelieves' = TrackerBelieves
          /\ BackendBelieves(rank)' = BackendBelieves(rank)
      BY DEF Moved, Queue, TrackerBelieves, BackendBelieves
    <2> QED BY <1>1, <2>1 DEF Accounts
  <1>15. Accounts(m, rank, names2)'
    BY <1>7, <1>10, <1>11, <1>12, <1>14 DEF Accounts
  <1> QED BY <1>13, <1>15 DEF RankInv

LEMMA OwnsFollowed ==
    ASSUME MediaTyped, OwnersDistinct, RankInv, ~raced,
           NEW p \in Player, NEW shown \in {"playing", "paused"}, Owns(p, shown)
    PROVE  RankInv'
  <1> DEFINE e == [kind |-> "owner", player |-> p, owner |-> born + 1]
  <1>1. /\ bus' = [bus EXCEPT ![p] = [owner |-> born + 1, status |-> shown]]
        /\ born' = born + 1 /\ signals' = Append(signals, e) /\ Changed
        /\ started' = RankAfter(started, p, bus[p].status, shown)
        /\ UNCHANGED <<at, listed, asked, event, state, owners, events, known, recency>>
    BY DEF Owns, Sent, tracker, RankAfter
  <1>2. BusTyped' /\ started \in Rank
    BY MovesAre, FollowsTyped DEF RankInv
  <1>3. /\ born' \in Owner /\ born' # Nobody
        /\ bus[p] \in [owner : Owner \union {Nobody}, status : {"playing", "paused"}]
    <2>1. born \in Nat /\ born' = born + 1 /\ bus'[p].owner = born + 1
      BY <1>1, PlayerNumbers DEF MediaTyped
    <2>2. bus'[p].owner \in Owner \union {Nobody}
      BY <1>2 DEF BusTyped
    <2> QED BY <2>1, <2>2 DEF MediaTyped, Nobody
  <1>4. e \in Signal /\ e.kind = "owner" /\ e.player = p /\ e.owner = born' /\ e.owner # Nobody
    BY <1>1, <1>3 DEF Signal
  <1> HIDE DEF e
  <1>5. BusIs' \in Moment
    BY <1>1, <1>2, RankTyped DEF BusIs, Moment, BusTyped
  <1>6. Tells(BusIs, e, BusIs')
    BY <1>1, <1>4 DEF Tells, BusIs
  <1>7. /\ bus'[p].owner = born' /\ Present(p)' /\ \A q \in Player \ {p} : bus'[q] = bus[q]
    BY <1>1, <1>3 DEF MediaTyped, Present
  <1>8. Moved(p, e)
    BY <1>1, <1>4, <1>7 DEF Moved
  <1> QED BY <1>1, <1>4, <1>5, <1>6, <1>7, <1>8, MovesFollowed DEF IsAbout

LEMMA VanishFollowed ==
    ASSUME MediaTyped, OwnersDistinct, RankInv, ~raced, NEW p \in Player, Vanishes(p)
    PROVE  RankInv'
  <1> DEFINE e == [kind |-> "owner", player |-> p, owner |-> Nobody]
  <1>1. /\ bus' = [bus EXCEPT ![p] = [owner |-> Nobody, status |-> "paused"]]
        /\ born' = born /\ signals' = Append(signals, e) /\ Changed
        /\ started' = RankAfter(started, p, bus[p].status, "vanished")
        /\ UNCHANGED <<at, listed, asked, event, state, owners, events, known, recency>>
    BY DEF Vanishes, Sent, tracker, RankAfter
  <1>2. BusTyped' /\ started \in Rank
    BY MovesAre, FollowsTyped DEF RankInv
  <1>4. e \in Signal /\ e.kind = "owner" /\ e.player = p /\ e.owner = Nobody
    BY DEF Signal
  <1> HIDE DEF e
  <1>5. BusIs' \in Moment
    BY <1>1, <1>2, RankTyped DEF BusIs, Moment, BusTyped
  <1>6. Tells(BusIs, e, BusIs')
    BY <1>1, <1>4 DEF Tells, BusIs
  <1>7. /\ bus'[p] = [owner |-> Nobody, status |-> "paused"]
        /\ \A q \in Player \ {p} : bus'[q] = bus[q]
    BY <1>1 DEF MediaTyped
  <1>8. Moved(p, e)
    BY <1>1, <1>4, <1>7 DEF Moved
  <1>9. bus'[p].owner = Nobody /\ bus'[p].status = "paused"
    BY <1>7
  <1> QED BY <1>1, <1>4, <1>5, <1>6, <1>8, <1>9, MovesFollowed DEF IsAbout, IsEnd

LEMMA ShowsFollowed ==
    ASSUME MediaTyped, OwnersDistinct, RankInv, ~raced,
           NEW p \in Player, NEW shown \in {"playing", "paused", Same}, Shows(p, shown),
           shown = "playing" => bus[p].status # "playing"
    PROVE  RankInv'
  <1> DEFINE e == [kind |-> "props", owner |-> bus[p].owner, status |-> shown]
  <1>1. /\ bus' = [bus EXCEPT ![p].status = IF shown = Same THEN @ ELSE shown]
        /\ born' = born /\ signals' = Append(signals, e) /\ Changed
        /\ UNCHANGED <<at, listed, asked, event, state, owners, events, known, recency>>
    BY DEF Shows, Sent, tracker
  <1>2. started' = RankAfter(started, p, bus[p].status, shown)
    BY DEF Shows, RankAfter, Same
  <1>3. BusTyped' /\ started \in Rank
    BY MovesAre, FollowsTyped DEF RankInv
  <1>4. Present(p) /\ bus[p].owner \in Owner
    BY DEF Shows, Present, MediaTyped
  <1>5. e \in Signal /\ e.kind = "props" /\ e.owner = bus[p].owner /\ e.status = shown
    BY <1>4 DEF Signal
  <1> HIDE DEF e
  <1>6. BusIs' \in Moment
    BY <1>2, <1>3, RankTyped DEF BusIs, Moment, BusTyped
  <1>7. Tells(BusIs, e, BusIs')
    BY <1>1, <1>2, <1>5 DEF Tells, BusIs
  <1>8. bus'[p].owner = bus[p].owner /\ \A q \in Player \ {p} : bus'[q] = bus[q]
    BY <1>1 DEF MediaTyped
  <1>9. Moved(p, e) /\ Present(p)'
    BY <1>1, <1>4, <1>5, <1>8 DEF Moved, Present
  <1> QED BY <1>1, <1>5, <1>6, <1>7, <1>8, <1>9, MovesFollowed DEF IsAbout

-----------------------------------------------------------------------------
(* The media players: steps of the tracker *)

(* A step that leaves bus and backend alone. *)
LEMMA BackendStays ==
    ASSUME UNCHANGED <<bus, born, backend, started>>
    PROVE  /\ AskedInOrder' = AskedInOrder /\ BusIs' = BusIs
           /\ \A m : IsAt(m)' = IsAt(m) /\ Starting(m)' = Starting(m)
           /\ \A names : NamesRight(names)' = NamesRight(names)
           /\ Ended' = Ended
           /\ \A rank : BackendBelieves(rank)' = BackendBelieves(rank)
  BY DEF AskedInOrder, IsAt, NamesRight, Starting, Ended, BackendBelieves, BusIs, StillAsked, Present,
         backend

LEMMA AppliesFollowed ==
    ASSUME MediaTyped, RankInv, ~raced, Applies
    PROVE  RankInv'
  <1>1. PICK m, rank, names : AskedInOrder /\ Accounts(m, rank, names)
    BY DEF RankInv
  <1>2. events # <<>> /\ events \in Seq(MediaEvent) /\ Head(events) \in MediaEvent
        /\ events' = Tail(events) /\ UNCHANGED <<bus, born, backend, started>>
    BY OneLess DEF Applies, MediaTyped, history
  <1>3. Queue # <<>> /\ Head(Queue) = Head(events) /\ Queue' = Tail(Queue) /\ Queue \in Seq(MediaEvent)
    <2>1. Queue \in Seq(MediaEvent) /\ (at = "sends" => event \in MediaEvent)
      BY QueueTyped DEF MediaTyped, InHand
    <2>2. CASE at = "sends"
      <3>1. Queue = Append(events, event) /\ Queue' = Append(Tail(events), event)
        BY <1>2, <2>2 DEF Queue, backend
      <3> QED BY <1>2, <2>1, <2>2, <3>1
    <2>3. CASE at # "sends"
      BY <1>2, <2>1, <2>3 DEF Queue, backend
    <2> QED BY <2>2, <2>3
  <1>4. TrackerBelieves' = Heard(TrackerBelieves, Head(events))
    <2> DEFINE p == Head(events).player
               shown == Head(events).status
    <2>1. known' = [known EXCEPT ![p] = shown]
      BY DEF Applies
    <2>2. recency' = RankAfter(recency, p, known[p], shown)
      BY DEF Applies, RankAfter, Starts
    <2> HIDE DEF p, shown
    <2>3. TrackerBelieves.known = known /\ TrackerBelieves.rank = recency
      BY DEF TrackerBelieves
    <2> QED BY <2>1, <2>2, <2>3 DEF Heard, TrackerBelieves, p, shown
  <1>5. Convinces(Queue', TrackerBelieves', BackendBelieves(rank)')
    <2>1. Convinces(Tail(Queue), Heard(TrackerBelieves, Head(Queue)), BackendBelieves(rank))
      BY <1>1, <1>3, ConvincesLess DEF Accounts
    <2>2. BackendBelieves(rank)' = BackendBelieves(rank)
      BY <1>2, BackendStays
    <2> QED BY <1>3, <1>4, <2>1, <2>2
  <1>6. UNCHANGED signals /\ UNCHANGED born
    BY <1>2 DEF backend
  <1>7. Accounts(m, rank, names)'
    BY <1>1, <1>2, <1>5, <1>6, BackendStays DEF Accounts
  <1>8. AskedInOrder'
    BY <1>1, <1>2, BackendStays
  <1> QED BY <1>7, <1>8 DEF RankInv

LEMMA RestFollowed ==
    ASSUME RankInv, ~raced, UNCHANGED <<bus, born, backend, events, known, recency, started>>
    PROVE  RankInv'
  <1>1. PICK m, rank, names : AskedInOrder /\ Accounts(m, rank, names)
    BY DEF RankInv
  <1>2. UNCHANGED <<bus, born, backend, started>> /\ UNCHANGED signals /\ UNCHANGED born
    BY DEF backend
  <1>3. Queue' = Queue /\ TrackerBelieves' = TrackerBelieves
    BY DEF Queue, TrackerBelieves, backend
  <1>4. Accounts(m, rank, names)'
    BY <1>1, <1>2, <1>3, BackendStays DEF Accounts
  <1>5. AskedInOrder'
    BY <1>1, <1>2, BackendStays
  <1> QED BY <1>4, <1>5 DEF RankInv

(* When nothing is on its way the two rankings are one. *)
LEMMA SettledAgrees ==
    ASSUME MediaTyped, Settled, NEW m, NEW rank, NEW names, Accounts(m, rank, names)
    PROVE  m = BusIs /\ recency = rank /\ recency = started /\ Starting(m) = {} /\ Ended = {}
  <1>1. Queue = <<>> /\ signals = <<>> /\ Len(Queue) = 0
    BY DEF Settled, Queue
  <1>2. m = BusIs
    BY <1>1, LeadsEnds DEF Accounts, MediaTyped
  <1>3. TrackerBelieves = BackendBelieves(rank)
    BY <1>1 DEF Accounts, Convinces
  <1>4. recency = rank
    BY <1>3 DEF TrackerBelieves, BackendBelieves
  <1>5. Starting(m) = {}
    BY DEF Settled, Starting, StillAsked
  <1>6. Ended = {}
    BY <1>1 DEF Ended
  <1>7. Agrees(started, {}, rank, {})
    BY <1>2, <1>5, <1>6 DEF Accounts, BusIs
  <1>8. rank \in Rank /\ started \in Rank
    BY FollowsTyped
  <1>9. \A a \in Player : started[a] = rank[a]
    <2> SUFFICES ASSUME NEW a \in Player PROVE started[a] = rank[a]
      OBVIOUS
    <2>1. \A b \in Place : b \in started[a] <=> b \in rank[a]
      BY <1>7 DEF Agrees
    <2>2. started[a] \subseteq Place /\ rank[a] \subseteq Place
      BY <1>8 DEF Rank
    <2> QED BY <2>1, <2>2
  <1>10. started = rank
    BY <1>8, <1>9 DEF Rank
  <1> QED BY <1>2, <1>4, <1>5, <1>6, <1>10

LEMMA CyclesFollowed ==
    ASSUME MediaTyped, RankInv, ~raced', NEW ignored, Cycles(ignored)
    PROVE  RankInv'
  <1>1. ~raced /\ Settled /\ UNCHANGED <<bus, born, backend, events, known>>
    BY DEF Cycles
  <1>2. PICK m, rank, names : AskedInOrder /\ Accounts(m, rank, names)
    BY <1>1 DEF RankInv
  <1>3. m = BusIs /\ recency = rank /\ recency = started /\ Starting(m) = {} /\ Ended = {}
    BY <1>1, <1>2, SettledAgrees
  <1>4. PICK p \in Player : recency' = Activated(recency, p) /\ started' = Activated(started, p)
    BY DEF Cycles
  <1>5. recency' = started' /\ recency' \in Rank
    <2>1. recency \in Rank
      BY <1>2, <1>3, FollowsTyped
    <2>2. RankAfter(recency, p, "paused", "playing") \in Rank
      BY <2>1, RankTyped
    <2> QED BY <1>3, <1>4, <2>2 DEF RankAfter
  <1>6. PICK rank2, m2 : rank2 = recency' /\ m2 = BusIs'
    OBVIOUS
  <1>7. m2.bus = bus /\ m2.rank = rank2 /\ m.bus = bus
    BY <1>1, <1>3, <1>5, <1>6 DEF BusIs
  <1>8. Starting(m2)' = {} /\ Ended' = {} /\ \A p1 : StillAsked(p1)' = StillAsked(p1)
    BY <1>1 DEF Settled, Starting, Ended, StillAsked, backend
  <1>9. Agrees(m2.rank, Starting(m2)', rank2, Ended')
    BY <1>7, <1>8 DEF Agrees
  <1>10. IsAt(m2)'
    BY <1>1, <1>2, <1>3, <1>7, <1>8 DEF Accounts, IsAt, backend
  <1>11. NamesRight(names)' /\ AskedInOrder'
    BY <1>1, <1>2, <1>3, <1>8 DEF Accounts, NamesRight, AskedInOrder, Settled, backend, Present
  <1>12. Leads(signals', names, born', m2, BusIs')
    <2>1. Named(m, names, born) /\ m \in Moment
      BY <1>2, FollowsTyped
    <2>2. Named(m2, names, born) /\ m2 \in Moment
      BY <1>5, <1>6, <1>7, <2>1 DEF Named, Moment, BusIs
    <2>3. signals' = <<>> /\ born' = born
      BY <1>1 DEF Settled, backend
    <2> QED BY <1>6, <2>2, <2>3, LeadsNowhere
  <1>13. Convinces(Queue', TrackerBelieves', BackendBelieves(rank2)')
    <2>1. Queue' = Queue /\ Queue = <<>>
      BY <1>1 DEF Settled, Queue, backend
    <2>2. TrackerBelieves = BackendBelieves(rank)
      BY <1>2, <2>1 DEF Accounts, Convinces
    <2>3. known = state
      BY <2>2 DEF TrackerBelieves, BackendBelieves
    <2>4. TrackerBelieves' = BackendBelieves(rank2)' /\ TrackerBelieves' \in Belief
      BY <1>1, <1>5, <1>6, <2>3 DEF TrackerBelieves, BackendBelieves, backend, Belief, MediaTyped
    <2> QED BY <2>1, <2>4, ConvincedAtOnce
  <1>14. Accounts(m2, rank2, names)'
    BY <1>9, <1>10, <1>11, <1>12, <1>13 DEF Accounts
  <1> QED BY <1>11, <1>14 DEF RankInv

-----------------------------------------------------------------------------
(* The media players: steps of the backend that ask *)

(* A step after which other players are still asked about. *)
LEMMA AsksFollowed ==
    ASSUME MediaTyped, NEW m, NEW rank, NEW names, Accounts(m, rank, names),
           UNCHANGED <<bus, born, signals, state, owners, known, recency, started>>,
           Queue' = Queue, AskedInOrder',
           \A p \in Player : \/ StillAsked(p)' <=> StillAsked(p)
                             \/ p \in Ended
                             \/ /\ ~StillAsked(p)' /\ state[p] = "vanished"
                                /\ m.bus[p].owner = Nobody /\ m.bus[p].status = "paused",
           at' = "asks properties" => names[asked'.owner] = asked'.player
    PROVE  RankInv'
  <1>1. Convinces(Queue', TrackerBelieves', BackendBelieves(rank)')
    BY DEF Accounts, TrackerBelieves, BackendBelieves
  <1>2. Leads(signals', names, born', m, BusIs') /\ Ended' = Ended
    BY DEF Accounts, BusIs, Ended
  <1>3. \A q \in Place : q \notin Ended => (q \in Starting(m) <=> q \in Starting(m)')
    BY DEF Starting
  <1>4. Agrees(m.rank, Starting(m)', rank, Ended')
    BY <1>2, <1>3, AgreesLess DEF Accounts
  <1>5. IsAt(m)' /\ NamesRight(names)'
    BY <1>2 DEF Accounts, IsAt, NamesRight
  <1>6. Accounts(m, rank, names)'
    BY <1>1, <1>2, <1>4, <1>5 DEF Accounts
  <1> QED BY <1>6 DEF RankInv

LEMMA ListsFollowed ==
    ASSUME MediaTyped, RankInv, ~raced, Lists
    PROVE  RankInv'
  <1>1. PICK m, rank, names : AskedInOrder /\ Accounts(m, rank, names)
    BY DEF RankInv
  <1>2. /\ at = "lists" /\ at' = "takes" /\ listed' = {p \in Player : Present(p)}
        /\ UNCHANGED <<bus, born, signals, asked, event, state, owners, events, known>>
        /\ UNCHANGED <<recency, started>>
    BY DEF Lists, tracker, history
  <1>3. Queue' = Queue
    BY <1>2 DEF Queue
  <1>4. \A p \in Player : StillAsked(p) /\ (StillAsked(p)' <=> Present(p)) /\ Present(p)' = Present(p)
    BY <1>2 DEF StillAsked, Present
  <1>5. AskedInOrder'
    BY <1>2, <1>4 DEF AskedInOrder
  <1>6. ASSUME NEW p \in Player, ~Present(p), p \notin Ended
        PROVE  state[p] = "vanished" /\ m.bus[p].owner = Nobody /\ m.bus[p].status = "paused"
    <2>1. Named(m, names, born) /\ Foretold(signals, 0, m, BusIs) /\ signals \in Seq(Signal)
      BY <1>1, FollowsTyped DEF MediaTyped
    <2>2. m.bus[p].owner = Nobody
      BY <1>6, <2>1 DEF Foretold, BusIs, Present, Ended
    <2> QED BY <1>1, <1>2, <2>1, <2>2 DEF Named, AskedInOrder
  <1> QED BY <1>1, <1>2, <1>3, <1>4, <1>5, <1>6, AsksFollowed

LEMMA AsksNextFollowed ==
    ASSUME MediaTyped, RankInv, ~raced, AsksNext
    PROVE  RankInv'
  <1>1. PICK m, rank, names : AskedInOrder /\ Accounts(m, rank, names)
    BY DEF RankInv
  <1>2. PICK p \in listed : /\ \A q \in listed : p <= q
                            /\ listed' = listed \ {p} /\ AsksAbout(p)
    BY DEF AsksNext
  <1>3. /\ at = "takes" /\ at' = "asks owner" /\ asked'.player = p
        /\ UNCHANGED <<bus, born, signals, event, state, owners, events, known, recency, started>>
    BY <1>2 DEF AsksNext, AsksAbout, tracker, history
  <1>4. Queue' = Queue
    BY <1>3 DEF Queue
  <1>5. \A q \in Player : (StillAsked(q)' <=> StillAsked(q)) /\ Present(q)' = Present(q)
    BY <1>2, <1>3 DEF StillAsked, Present
  <1>6. \A q \in listed' : asked'.player < q
    <2> SUFFICES ASSUME NEW q \in listed, q # p PROVE p < q
      BY <1>2, <1>3
    <2>1. p \in Nat /\ q \in Nat /\ p <= q
      BY <1>2, PlayerNumbers DEF MediaTyped
    <2> QED BY <2>1
  <1>7. Ended' = Ended
    BY <1>3 DEF Ended
  <1>8. AskedInOrder'
    BY <1>1, <1>3, <1>5, <1>6, <1>7 DEF AskedInOrder
  <1> QED BY <1>1, <1>3, <1>4, <1>5, <1>8, AsksFollowed

LEMMA OwnerAskedFollowed ==
    ASSUME MediaTyped, RankInv, ~raced', OwnerAnswers \/ OwnerUnanswered
    PROVE  RankInv'
  <1>1. ~raced /\ at = "asks owner" /\ at' \in {"asks properties", "takes"}
    <2>1. at = "asks owner" /\ at' \in {"asks properties", "takes"}
      BY DEF OwnerAnswers, OwnerUnanswered
    <2>2. ~raced
      BY Zenon DEF OwnerAnswers, OwnerUnanswered, history
    <2> QED BY <2>1, <2>2
  <1>2. UNCHANGED <<bus, born, signals, listed, event, state, owners, events, known, recency, started>>
    BY DEF OwnerAnswers, OwnerUnanswered, tracker, history
  <1>3. PICK m, rank, names : AskedInOrder /\ Accounts(m, rank, names)
    BY <1>1 DEF RankInv
  <1>4. Queue' = Queue /\ Ended' = Ended /\ asked.player \in Player
    BY <1>1, <1>2 DEF Queue, Ended, MediaTyped, InHand
  <1>5. \A q \in Player : Present(q)' = Present(q)
    BY <1>2 DEF Present
  <1>6. CASE OwnerAnswers
    <2>1. asked'.player = asked.player /\ asked'.owner = bus[asked.player].owner
          /\ at' = "asks properties" /\ Present(asked.player)
      BY <1>6 DEF OwnerAnswers, MediaTyped, InHand
    <2>2. \A q \in Player : StillAsked(q)' <=> StillAsked(q)
      BY <1>1, <1>2, <2>1 DEF StillAsked
    <2>3. names[asked'.owner] = asked'.player
      <3>1. Named(BusIs, names, born)
        BY <1>3, FollowsTyped
      <3> QED BY <1>4, <2>1, <3>1 DEF Named, BusIs, Present
    <2>4. AskedInOrder'
      BY <1>1, <1>2, <1>3, <1>4, <1>5, <2>1, <2>2 DEF AskedInOrder
    <2> QED BY <1>2, <1>3, <1>4, <2>2, <2>3, <2>4, AsksFollowed
  <1>7. CASE OwnerUnanswered
    <2>1. ~Present(asked.player) /\ at' = "takes"
      BY <1>7 DEF OwnerUnanswered
    <2>2. asked.player \in Ended
      BY <1>1, <1>3, <1>4, <2>1 DEF AskedInOrder, StillAsked
    <2>3. \A q \in Player : q # asked.player => (StillAsked(q)' <=> StillAsked(q))
      BY <1>1, <1>2, <2>1 DEF StillAsked
    <2>4. AskedInOrder'
      BY <1>1, <1>2, <1>3, <1>4, <1>5, <2>1, <2>2, <2>3 DEF AskedInOrder
    <2> QED BY <1>2, <1>3, <1>4, <2>1, <2>2, <2>3, <2>4, AsksFollowed
  <1> QED BY <1>6, <1>7

LEMMA SendingFollowed ==
    ASSUME MediaTyped, RankInv, ~raced, Sending
    PROVE  RankInv'
  <1>1. PICK m, rank, names : AskedInOrder /\ Accounts(m, rank, names)
    BY DEF RankInv
  <1>2. /\ at = "sends" /\ at' = "takes" /\ events' = Append(events, event)
        /\ UNCHANGED <<bus, born, signals, listed, asked, state, owners, known, recency, started>>
    BY DEF Sending, tracker, history
  <1>3. Queue' = Queue
    BY <1>2 DEF Queue
  <1>4. \A q \in Player : (StillAsked(q)' <=> StillAsked(q)) /\ Present(q)' = Present(q)
    BY <1>2 DEF StillAsked, Present
  <1>5. Ended' = Ended
    BY <1>2 DEF Ended
  <1>6. AskedInOrder'
    BY <1>1, <1>2, <1>4, <1>5 DEF AskedInOrder
  <1> QED BY <1>1, <1>2, <1>3, <1>4, <1>6, AsksFollowed

-----------------------------------------------------------------------------
(* The media players: steps of the backend that are answered *)

LEMMA NotBeforeItself == \A p \in Player : ~(p < p)
  BY PlayerNumbers

(* A player is taken to have appeared, as it has or is to end.             *)
LEMMA AppearedFollowed ==
    ASSUME MediaTyped, at = "asks properties", AskedInOrder,
           NEW m, NEW rank, NEW names, Accounts(m, rank, names),
           NEW shown \in Shown, Appeared(shown), started' = started,
           NEW rank2, rank2 = RankAfter(rank, asked.player, state[asked.player], shown),
           NEW rest, \A q \in Player : q \in rest <=> q \in Starting(m) /\ q # asked.player,
           Nobody \notin rest, Agrees(m.rank, rest, rank2, Ended),
           \/ asked.player \in Ended
           \/ m.bus[asked.player].owner = asked.owner /\ m.bus[asked.player].status = shown
    PROVE  RankInv'
  <1>0. PICK p : p = asked.player
    OBVIOUS
  <1>1. /\ p \in Player /\ asked.owner \in Owner
        /\ owners' = [owners EXCEPT ![asked.owner] = p]
        /\ state' = [state EXCEPT ![p] = shown]
        /\ at' = "sends" /\ Sends(p, shown)
        /\ UNCHANGED <<bus, born, signals, listed, events, known, recency, started>>
    BY <1>0 DEF Appeared, Sends, MediaTyped, InHand, tracker
  <1>2. /\ state'[p] = shown /\ owners'[asked.owner] = p
        /\ \A q \in Player : q # p => state'[q] = state[q]
        /\ \A o \in Owner : o # asked.owner => owners'[o] = owners[o]
    BY <1>1 DEF MediaTyped
  <1>3. /\ ~StillAsked(p)' \/ p \in listed
        /\ \A q \in Player : q # p => (StillAsked(q)' <=> StillAsked(q))
        /\ \A q \in Player : StillAsked(q)' <=> q \in listed
        /\ \A q \in Player : Present(q)' = Present(q)
    BY <1>0, <1>1 DEF StillAsked, Present
  <1>4. p \notin listed
    <2>1. \A q \in listed : p < q
      BY <1>0 DEF AskedInOrder
    <2> QED BY Zenon, <1>1, <2>1, NotBeforeItself
  <1>5. Ended' = Ended /\ BusIs' = BusIs
    BY <1>1 DEF Ended, BusIs
  <1>6. Convinces(Queue', TrackerBelieves', BackendBelieves(rank2)')
    <2>1. Says(p, shown)
      BY <1>1 DEF Says
    <2> QED BY <1>1, <2>1, QueueSays, <1>0 DEF Accounts
  <1>7. Leads(signals', names, born', m, BusIs')
    BY <1>1, <1>5 DEF Accounts
  <1>8. Agrees(m.rank, Starting(m)', rank2, Ended')
    <2>1. \A q \in Place : q \in rest <=> q \in Starting(m)'
      BY <1>0, <1>2, <1>3, <1>4, PlayerNumbers DEF Starting, Place
    <2> QED BY <1>0, <1>5, <2>1, AgreesLess
  <1>9. /\ names[asked.owner] = p
        /\ \A o \in Owner : owners[o] # Nobody => names[o] = owners[o]
    BY <1>0, <1>1 DEF Accounts, NamesRight
  <1>10. NamesRight(names)'
    <2> SUFFICES ASSUME NEW o \in Owner, owners'[o] # Nobody PROVE names[o] = owners'[o]
      BY <1>1 DEF NamesRight
    <2> QED BY <1>2, <1>9
  <1>11. IsAt(m)'
    <2> SUFFICES ASSUME NEW q \in Player, ~StillAsked(q)', q \notin Ended
                 PROVE  IF m.bus[q].owner = Nobody THEN state'[q] = "vanished"
                        ELSE owners'[m.bus[q].owner] = q /\ state'[q] = m.bus[q].status
      BY <1>5 DEF IsAt
    <2>1. CASE q = p
      BY <1>1, <1>2, <2>1, <1>0, PlayerNumbers
    <2>2. CASE q # p
      <3>1. IF m.bus[q].owner = Nobody THEN state[q] = "vanished"
            ELSE owners[m.bus[q].owner] = q /\ state[q] = m.bus[q].status
        BY <1>3, <2>2 DEF Accounts, IsAt
      <3>2. m.bus[q].owner \in Owner \union {Nobody}
        <4>1. m \in Moment
          BY FollowsTyped
        <4> QED BY <4>1 DEF Moment
      <3>3. m.bus[q].owner # Nobody => m.bus[q].owner # asked.owner
        BY <1>9, <2>2, <3>1, <3>2, PlayerNumbers
      <3> QED BY <1>2, <2>2, <3>1, <3>2, <3>3
    <2> QED BY <2>1, <2>2
  <1>12. AskedInOrder'
    <2>1. \A q \in Player : StillAsked(q)' => StillAsked(q)
      BY <1>1, <1>3 DEF StillAsked
    <2> QED BY <1>1, <1>3, <1>5, <2>1 DEF AskedInOrder
  <1>13. Accounts(m, rank2, names)'
    BY <1>6, <1>7, <1>8, <1>10, <1>11 DEF Accounts
  <1> QED BY <1>12, <1>13 DEF RankInv

LEMMA AnswerFollowed ==
    ASSUME MediaTyped, \A q \in Player : SignalsTrue(q), RankInv, ~raced', PropertiesAnswer
    PROVE  RankInv'
  <1> DEFINE p == asked.player
             shown == bus[p].status
  <1>1. ~raced /\ ~Pending(p)
    BY Zenon DEF PropertiesAnswer
  <1>2. /\ at = "asks properties" /\ Present(p) /\ Appeared(shown) /\ started' = started
        /\ p \in Player
    BY DEF PropertiesAnswer, Appeared, MediaTyped, InHand
  <1>3. shown \in {"playing", "paused"} /\ shown \in Shown
    BY <1>2 DEF MediaTyped, Shown, Status
  <1>4. PICK m, rank, names : AskedInOrder /\ Accounts(m, rank, names)
    BY <1>1 DEF RankInv
  <1>5. \A i \in DOMAIN signals : ~IsAbout(signals[i], p, bus[p].owner)
    BY <1>1 DEF Pending, IsAbout
  <1>6. m.bus[p] = bus[p] /\ p \notin Ended
    <2>1. Foretold(signals, 0, m, BusIs) /\ DOMAIN signals = 1 .. Len(signals)
      BY <1>4, FollowsTyped DEF MediaTyped
    <2>2. m.bus[p] = bus[p]
      BY <1>2, <1>5, <2>1 DEF Foretold, BusIs
    <2> QED BY <1>5, <2>2 DEF Ended, IsEnd, IsAbout
  <1>7. asked.owner = bus[p].owner
    BY <1>2, <1>5 DEF SignalsTrue, AskedFirst, TellsOwner, IsAbout
  <1>8. PICK rank2 : rank2 = RankAfter(rank, p, state[p], shown)
    OBVIOUS
  <1>9. rank2 = IF p \in Starting(m) THEN Activated(rank, p) ELSE rank
    <2>1. p \in Starting(m) <=> shown = "playing" /\ state[p] # "playing"
      BY <1>2, <1>6 DEF Starting, StillAsked
    <2> QED BY <1>3, <1>8, <2>1 DEF RankAfter
  <1>10. Agrees(m.rank, Starting(m) \ {p}, rank2, Ended)
    <2>1. \A q \in Starting(m) \ {p} : p < q
      BY <1>2, <1>4 DEF Starting, StillAsked, AskedInOrder
    <2>2. rank \in Rank /\ Starting(m) \in SUBSET Player /\ Agrees(m.rank, Starting(m), rank, Ended)
      BY <1>4, FollowsTyped DEF Accounts
    <2> HIDE DEF p
    <2> QED BY <1>2, <1>9, <2>1, <2>2, AgreesOneStarts
  <1>11. PICK rest : rest = Starting(m) \ {p}
    OBVIOUS
  <1>12. (\A q \in Player : q \in rest <=> q \in Starting(m) /\ q # p) /\ Nobody \notin rest
    BY <1>11, PlayerNumbers DEF Starting
  <1> QED BY <1>2, <1>3, <1>4, <1>6, <1>7, <1>8, <1>10, <1>11, <1>12, AppearedFollowed

LEMMA UnansweredFollowed ==
    ASSUME MediaTyped, RankInv, ~raced', PropertiesUnanswered
    PROVE  RankInv'
  <1> DEFINE p == asked.player
  <1>1. ~raced /\ ~Present(p)
    BY Zenon DEF PropertiesUnanswered
  <1>2. /\ at = "asks properties" /\ Appeared("unknown") /\ started' = started
        /\ p \in Player /\ "unknown" \in Shown
    BY DEF PropertiesUnanswered, Appeared, MediaTyped, InHand, Shown, Status
  <1>3. PICK m, rank, names : AskedInOrder /\ Accounts(m, rank, names)
    BY <1>1 DEF RankInv
  <1>4. p \in Ended
    BY <1>1, <1>2, <1>3 DEF AskedInOrder, StillAsked
  <1>5. rank = RankAfter(rank, p, state[p], "unknown")
    BY DEF RankAfter
  <1>6. PICK rest : rest = Starting(m) \ {p}
    OBVIOUS
  <1>7. (\A q \in Player : q \in rest <=> q \in Starting(m) /\ q # p) /\ Nobody \notin rest
    BY <1>6, PlayerNumbers DEF Starting
  <1>8. Agrees(m.rank, rest, rank, Ended)
    BY <1>3, <1>4, <1>6, AgreesLess DEF Accounts
  <1> QED BY <1>2, <1>3, <1>4, <1>5, <1>7, <1>8, AppearedFollowed

-----------------------------------------------------------------------------
(* The media players: steps of the backend that take a signal *)

(* Nobody is still to be asked about then, and what is left leads on from  *)
(* the moment the signal told of.                                          *)
LEMMA SignalTaken ==
    ASSUME MediaTyped, RankInv, ~raced, NEW kind, TakesSignal(kind)
    PROVE  \E m, rank, names, m2 :
              /\ Accounts(m, rank, names) /\ m2 \in Moment
              /\ Tells(m, Head(signals), m2) /\ Leads(signals', names, born', m2, BusIs')
              /\ Starting(m) = {}
              /\ \A q \in Player : ~StillAsked(q)
              /\ \A q \in Ended' : q \in Ended
              /\ \A q \in Ended : q \in Ended' \/ IsEnd(Head(signals), q)
              /\ Head(signals) \in Signal /\ Head(signals).kind = kind
              /\ at = "takes" /\ listed' = {}
              /\ UNCHANGED <<bus, events, known, recency, started>>
  <1>1. PICK m, rank, names : Accounts(m, rank, names)
    BY DEF RankInv
  <1>2. /\ at = "takes" /\ listed = {} /\ signals # <<>> /\ signals' = Tail(signals)
        /\ Head(signals).kind = kind
        /\ UNCHANGED <<bus, born, listed, events, known, recency, started>>
    BY DEF TakesSignal, tracker, history
  <1>3. /\ signals \in Seq(Signal) /\ Head(signals) \in Signal /\ Head(signals) = signals[1]
        /\ DOMAIN signals = 1 .. Len(signals) /\ DOMAIN signals' = 1 .. Len(signals) - 1
        /\ Len(signals) \in Nat \ {0} /\ \A i \in DOMAIN signals' : signals'[i] = signals[i + 1]
    BY <1>2, OneLess DEF MediaTyped
  <1>4. PICK m2 \in Moment :
            Tells(m, Head(signals), m2) /\ Leads(Tail(signals), names, born, m2, BusIs)
    BY <1>1, <1>2, <1>3, LeadsLess DEF Accounts
  <1>5. Leads(signals', names, born', m2, BusIs')
    BY <1>2, <1>4 DEF BusIs
  <1>6. (\A q \in Player : ~StillAsked(q)) /\ Starting(m) = {}
    BY <1>2 DEF StillAsked, Starting
  <1>7. ASSUME NEW q \in Ended' PROVE q \in Ended
    <2>1. q \in Player
      BY <1>7 DEF Ended
    <2>2. PICK j \in DOMAIN signals' : IsEnd(signals'[j], q)
      BY <1>7 DEF Ended
    <2>3. j + 1 \in DOMAIN signals /\ signals[j + 1] = signals'[j]
      BY <1>3
    <2> QED BY <2>1, <2>2, <2>3 DEF Ended
  <1>8. ASSUME NEW q \in Ended PROVE q \in Ended' \/ IsEnd(Head(signals), q)
    <2>1. q \in Player
      BY <1>8 DEF Ended
    <2>2. PICK j \in DOMAIN signals : IsEnd(signals[j], q)
      BY <1>8 DEF Ended
    <2>3. CASE j = 1
      BY <1>3, <2>2, <2>3
    <2>4. CASE j # 1
      <3>1. j - 1 \in DOMAIN signals' /\ (j - 1) + 1 = j
        BY <1>3, <2>4
      <3>2. signals'[j - 1] = signals[j]
        BY <1>3, <3>1
      <3> QED BY <2>1, <2>2, <3>1, <3>2 DEF Ended
    <2> QED BY <2>3, <2>4
  <1> QED BY <1>1, <1>2, <1>3, <1>4, <1>5, <1>6, <1>7, <1>8

LEMMA OwnerTakenFollowed ==
    ASSUME MediaTyped, RankInv, ~raced, HandlesOwner
    PROVE  RankInv'
  <1>1. PICK m, rank, names, m2 :
              /\ Accounts(m, rank, names) /\ m2 \in Moment
              /\ Tells(m, Head(signals), m2) /\ Leads(signals', names, born', m2, BusIs')
              /\ Starting(m) = {}
              /\ \A q \in Player : ~StillAsked(q)
              /\ \A q \in Ended' : q \in Ended
              /\ \A q \in Ended : q \in Ended' \/ IsEnd(Head(signals), q)
              /\ Head(signals) \in Signal /\ Head(signals).kind = "owner"
              /\ at = "takes" /\ listed' = {}
              /\ UNCHANGED <<bus, events, known, recency, started>>
    BY SignalTaken DEF HandlesOwner
  <1>2. PICK p, o : p = Head(signals).player /\ o = Head(signals).owner
    OBVIOUS
  <1>3. /\ p \in Player /\ o # Nobody /\ at' = "asks owner" /\ asked'.player = p
        /\ UNCHANGED <<event, state, owners>>
    BY <1>1, <1>2 DEF HandlesOwner, AsksAbout, Signal
  <1>4. PICK shown \in {"playing", "paused"} :
            /\ m2.bus = [m.bus EXCEPT ![p] = [owner |-> o, status |-> shown]]
            /\ m2.rank = RankAfter(m.rank, p, m.bus[p].status, shown)
    BY <1>1, <1>2, <1>3 DEF Tells
  <1>5. /\ rank \in Rank /\ m \in Moment /\ m.rank \in Rank /\ Named(m, names, born)
        /\ Nobody \notin Ended
    BY <1>1, FollowsTyped
  <1>6. /\ m2.bus[p].owner # Nobody /\ m2.bus[p].status = shown
        /\ \A q \in Player : q # p => m2.bus[q] = m.bus[q]
    <2>1. m.bus \in [Player -> [owner : Owner \union {Nobody}, status : {"playing", "paused"}]]
      BY <1>5 DEF Moment
    <2>2. /\ m2.bus[p] = [owner |-> o, status |-> shown]
          /\ \A q \in Player : q # p => m2.bus[q] = m.bus[q]
      BY <1>3, <1>4, <2>1
    <2>3. o # Nobody
      BY <1>3
    <2>4. m2.bus[p].owner = o /\ m2.bus[p].status = shown
      BY <2>2
    <2> QED BY <2>2, <2>3, <2>4
  <1>7. Ended' = Ended
    BY <1>1, <1>2, <1>3 DEF IsEnd
  <1>8. \A q \in Player : StillAsked(q)' <=> q = p
    BY <1>1, <1>3 DEF StillAsked
  <1>9. \A q \in Place : q \in Starting(m2)' <=> q = p /\ shown = "playing" /\ state[p] # "playing"
    BY <1>3, <1>6, <1>8 DEF Starting
  <1>10. Agrees(m.rank, {}, rank, Ended)
    BY <1>1 DEF Accounts
  <1>11. Agrees(m2.rank, Starting(m2)', rank, Ended')
    <2>1. CASE p \in Ended
      <3>1. m2.rank \in {m.rank, Activated(m.rank, p)}
        BY <1>4 DEF RankAfter
      <3>2. Agrees(m2.rank, {}, rank, Ended)
        BY <1>3, <1>5, <1>10, <2>1, <3>1, AgreesStarted
      <3> QED BY <1>7, <1>9, <2>1, <3>2, AgreesLess
    <2>2. CASE p \notin Ended
      <3>1. state[p] = "playing" <=> m.bus[p].status = "playing"
        BY <1>1, <1>3, <1>5, <2>2 DEF Accounts, IsAt, Named
      <3>2. CASE shown = "playing" /\ state[p] # "playing"
        <4>1. m2.rank = Activated(m.rank, p)
          BY <1>4, <3>1, <3>2 DEF RankAfter
        <4>2. Agrees(m2.rank, {p}, rank, Ended)
          BY <1>3, <1>5, <1>10, <4>1, AgreesToStart
        <4> QED BY <1>7, <1>9, <3>2, <4>2, AgreesLess
      <3>3. CASE ~(shown = "playing" /\ state[p] # "playing")
        <4>1. m2.rank = m.rank
          BY <1>4, <3>1, <3>3 DEF RankAfter
        <4> QED BY <1>7, <1>9, <1>10, <3>3, <4>1, AgreesLess
      <3> QED BY <3>2, <3>3
    <2> QED BY <2>1, <2>2
  <1>12. IsAt(m2)' /\ NamesRight(names)'
    BY <1>1, <1>3, <1>6, <1>7, <1>8 DEF Accounts, IsAt, NamesRight
  <1>13. Convinces(Queue', TrackerBelieves', BackendBelieves(rank)')
    BY <1>1, <1>3, QueueKept DEF Accounts
  <1>14. AskedInOrder'
    <2>1. Foretold(signals', 0, m2, BusIs')
      <3>1. signals' \in Seq(Signal)
        BY OneLess DEF HandlesOwner, TakesSignal, MediaTyped
      <3> QED BY <1>1, <3>1, LeadsEnds
    <2>2. signals' \in Seq(Signal)
      BY OneLess DEF HandlesOwner, TakesSignal, MediaTyped
    <2>3. bus'[p].owner # Nobody \/ \E j \in DOMAIN signals' : IsEnd(signals'[j], p)
      <3>1. BusIs'.bus = bus' /\ DOMAIN signals' = 1 .. Len(signals')
        BY <2>2 DEF BusIs
      <3> QED BY <1>3, <1>6, <2>1, <3>1 DEF Foretold
    <2>4. Present(p)' \/ p \in Ended'
      BY <1>3, <2>3 DEF Present, Ended
    <2> QED BY <1>1, <1>3, <1>8, <2>4 DEF AskedInOrder
  <1>15. Accounts(m2, rank, names)'
    BY <1>1, <1>11, <1>12, <1>13 DEF Accounts
  <1> QED BY <1>14, <1>15 DEF RankInv

LEMMA VanishTakenFollowed ==
    ASSUME MediaTyped, RankInv, ~raced, HandlesVanish
    PROVE  RankInv'
  <1>1. PICK m, rank, names, m2 :
              /\ Accounts(m, rank, names) /\ m2 \in Moment
              /\ Tells(m, Head(signals), m2) /\ Leads(signals', names, born', m2, BusIs')
              /\ Starting(m) = {}
              /\ \A q \in Player : ~StillAsked(q)
              /\ \A q \in Ended' : q \in Ended
              /\ \A q \in Ended : q \in Ended' \/ IsEnd(Head(signals), q)
              /\ Head(signals) \in Signal /\ Head(signals).kind = "owner"
              /\ at = "takes" /\ listed' = {}
              /\ UNCHANGED <<bus, events, known, recency, started>>
    BY SignalTaken DEF HandlesVanish
  <1>2. PICK p : p = Head(signals).player
    OBVIOUS
  <1>3. /\ p \in Player /\ Head(signals).owner = Nobody /\ at' = "sends" /\ asked' = asked
        /\ state' = [state EXCEPT ![p] = "vanished"]
        /\ owners' = [o \in Owner |-> IF owners[o] = p THEN Nobody ELSE owners[o]]
        /\ Sends(p, "vanished")
    BY <1>1, <1>2 DEF HandlesVanish, Sends, Signal
  <1>4. PICK shown \in {"playing", "paused"} :
            /\ m2.bus = [m.bus EXCEPT ![p] = [owner |-> Nobody, status |-> shown]]
            /\ m2.rank = RankAfter(m.rank, p, m.bus[p].status, "vanished")
    BY <1>1, <1>2, <1>3 DEF Tells
  <1>5. /\ rank \in Rank /\ m \in Moment /\ m.rank \in Rank /\ Nobody \notin Ended
    BY <1>1, FollowsTyped
  <1>6. /\ m2.bus[p].owner = Nobody /\ \A q \in Player : q # p => m2.bus[q] = m.bus[q]
        /\ state'[p] = "vanished" /\ \A q \in Player : q # p => state'[q] = state[q]
    BY <1>3, <1>4, <1>5 DEF Moment, MediaTyped
  <1>7. \A q \in Ended : q \in Ended' \/ q = p
    BY <1>1, <1>2 DEF IsEnd
  <1>8. \A q \in Player : ~StillAsked(q)'
    BY <1>1, <1>3 DEF StillAsked
  <1>9. Starting(m2)' = {}
    BY <1>8 DEF Starting
  <1>10. PICK rank2 : rank2 = RankAfter(rank, p, state[p], "vanished")
    OBVIOUS
  <1>11. rank2 = Removed(rank, p) /\ m2.rank = Removed(m.rank, p)
    BY <1>4, <1>10 DEF RankAfter
  <1>12. Agrees(m2.rank, Starting(m2)', rank2, Ended')
    <2>1. Agrees(m.rank, {}, rank, Ended)
      BY <1>1 DEF Accounts
    <2> QED BY <1>3, <1>5, <1>7, <1>9, <1>11, <2>1, AgreesEnded
  <1>13. IsAt(m2)'
    <2> SUFFICES ASSUME NEW q \in Player, q \notin Ended'
                 PROVE  IF m2.bus[q].owner = Nobody THEN state'[q] = "vanished"
                        ELSE owners'[m2.bus[q].owner] = q /\ state'[q] = m2.bus[q].status
      BY DEF IsAt
    <2>1. CASE q = p
      BY <1>6, <2>1
    <2>2. CASE q # p
      <3>1. IF m.bus[q].owner = Nobody THEN state[q] = "vanished"
            ELSE owners[m.bus[q].owner] = q /\ state[q] = m.bus[q].status
        BY <1>1, <1>7, <2>2 DEF Accounts, IsAt
      <3>2. m.bus[q].owner \in Owner \union {Nobody}
        BY <1>5 DEF Moment
      <3> QED BY <1>3, <1>6, <2>2, <3>1, <3>2
    <2> QED BY <2>1, <2>2
  <1>14. NamesRight(names)'
    <2>1. \A o \in Owner : owners'[o] # Nobody => owners'[o] = owners[o]
      BY <1>3
    <2>2. \A o \in Owner : owners[o] # Nobody => names[o] = owners[o]
      BY <1>1 DEF Accounts, NamesRight
    <2> QED BY <1>3, <2>1, <2>2 DEF NamesRight
  <1>15. Convinces(Queue', TrackerBelieves', BackendBelieves(rank2)')
    <2>1. Says(p, "vanished")
      BY <1>1, <1>3 DEF Says, Shown
    <2> QED BY <1>1, <1>10, <2>1, QueueSays DEF Accounts
  <1>16. AskedInOrder'
    BY <1>3, <1>8 DEF AskedInOrder
  <1>17. Accounts(m2, rank2, names)'
    BY <1>1, <1>12, <1>13, <1>14, <1>15 DEF Accounts
  <1> QED BY <1>16, <1>17 DEF RankInv

(* A player that is to end can be started, or not, in either ranking; else *)
(* in both.                                                                *)
LEMMA AgreesChanged ==
    ASSUME NEW ranking \in Rank, NEW rank \in Rank, NEW ranking2, NEW rank2, NEW gone,
           NEW p \in Player, Agrees(ranking, {}, rank, gone),
           ranking2 \in {ranking, Activated(ranking, p)}, rank2 \in {rank, Activated(rank, p)},
           p \in gone \/ (ranking2 = Activated(ranking, p) <=> rank2 = Activated(rank, p))
    PROVE  Agrees(ranking2, {}, rank2, gone)
  <1>1. CASE ranking2 = ranking /\ rank2 = rank
    BY <1>1
  <1>2. CASE ranking2 = Activated(ranking, p) /\ rank2 = Activated(rank, p)
    BY <1>2, AgreesStarted
  <1>3. CASE p \in gone
    BY <1>1, <1>2, <1>3, AgreesStarted
  <1> QED BY <1>1, <1>2, <1>3

LEMMA PropsTakenFollowed ==
    ASSUME MediaTyped, RankInv, ~raced, HandlesProps
    PROVE  RankInv'
  <1>1. PICK m, rank, names, m2 :
              /\ Accounts(m, rank, names) /\ m2 \in Moment
              /\ Tells(m, Head(signals), m2) /\ Leads(signals', names, born', m2, BusIs')
              /\ Starting(m) = {}
              /\ \A q \in Player : ~StillAsked(q)
              /\ \A q \in Ended' : q \in Ended
              /\ \A q \in Ended : q \in Ended' \/ IsEnd(Head(signals), q)
              /\ Head(signals) \in Signal /\ Head(signals).kind = "props"
              /\ at = "takes" /\ listed' = {}
              /\ UNCHANGED <<bus, events, known, recency, started>>
    BY SignalTaken DEF HandlesProps
  <1>2. PICK o, news : o = Head(signals).owner /\ news = Head(signals).status
    OBVIOUS
  <1>3. o \in Owner /\ o # Nobody /\ news \in {"playing", "paused", Same}
    BY <1>1, <1>2, PlayerNumbers DEF Signal
  <1>4. PICK p \in Player :
            /\ m.bus[p].owner = o
            /\ news = "playing" => m.bus[p].status # "playing"
            /\ m2.bus = [m.bus EXCEPT ![p].status = IF news = Same THEN @ ELSE news]
            /\ m2.rank = RankAfter(m.rank, p, m.bus[p].status, news)
    BY <1>1, <1>2 DEF Tells
  <1>5. /\ rank \in Rank /\ m \in Moment /\ m.rank \in Rank /\ Named(m, names, born)
        /\ Agrees(m.rank, {}, rank, Ended)
    BY <1>1, FollowsTyped DEF Accounts
  <1>6. /\ m2.bus[p].owner = o
        /\ m2.bus[p].status = IF news = Same THEN m.bus[p].status ELSE news
        /\ \A q \in Player : q # p => m2.bus[q] = m.bus[q]
        /\ m.bus[p].status \in {"playing", "paused"}
    <2>1. m.bus \in [Player -> [owner : Owner \union {Nobody}, status : {"playing", "paused"}]]
      BY <1>5 DEF Moment
    <2> QED BY <1>4, <2>1
  <1>7. names[o] = p /\ owners[o] \in {Nobody, p}
    <2>1. names[o] = p
      BY <1>3, <1>4, <1>5 DEF Named
    <2>2. owners[o] # Nobody => names[o] = owners[o]
      BY <1>1, <1>3 DEF Accounts, NamesRight
    <2> QED BY <2>1, <2>2
  <1>8. Ended' = Ended
    BY <1>1 DEF IsEnd
  <1>9. p \notin Ended => owners[o] = p /\ state[p] = m.bus[p].status
    BY <1>1, <1>3, <1>4 DEF Accounts, IsAt
  <1>10. owners' = owners /\ asked' = asked /\ at' \in {"takes", "sends"}
    BY <1>1 DEF HandlesProps, Sends
  <1>11. (\A q \in Player : ~StillAsked(q)') /\ Starting(m2)' = {}
    BY <1>1, <1>10 DEF StillAsked, Starting
  <1>12. AskedInOrder' /\ NamesRight(names)'
    BY <1>1, <1>10, <1>11 DEF AskedInOrder, Accounts, NamesRight
  <1>13. m2.rank \in {m.rank, Activated(m.rank, p)}
         /\ (m2.rank = m.rank \/ (news = "playing" /\ m.bus[p].status # "playing"))
         /\ (m2.rank = Activated(m.rank, p) \/ ~(news = "playing" /\ m.bus[p].status # "playing"))
    <2>1. news # "vanished"
      BY <1>3 DEF Same
    <2> QED BY <1>4, <2>1 DEF RankAfter
  <1>14. CASE owners[o] = Nobody
    <2>1. p \in Ended /\ at' = at /\ UNCHANGED <<event, state>>
      BY <1>1, <1>2, <1>4, <1>9, <1>14, PlayerNumbers DEF HandlesProps
    <2>2. Convinces(Queue', TrackerBelieves', BackendBelieves(rank)')
      BY <1>1, <2>1, QueueKept DEF Accounts
    <2>3. Agrees(m2.rank, Starting(m2)', rank, Ended')
      BY <1>5, <1>8, <1>11, <1>13, <2>1, AgreesChanged
    <2>4. IsAt(m2)'
      BY <1>1, <1>6, <1>8, <1>10, <2>1 DEF Accounts, IsAt
    <2>5. Accounts(m2, rank, names)'
      BY <1>1, <1>12, <2>2, <2>3, <2>4 DEF Accounts
    <2> QED BY <1>12, <2>5 DEF RankInv
  <1>15. CASE owners[o] = p
    <2>1. PICK shown : shown = Merged(p, news)
      OBVIOUS
    <2>2. state' = [state EXCEPT ![p] = shown] /\ Sends(p, state'[p])
      BY <1>2, <1>15, <2>1, PlayerNumbers DEF HandlesProps
    <2>3. shown \in {"playing", "paused", "unknown"}
          /\ (p \notin Ended => shown = m2.bus[p].status)
          /\ (shown = news \/ (news = Same /\ shown = state[p]) \/ shown = "unknown")
      <3>1. state[p] \in Shown
        BY DEF MediaTyped
      <3>2. news # "vanished" /\ Same # "playing" /\ Same # "paused"
        BY <1>3 DEF Same
      <3>3. CASE news # Same
        BY <1>3, <1>6, <2>1, <3>3 DEF Merged
      <3>4. CASE news = Same
        BY <1>6, <1>9, <2>1, <3>1, <3>4 DEF Merged, Shown, Status
      <3> QED BY <3>3, <3>4
    <2>4. /\ state'[p] = shown /\ Sends(p, shown)
          /\ \A q \in Player : q # p => state'[q] = state[q]
      BY <2>2 DEF MediaTyped
    <2>5. PICK rank2 : rank2 = RankAfter(rank, p, state[p], shown)
      OBVIOUS
    <2>6. Agrees(m2.rank, Starting(m2)', rank2, Ended')
      <3>1. rank2 = IF shown = "playing" /\ state[p] # "playing" THEN Activated(rank, p) ELSE rank
        BY <2>3, <2>5 DEF RankAfter
      <3>2. CASE p \in Ended
        BY <1>5, <1>8, <1>11, <1>13, <3>1, <3>2, AgreesChanged
      <3>3. CASE p \notin Ended
        <4>1. shown = "playing" /\ state[p] # "playing"
                  <=> news = "playing" /\ m.bus[p].status # "playing"
          BY <1>6, <1>9, <2>3, <3>3 DEF Same
        <4>2. CASE news = "playing" /\ m.bus[p].status # "playing"
          <5>1. m2.rank = Activated(m.rank, p) /\ rank2 = Activated(rank, p)
            BY <1>13, <3>1, <4>1, <4>2
          <5> QED BY <1>5, <1>8, <1>11, <5>1, AgreesChanged
        <4>3. CASE ~(news = "playing" /\ m.bus[p].status # "playing")
          <5>1. m2.rank = m.rank /\ rank2 = rank
            BY <1>13, <3>1, <4>1, <4>3
          <5> QED BY <1>5, <1>8, <1>11, <5>1
        <4> QED BY <4>2, <4>3
      <3> QED BY <3>2, <3>3
    <2>7. Convinces(Queue', TrackerBelieves', BackendBelieves(rank2)')
      <3>1. Says(p, shown)
        BY <1>1, <2>2, <2>3, <2>4 DEF Says, Shown, Status
      <3> QED BY <1>1, <2>5, <3>1, QueueSays DEF Accounts
    <2>8. IsAt(m2)'
      <3> SUFFICES ASSUME NEW q \in Player, q \notin Ended
                   PROVE  IF m2.bus[q].owner = Nobody THEN state'[q] = "vanished"
                          ELSE owners'[m2.bus[q].owner] = q /\ state'[q] = m2.bus[q].status
        BY <1>8 DEF IsAt
      <3>1. CASE q = p
        BY <1>3, <1>6, <1>10, <1>15, <2>3, <2>4, <3>1
      <3>2. CASE q # p
        <4>1. IF m.bus[q].owner = Nobody THEN state[q] = "vanished"
              ELSE owners[m.bus[q].owner] = q /\ state[q] = m.bus[q].status
          BY <1>1 DEF Accounts, IsAt
        <4> QED BY <1>6, <1>10, <2>4, <3>2, <4>1
      <3> QED BY <3>1, <3>2
    <2>9. Accounts(m2, rank2, names)'
      BY <1>1, <1>12, <2>6, <2>7, <2>8 DEF Accounts
    <2> QED BY <1>12, <2>9 DEF RankInv
  <1> QED BY <1>7, <1>14, <1>15

-----------------------------------------------------------------------------
(* The media players: the ranking is kept *)

LEMMA RankFirst == MediaInit => RankInv
  <1> SUFFICES ASSUME MediaInit PROVE RankInv
    OBVIOUS
  <1>1. MediaTyped
    BY MediaFirst DEF MediaInv
  <1>2. /\ signals = <<>> /\ events = <<>> /\ at = "lists" /\ born = Players
        /\ known = state /\ \A o \in Owner : owners[o] = Nobody
        /\ \A p \in Player : state[p] = "vanished" /\ recency[p] = {}
        /\ recency = [p \in Player |-> {}]
    BY DEF MediaInit
  <1>3. /\ \A p \in Player : \/ bus[p].owner = p
                             \/ bus[p].owner = Nobody /\ bus[p].status = "paused"
        /\ \A p \in Player : p <= Players /\ p \in Owner /\ p # Nobody
    BY PlayerNumbers DEF MediaInit, Player
  <1>4. /\ started \in Rank /\ recency \in Rank
        /\ \A p \in Player, q \in Place :
              q \in started[p] <=> /\ bus[p].status = "playing" /\ q # p
                                   /\ q < p \/ bus[q].status # "playing"
    BY <1>2 DEF MediaInit, Rank
  <1>5. PICK m, names : m = BusIs /\ names = [o \in Owner |-> o]
    OBVIOUS
  <1>6. m \in Moment /\ m.bus = bus /\ m.rank = started
    BY <1>1, <1>4, <1>5 DEF BusIs, Moment, MediaTyped
  <1>7. AskedInOrder
    BY <1>2 DEF AskedInOrder
  <1>8. Convinces(Queue, TrackerBelieves, BackendBelieves(recency))
    <2>1. TrackerBelieves = BackendBelieves(recency) /\ TrackerBelieves \in Belief
      BY <1>1, <1>2, <1>4 DEF TrackerBelieves, BackendBelieves, Belief, MediaTyped
    <2> QED BY <1>2, <2>1, ConvincedAtOnce DEF Queue
  <1>9. Leads(signals, names, born, m, BusIs)
    <2>1. Named(m, names, born)
      BY <1>2, <1>3, <1>5, <1>6 DEF Named
    <2> QED BY <1>2, <1>5, <1>6, <2>1, LeadsNowhere
  <1>10. Agrees(m.rank, Starting(m), recency, Ended)
    <2> SUFFICES ASSUME NEW a \in Player, NEW b \in Place
                 PROVE  b \in started[a] <=>
                            \/ a \in Starting(m) /\ b # a /\ (b \in Starting(m) => b < a)
                            \/ a \notin Starting(m) /\ b \notin Starting(m) /\ b \in recency[a]
      BY <1>6 DEF Agrees
    <2>1. \A p \in Place : p \in Starting(m) <=> p \in Player /\ bus[p].status = "playing"
      BY <1>2, <1>6 DEF Starting, StillAsked
    <2>2. CASE b = Nobody
      <3>1. b < a /\ b # a /\ b \notin Starting(m) /\ b \notin recency[a]
        BY <1>2, <2>1, <2>2, PlayerNumbers DEF Nobody
      <3>2. b \in started[a] <=> bus[a].status = "playing"
        BY <1>4, <3>1
      <3>3. a \in Starting(m) <=> bus[a].status = "playing"
        BY <2>1 DEF Place
      <3> QED BY <3>1, <3>2, <3>3
    <2>3. CASE b \in Player
      BY <1>2, <1>4, <2>1, <2>3 DEF Place
    <2> QED BY <2>2, <2>3 DEF Place
  <1>11. IsAt(m) /\ NamesRight(names)
    BY <1>2 DEF IsAt, NamesRight, StillAsked
  <1>12. Accounts(m, recency, names)
    BY <1>8, <1>9, <1>10, <1>11 DEF Accounts
  <1> QED BY <1>7, <1>12 DEF RankInv

LEMMA MovesRanked ==
    ASSUME MediaTyped, OwnersDistinct, RankInv, ~raced,
           PlayersAct \/ \E ignored \in IgnoreLists, named \in {{}} \cup {{p} : p \in Player} :
                             Transports(named, ignored)
    PROVE  RankInv'
  <1>1. ASSUME NEW p \in Player, PlaysOrPauses(p) \/ Shows(p, Same) PROVE RankInv'
    <2>1. PICK shown \in {"playing", "paused", Same} :
              Shows(p, shown) /\ (shown = "playing" => bus[p].status # "playing")
      BY <1>1 DEF PlaysOrPauses, Same
    <2> QED BY <2>1, ShowsFollowed
  <1>2. ASSUME NEW p \in Player, NEW shown \in {"playing", "paused"},
               Appears(p, shown) \/ TakesOver(p, shown)
        PROVE  RankInv'
    BY <1>2, OwnsFollowed DEF Appears, TakesOver
  <1>3. ASSUME NEW p \in Player, Vanishes(p) PROVE RankInv'
    BY <1>3, VanishFollowed
  <1>4. CASE PlayersAct
    BY <1>1, <1>2, <1>3, <1>4 DEF PlayersAct
  <1>5. ASSUME NEW ignored \in IgnoreLists, NEW named \in {{}} \cup {{p} : p \in Player},
               Transports(named, ignored)
        PROVE  RankInv'
    BY <1>1, <1>5 DEF Transports
  <1> QED BY <1>4, <1>5

LEMMA BackendRanked ==
    ASSUME MediaTyped, \A q \in Player : SignalsTrue(q), RankInv, ~raced, ~raced', Backend
    PROVE  RankInv'
  <1>1. CASE Lists \/ AsksNext \/ OwnerAnswers \/ OwnerUnanswered \/ Sending
    BY <1>1, ListsFollowed, AsksNextFollowed, OwnerAskedFollowed, SendingFollowed
  <1>2. CASE PropertiesAnswer \/ PropertiesUnanswered
    BY <1>2, AnswerFollowed, UnansweredFollowed
  <1>3. CASE HandlesOwner \/ HandlesVanish \/ HandlesProps
    BY <1>3, OwnerTakenFollowed, VanishTakenFollowed, PropsTakenFollowed
  <1> QED BY <1>1, <1>2, <1>3 DEF Backend

(* A race stays one. *)
LEMMA RacedStays ==
    ASSUME [MediaNext]_mvars, raced
    PROVE  raced'
  <1>1. ASSUME NEW p \in Player, NEW shown, Owns(p, shown) \/ Shows(p, shown) \/ Vanishes(p)
        PROVE  raced'
    BY <1>1, Zenon DEF Owns, Shows, Vanishes
  <1>2. CASE PlayersAct
    BY <1>1, <1>2 DEF PlayersAct, Appears, TakesOver, PlaysOrPauses
  <1>3. ASSUME NEW ignored, NEW named, Transports(named, ignored) PROVE raced'
    BY <1>1, <1>3 DEF Transports, PlaysOrPauses
  <1>4. ASSUME NEW ignored, Cycles(ignored) PROVE raced'
    BY <1>4, Zenon DEF Cycles
  <1>5. CASE Tracks \/ UNCHANGED mvars
    BY <1>5 DEF Tracks, Applies, Notifies, mvars, history
  <1>6. CASE Backend
    <2>1. CASE OwnerUnanswered \/ PropertiesAnswer \/ PropertiesUnanswered
      BY <2>1, Zenon DEF OwnerUnanswered, PropertiesAnswer, PropertiesUnanswered
    <2>2. CASE Lists \/ AsksNext \/ OwnerAnswers \/ Sending
      BY <2>2 DEF Lists, AsksNext, OwnerAnswers, Sending, history
    <2>3. CASE HandlesOwner \/ HandlesVanish \/ HandlesProps
      BY <2>3 DEF HandlesOwner, HandlesVanish, HandlesProps, TakesSignal, history
    <2> QED BY <1>6, <2>1, <2>2, <2>3 DEF Backend
  <1> QED BY <1>2, <1>3, <1>4, <1>5, <1>6 DEF MediaNext, Handlers

LEMMA RankKept ==
    ASSUME MediaInv, RankInv, [MediaNext]_mvars
    PROVE  RankInv'
  <1>1. CASE raced'
    BY <1>1 DEF RankInv
  <1>2. CASE ~raced'
    <2>1. ~raced
      BY <1>2, RacedStays
    <2>2. MediaTyped /\ OwnersDistinct /\ \A q \in Player : SignalsTrue(q)
      BY DEF MediaInv
    <2>3. CASE PlayersAct
      BY <2>1, <2>2, <2>3, MovesRanked
    <2>4. CASE Backend
      BY <1>2, <2>1, <2>2, <2>4, BackendRanked
    <2>5. CASE Applies
      BY <2>1, <2>2, <2>5, AppliesFollowed
    <2>6. CASE Notifies \/ UNCHANGED mvars
      <3>1. UNCHANGED <<bus, born, backend, events, known, recency, started>>
        BY <2>6 DEF Notifies, mvars, tracker, history
      <3> QED BY <2>1, <3>1, RestFollowed
    <2>7. ASSUME NEW ignored \in IgnoreLists, Cycles(ignored) PROVE RankInv'
      BY <1>2, <2>2, <2>7, CyclesFollowed
    <2>8. ASSUME NEW ignored \in IgnoreLists, NEW named \in {{}} \cup {{p} : p \in Player},
                 Transports(named, ignored)
          PROVE  RankInv'
      BY <2>1, <2>2, <2>8, MovesRanked
    <2> QED BY <2>3, <2>4, <2>5, <2>6, <2>7, <2>8 DEF MediaNext, Tracks, Handlers
  <1> QED BY <1>1, <1>2

(* The tracker ranks the players by when each last started playing or was  *)
(* chosen on the bus, whatever came between and however it waited: for any *)
(* number of players and owners, unless a call timed out, an answer was    *)
(* ahead of the signals or a Cycle was.                                    *)
THEOREM MostRecentAlwaysWins == MediaSpec => []MostRecentWins
  <1>1. MediaInit => MediaInv /\ RankInv
    BY MediaFirst, RankFirst
  <1>2. MediaInv /\ RankInv /\ [MediaNext]_mvars => (MediaInv /\ RankInv)'
    <2>1. MediaInv /\ [MediaNext]_mvars => MediaInv'
      BY MediaTypesKept, ToldKept, DistinctKept, SignalsTrueKept, KnownKept DEF MediaInv
    <2> QED BY <2>1, RankKept
  <1>3. MediaInv /\ RankInv => MostRecentWins
    BY SettledAgrees DEF MediaInv, RankInv, MostRecentWins
  <1> QED BY <1>1, <1>2, <1>3, PTL DEF MediaSpec

-----------------------------------------------------------------------------
(* The media players: numbers to rank by *)

(* The code ranks by a counter: each player's seq is the value it was      *)
(* given last, or 0, and no two that are not 0 are the same                *)
(* (tracker.go:27-53).                                                     *)
Numbered(seq, last) ==
    /\ seq \in [Place -> Nat] /\ last \in Nat
    /\ seq[Nobody] = 0
    /\ \A p \in Player : seq[p] <= last
    /\ \A p, q \in Player : p # q /\ seq[p] = seq[q] => seq[p] = 0

RankedBy(rank, seq) == \A p \in Player, q \in Place : q \in rank[p] <=> seq[q] < seq[p]

RanksByNumber ==
    /\ recency \in Rank
    /\ \E seq, last : Numbered(seq, last) /\ RankedBy(recency, seq)

(* The player a selection takes is there, and no other would do.           *)
SelectsOne ==
    \A players \in SUBSET Player :
        players # {} => \E p \in players : \A q \in Player : IsFirst(q, players) <=> q = p

LEMMA SmallestNumber ==
    ASSUME NEW S \in SUBSET Nat, S # {}
    PROVE  \E n \in S : \A k \in S : n <= k
  <1> DEFINE R == OpToRel(<, Nat)
  <1>1. IsWellFoundedOn(R, Nat)
    BY NatLessThanWellFounded
  <1>2. PICK n \in S : \A k \in S : <<k, n>> \notin R
    <2> HIDE DEF R
    <2> QED BY <1>1, WFMin
  <1>3. \A k \in S : ~(k < n)
    BY <1>2 DEF OpToRel
  <1> QED BY <1>3

LEMMA ActivatedNumbered ==
    ASSUME NEW rank \in Rank, NEW seq, NEW last, Numbered(seq, last), RankedBy(rank, seq),
           NEW p \in Player
    PROVE  \E seq2, last2 : Numbered(seq2, last2) /\ RankedBy(Activated(rank, p), seq2)
  <1> DEFINE seq2 == [seq EXCEPT ![p] = last + 1]
  <1>1. /\ seq \in [Place -> Nat] /\ last \in Nat /\ last + 1 \in Nat /\ p \in Place /\ p # Nobody
        /\ \A q \in Player : q \in Place
    BY PlayerNumbers DEF Numbered, Place
  <1>2. seq2 \in [Place -> Nat] /\ seq2[p] = last + 1 /\ \A q \in Place : q # p => seq2[q] = seq[q]
    BY <1>1
  <1> HIDE DEF seq2
  <1>3. /\ seq[Nobody] = 0 /\ Nobody \in Place
        /\ \A q \in Place : seq[q] \in Nat /\ seq[q] <= last
        /\ \A a, b \in Player : a # b /\ seq[a] = seq[b] => seq[a] = 0
    BY <1>1 DEF Numbered, Place
  <1>4. Numbered(seq2, last + 1)
    <2>1. \A a, b \in Player : a # b /\ seq2[a] = seq2[b] => seq2[a] = 0
      BY <1>1, <1>2, <1>3
    <2>2. \A q \in Player : seq2[q] <= last + 1
      BY <1>1, <1>2, <1>3
    <2> QED BY <1>1, <1>2, <1>3, <2>1, <2>2 DEF Numbered
  <1>5. RankedBy(Activated(rank, p), seq2)
    <2> SUFFICES ASSUME NEW a \in Player, NEW b \in Place
                 PROVE  b \in Activated(rank, p)[a] <=> seq2[b] < seq2[a]
      BY DEF RankedBy
    <2>1. b \in Activated(rank, p)[a] <=> b # p /\ (a = p \/ b \in rank[a])
      BY RankPairs
    <2>2. b \in rank[a] <=> seq[b] < seq[a]
      BY DEF RankedBy
    <2>3. a \in Place /\ seq[b] \in Nat /\ seq[b] <= last /\ seq[a] \in Nat /\ seq[a] <= last
      BY <1>1, <1>3
    <2>4. CASE b = p
      BY <1>1, <1>2, <2>1, <2>3, <2>4
    <2>5. CASE b # p
      BY <1>1, <1>2, <2>1, <2>2, <2>3, <2>5
    <2> QED BY <2>4, <2>5
  <1> QED BY <1>4, <1>5

LEMMA RemovedNumbered ==
    ASSUME NEW rank \in Rank, NEW seq, NEW last, Numbered(seq, last), RankedBy(rank, seq),
           NEW p \in Player
    PROVE  \E seq2, last2 : Numbered(seq2, last2) /\ RankedBy(Removed(rank, p), seq2)
  <1> DEFINE seq2 == [seq EXCEPT ![p] = 0]
  <1>1. /\ seq \in [Place -> Nat] /\ last \in Nat /\ p \in Place /\ p # Nobody
        /\ \A q \in Player : q \in Place
    BY PlayerNumbers DEF Numbered, Place
  <1>2. seq2 \in [Place -> Nat] /\ seq2[p] = 0 /\ \A q \in Place : q # p => seq2[q] = seq[q]
    BY <1>1
  <1> HIDE DEF seq2
  <1>3. /\ seq[Nobody] = 0 /\ Nobody \in Place
        /\ \A q \in Place : seq[q] \in Nat /\ seq[q] <= last
        /\ \A a, b \in Player : a # b /\ seq[a] = seq[b] => seq[a] = 0
    BY <1>1 DEF Numbered, Place
  <1>4. Numbered(seq2, last)
    <2>1. \A a, b \in Player : a # b /\ seq2[a] = seq2[b] => seq2[a] = 0
      BY <1>1, <1>2, <1>3
    <2>2. \A q \in Player : seq2[q] <= last
      BY <1>1, <1>2, <1>3
    <2> QED BY <1>1, <1>2, <1>3, <2>1, <2>2 DEF Numbered
  <1>5. RankedBy(Removed(rank, p), seq2)
    <2> SUFFICES ASSUME NEW a \in Player, NEW b \in Place
                 PROVE  b \in Removed(rank, p)[a] <=> seq2[b] < seq2[a]
      BY DEF RankedBy
    <2>1. b \in Removed(rank, p)[a] <=> a # p /\ Nobody \in rank[a] /\ (b = p \/ b \in rank[a])
      BY RankPairs
    <2>2. (b \in rank[a] <=> seq[b] < seq[a]) /\ (Nobody \in rank[a] <=> seq[Nobody] < seq[a])
      BY <1>3 DEF RankedBy
    <2>3. a \in Place /\ seq[b] \in Nat /\ seq[a] \in Nat
      BY <1>1, <1>3
    <2>4. CASE a = p
      BY <1>2, <2>1, <2>3, <2>4
    <2>5. CASE a # p /\ b = p
      BY <1>2, <1>3, <2>1, <2>2, <2>3, <2>5
    <2>6. CASE a # p /\ b # p
      BY <1>2, <1>3, <2>1, <2>2, <2>3, <2>6
    <2> QED BY <2>4, <2>5, <2>6
  <1> QED BY <1>4, <1>5

LEMMA NumbersKept ==
    ASSUME MediaTyped, RanksByNumber, [MediaNext]_mvars
    PROVE  RanksByNumber'
  <1>1. PICK seq, last : recency \in Rank /\ Numbered(seq, last) /\ RankedBy(recency, seq)
    BY DEF RanksByNumber
  <1>2. ASSUME NEW p \in Player, recency' \in {Activated(recency, p), Removed(recency, p)}
        PROVE  RanksByNumber'
    <2>1. recency' \in Rank
      BY <1>1, <1>2 DEF Activated, Removed, Rank, Place
    <2>2. \E seq2, last2 : Numbered(seq2, last2) /\ RankedBy(recency', seq2)
      BY <1>1, <1>2, ActivatedNumbered, RemovedNumbered
    <2> QED BY <2>1, <2>2 DEF RanksByNumber
  <1>3. CASE recency' = recency
    BY <1>3 DEF RanksByNumber
  <1>4. CASE Applies
    <2>1. Head(events).player \in Player
      <3>1. Head(events) \in MediaEvent
        BY <1>4, OneLess DEF Applies, MediaTyped
      <3> QED BY <3>1 DEF MediaEvent
    <2>2. recency' \in {recency, Activated(recency, Head(events).player),
                        Removed(recency, Head(events).player)}
      BY <1>4 DEF Applies
    <2> QED BY <1>2, <1>3, <2>1, <2>2
  <1>5. ASSUME NEW ignored \in IgnoreLists, Cycles(ignored) PROVE RanksByNumber'
    <2>1. PICK p \in Player : recency' = Activated(recency, p)
      BY <1>5 DEF Cycles
    <2> QED BY <1>2, <2>1
  <1>6. ASSUME NEW p \in Player, NEW shown, Owns(p, shown) \/ Vanishes(p) \/ Shows(p, shown)
        PROVE  recency' = recency
    BY <1>6 DEF Owns, Vanishes, Shows, tracker
  <1>7. CASE PlayersAct
    BY <1>3, <1>6, <1>7 DEF PlayersAct, Appears, TakesOver, PlaysOrPauses
  <1>8. ASSUME NEW ignored, NEW named, Transports(named, ignored) PROVE recency' = recency
    BY <1>6, <1>8 DEF Transports, PlaysOrPauses
  <1>9. CASE Backend
    <2>1. recency' = recency
      BY <1>9 DEF Backend, Lists, AsksNext, HandlesOwner, HandlesVanish, HandlesProps, TakesSignal,
                  OwnerAnswers, OwnerUnanswered, PropertiesAnswer, PropertiesUnanswered, Appeared,
                  Sending, tracker
    <2> QED BY <1>3, <2>1
  <1>10. CASE Notifies \/ UNCHANGED mvars
    BY <1>3, <1>10 DEF Notifies, mvars, tracker
  <1> QED BY <1>3, <1>4, <1>5, <1>7, <1>8, <1>9, <1>10 DEF MediaNext, Tracks, Handlers

(* The highest number is first, and of those that have none the first name. *)
LEMMA NumbersSelect == RanksByNumber => SelectsOne
  <1> SUFFICES ASSUME RanksByNumber, NEW players \in SUBSET Player, players # {}
               PROVE  \E p \in players : \A q \in Player : IsFirst(q, players) <=> q = p
    BY DEF SelectsOne
  <1>1. PICK seq, last : Numbered(seq, last) /\ RankedBy(recency, seq)
    BY DEF RanksByNumber
  <1>2. /\ last \in Nat /\ \A q \in Player : seq[q] \in Nat /\ seq[q] <= last
        /\ \A a, b \in Player : a # b /\ seq[a] = seq[b] => seq[a] = 0
    BY <1>1 DEF Numbered, Place
  <1>3. \A a, b \in Player : b \in recency[a] <=> seq[b] < seq[a]
    BY <1>1 DEF RankedBy, Place
  <1> DEFINE behind == {last - seq[q] : q \in players}
  <1>4. behind \in SUBSET Nat /\ behind # {}
    BY <1>2
  <1>5. PICK least \in behind : \A k \in behind : least <= k
    <2> HIDE DEF behind
    <2> QED BY <1>4, SmallestNumber
  <1> DEFINE best == {q \in players : last - seq[q] = least}
  <1>6. best \in SUBSET Nat /\ best # {}
    BY <1>5, PlayerNumbers
  <1>7. PICK p \in best : \A q \in best : p <= q
    <2> HIDE DEF best
    <2> QED BY <1>6, SmallestNumber
  <1>8. /\ p \in Player /\ p \in players
        /\ \A q \in players : seq[q] < seq[p] \/ (seq[q] = seq[p] /\ p <= q)
    <2>1. p \in Player /\ p \in players /\ last - seq[p] = least
      BY <1>7
    <2> SUFFICES ASSUME NEW q \in players, ~(seq[q] < seq[p]) PROVE seq[q] = seq[p] /\ p <= q
      BY <2>1
    <2>2. seq[q] \in Nat /\ seq[p] \in Nat
      BY <1>2, <2>1
    <2>3. last - seq[p] <= last - seq[q]
      BY <1>5, <2>1
    <2>4. seq[q] = seq[p]
      BY <1>2, <2>2, <2>3
    <2>5. q \in best
      BY <2>1, <2>4
    <2> QED BY <1>7, <2>4, <2>5
  <1>9. ASSUME NEW q \in players, q # p PROVE Ahead(p, q) /\ ~Ahead(q, p)
    <2>1. p \in Nat /\ q \in Nat /\ q \in Player /\ seq[p] \in Nat /\ seq[q] \in Nat
      BY <1>2, <1>8, PlayerNumbers
    <2>2. (q \in recency[p] <=> seq[q] < seq[p]) /\ (p \in recency[q] <=> seq[p] < seq[q])
      BY <1>3, <1>8, <2>1
    <2> HIDE DEF best, behind
    <2> QED BY <1>8, <1>9, <2>1, <2>2 DEF Ahead
  <1>10. \A q \in Player : IsFirst(q, players) <=> q = p
    BY <1>8, <1>9 DEF IsFirst
  <1> QED BY <1>8, <1>10

(* The rankings of the model are those by the tracker's counter, and what  *)
(* a ref or the empty ref resolves to, and what a Cycle goes to, is one    *)
(* player whenever any is visible: sort.Slice gets a total order, so that  *)
(* the order in which the map is iterated (tracker.go:126-142) never shows. *)
THEOREM OneIsSelected == MediaSpec => [](RanksByNumber /\ SelectsOne)
  <1>1. MediaInit => MediaInv /\ RanksByNumber
    <2> SUFFICES ASSUME MediaInit PROVE RanksByNumber
      BY MediaFirst
    <2> DEFINE seq == [p \in Place |-> 0]
    <2>1. recency = [p \in Player |-> {}]
      BY DEF MediaInit
    <2>2. recency \in Rank
      BY <2>1 DEF Rank
    <2>3. Numbered(seq, 0)
      BY DEF Numbered, Place
    <2>4. RankedBy(recency, seq)
      BY <2>1 DEF RankedBy, Place
    <2> HIDE DEF seq
    <2> QED BY <2>2, <2>3, <2>4 DEF RanksByNumber
  <1>2. MediaInv /\ RanksByNumber /\ [MediaNext]_mvars => (MediaInv /\ RanksByNumber)'
    <2>1. MediaInv /\ [MediaNext]_mvars => MediaInv'
      BY MediaTypesKept, ToldKept, DistinctKept, SignalsTrueKept, KnownKept DEF MediaInv
    <2> QED BY <2>1, NumbersKept DEF MediaInv
  <1>3. MediaInv /\ RanksByNumber => RanksByNumber /\ SelectsOne
    BY NumbersSelect
  <1> QED BY <1>1, <1>2, <1>3, PTL DEF MediaSpec


(* A Cycle away from the player that was first.                            *)
GoesBack ==
    \A ignored \in IgnoreLists, p \in Player :
        /\ Cycles(ignored)
        /\ p = selected /\ IsFirst(p, Visible(ignored)) /\ selected' # p
        => NextInCycle(p, Visible(ignored))'

LEMMA CycleGoesBack ==
    ASSUME recency \in Rank, NEW ignored, NEW p \in Player, Cycles(ignored),
           IsFirst(p, Visible(ignored)), selected' # p
    PROVE  NextInCycle(p, Visible(ignored))'
  <1>1. PICK s \in Player : selected' = s /\ recency' = Activated(recency, s)
    BY DEF Cycles
  <1>2. Visible(ignored)' = Visible(ignored) /\ s \in Visible(ignored)
    <2>1. Visible(ignored)' = Visible(ignored)
      BY DEF Cycles, Visible
    <2>2. PICK n \in Player : NextInCycle(n, Visible(ignored)) /\ selected' = n
      BY DEF Cycles
    <2>3. n \in Visible(ignored)
      BY <2>2 DEF NextInCycle, IsFirst
    <2> QED BY <1>1, <2>1, <2>2, <2>3
  <1>3. PICK visible : visible = Visible(ignored) /\ visible \subseteq Player
    BY DEF Visible
  <1>4. \A a \in Player, b \in Player :
            b \in recency'[a] <=> b # s /\ (a = s \/ b \in recency[a])
    <2> SUFFICES ASSUME NEW a \in Player, NEW b \in Player
                 PROVE  b \in recency'[a] <=> b # s /\ (a = s \/ b \in recency[a])
      OBVIOUS
    <2>1. b \in Place
      BY DEF Place
    <2> QED BY <1>1, <2>1, RankPairs
  <1>5. \A q \in visible \ {s} : Ahead(s, q)'
    BY <1>3, <1>4 DEF Ahead
  <1>6. p \in visible \ {s} /\ \A q \in visible \ {s} : q # p => Ahead(p, q)'
    <2>1. p \in visible /\ \A q \in visible \ {p} : Ahead(p, q)
      BY <1>3 DEF IsFirst
    <2>2. p # s
      BY <1>1
    <2> SUFFICES ASSUME NEW q \in visible, q # s, q # p PROVE Ahead(p, q)'
      BY <2>1, <2>2
    <2>3. q \in recency[p] \/ (p \notin recency[q] /\ p < q)
      BY <2>1 DEF Ahead
    <2> QED BY <1>3, <1>4, <2>2, <2>3 DEF Ahead
  <1>7. visible \ {s} = {q \in visible \ {s} : Ahead(s, q)'}
    BY <1>5
  <1>8. s \in visible /\ selected' = s /\ visible = Visible(ignored)'
    BY <1>1, <1>2, <1>3
  <1>9. IsFirst(p, visible \ {s})'
    BY <1>6, <1>8 DEF IsFirst
  <1> QED BY <1>6, <1>7, <1>8, <1>9 DEF NextInCycle

(* Whoever cycles away from the first of the players, as after an earlier  *)
(* Cycle, will be taken back to it by the next one, however many there     *)
(* are: Cycle ranks what it selects first in the order it goes through     *)
(* (tracker.go:176-203).                                                   *)
THEOREM CyclingGoesBack == MediaSpec => [][GoesBack]_mvars
  <1>1. RanksByNumber /\ SelectsOne => (recency \in Rank)
    BY DEF RanksByNumber
  <1>2. recency \in Rank => GoesBack
    BY CycleGoesBack DEF GoesBack
  <1> QED BY <1>1, <1>2, OneIsSelected, PTL
=============================================================================
