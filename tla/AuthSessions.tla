--------------------------- MODULE AuthSessions ---------------------------
(***************************************************************************)
(* Dashboard sign-in: internal/web/session.go, entra.go and stream.go over *)
(* the tables of internal/storage/auth_sessions.go.                        *)
(*                                                                         *)
(* A login transaction gives the browser a nonce; the Entra ID token minted *)
(* for it is redeemed, once, for a server-side session with an idle and an *)
(* absolute lifetime.  Requests read the session first and write its       *)
(* renewal later, so sign-outs, prunings and other requests come between;  *)
(* event streams check their session again from time to time.              *)
(*                                                                         *)
(* Cookies.  A login cookie is presented until its Max-Age runs out, a     *)
(* session cookie for ever: the responses that clear them may be lost.     *)
(* Ids and nonces are random; the model never draws one twice.             *)
(*                                                                         *)
(* Time.  A request is answered within MaxDelay, and Entra's clock is      *)
(* behind this host's by EntraLag at most, and ahead of it by EntraLead.   *)
(***************************************************************************)
EXTENDS Integers

CONSTANTS
    Users,           \* oids
    Nonces,          \* login transactions
    IDs,             \* session ids
    Requests,        \* requests in flight at once
    idleTimeout, maxAge, loginTTL, renewInterval, maxClockSkew,
    streamRecheck,
    EntraLag, EntraLead, MaxDelay,
    MaxTime          \* bound: the clock stops here

ASSUME AuthAssumption ==
    /\ idleTimeout \in Nat \ {0} /\ maxAge \in Nat /\ maxAge >= idleTimeout
    /\ loginTTL \in Nat \ {0} /\ renewInterval \in Nat /\ maxClockSkew \in Nat
    /\ streamRecheck \in Nat \ {0}
    /\ EntraLag \in Nat /\ EntraLead \in Nat /\ MaxDelay \in Nat
    /\ MaxTime \in Nat
    /\ EntraLag + MaxDelay < maxClockSkew
    /\ MaxDelay <= idleTimeout
    /\ "nobody" \notin Users

Never == -1  \* no time

VARIABLES
    now,
    startedAt,    \* when each login transaction was started, or Never
    usedNonces,   \* auth_used_nonces: expires_at of each row, or Never
    sessions,     \* auth_sessions: the rows, or NoSession
    requests,     \* requests between their two accesses to the store
    streams,      \* open event streams
    allowed,      \* AllowedOIDs of the running process
    redeemed,     \* history: sessions created from each nonce
    endedAt       \* history: when each session was revoked or ran out

vars == <<now, startedAt, usedNonces, sessions, requests, streams,
          allowed, redeemed, endedAt>>

NoSession == [OID |-> "nobody", AuthAt |-> Never, ExpiresAt |-> Never,
              RenewedAt |-> Never]
Idle == [kind |-> "idle"]

Earlier(a, b) == IF a < b THEN a ELSE b

\* Mutant: renewals are not capped by the absolute lifetime.
expiryUncapped(authAt, t) == t + idleTimeout

\* The sliding idle expiry, capped at authAt + maxAge.
expiry(authAt, t) == Earlier(t + idleTimeout, authAt + maxAge)

live(s, t) == s # NoSession /\ t < s.ExpiresAt /\ t < s.AuthAt + maxAge

\* Tenant pinning is a constant of the deployment; the allowlist is not.
authorize(oid) == oid \in allowed

----------------------------------------------------------------------------
(* Sign-in                                                                  *)

startLogin(n) ==
    /\ startedAt[n] = Never
    /\ startedAt' = [startedAt EXCEPT ![n] = now]
    /\ UNCHANGED <<now, usedNonces, sessions, requests, streams,
                   allowed, redeemed, endedAt>>

\* External: when the token of a nonce may have been issued, on Entra's clock.
\* The browser may sign in with the same nonce more than once.
IssueTimes(n) == startedAt[n] - EntraLag .. now + EntraLead

\* PruneAuthSessions, at the time of the request that asks for it.
Prune ==
    /\ usedNonces' = [n \in Nonces |->
                        IF usedNonces[n] <= now THEN Never ELSE usedNonces[n]]
    /\ sessions' = [id \in IDs |-> IF sessions[id].ExpiresAt <= now
                                   THEN NoSession ELSE sessions[id]]
    /\ endedAt' = [id \in IDs |->
                     IF sessions[id] # NoSession /\ sessions[id].ExpiresAt <= now
                     THEN sessions[id].ExpiresAt ELSE endedAt[id]]

\* handleSessionCreate up to the insert: the cookie is there, its nonce is the
\* token's, the token is fresh, and expired rows are pruned (or the store
\* fails, which is only logged).
BeginCreate(r, n, u, iat) ==
    /\ requests[r] = Idle
    /\ startedAt[n] # Never
    /\ now <= startedAt[n] + loginTTL
    /\ authorize(u)
    /\ now - iat <= loginTTL /\ iat - now <= maxClockSkew
    /\ Prune \/ UNCHANGED <<usedNonces, sessions, endedAt>>
    /\ requests' = [requests EXCEPT ![r] =
                      [kind |-> "create", nonce |-> n, oid |-> u, iat |-> iat,
                       at |-> now]]
    /\ UNCHANGED <<now, startedAt, streams, allowed, redeemed>>

\* Mutant: the nonce is kept for the life of the token only.
nonceExpiryTight(iat) == iat + loginTTL

\* How long a redeemed nonce stays in auth_used_nonces.
nonceExpiry(iat) == iat + loginTTL + maxClockSkew

\* CreateAuthSession: one transaction consumes the nonce and inserts the
\* session; a used nonce, or a failing store, ends the request.
FinishCreate(r) ==
    /\ requests[r].kind = "create"
    /\ LET q == requests[r] IN
          \/ /\ usedNonces[q.nonce] = Never
             /\ usedNonces' = [usedNonces EXCEPT ![q.nonce] = nonceExpiry(q.iat)]
             /\ \E id \in IDs :
                   /\ sessions[id] = NoSession /\ endedAt[id] = Never
                   /\ sessions' = [sessions EXCEPT ![id] =
                        [OID |-> q.oid, AuthAt |-> q.iat,
                         ExpiresAt |-> expiry(q.iat, q.at), RenewedAt |-> q.at]]
             /\ redeemed' = [redeemed EXCEPT ![q.nonce] = @ + 1]
          \/ UNCHANGED <<usedNonces, sessions, redeemed>>
    /\ requests' = [requests EXCEPT ![r] = Idle]
    /\ UNCHANGED <<now, startedAt, streams, allowed, endedAt>>

----------------------------------------------------------------------------
(* Use                                                                      *)

\* verifySession finds a live session.  When a renewal is due it is written
\* in a second access.
BeginUse(r, id, stream) ==
    /\ requests[r] = Idle
    /\ live(sessions[id], now)
    /\ requests' = [requests EXCEPT ![r] =
                      [kind |-> "use", id |-> id, at |-> now, stream |-> stream,
                       oid |-> sessions[id].OID,
                       renew |-> now - sessions[id].RenewedAt >= renewInterval,
                       exp |-> expiry(sessions[id].AuthAt, now)]]
    /\ UNCHANGED <<now, startedAt, usedNonces, sessions, streams,
                   allowed, redeemed, endedAt>>

\* Mutant: the renewal writes the row back even if it is gone.
RenewAuthSessionUpserts(q) ==
    sessions' = [sessions EXCEPT ![q.id] =
                   [OID |-> q.oid,
                    AuthAt |-> IF @ = NoSession THEN q.at ELSE @.AuthAt,
                    ExpiresAt |-> q.exp, RenewedAt |-> q.at]]

\* UPDATE ... WHERE id_hash = ?: a row that is gone stays gone.
RenewAuthSession(q) ==
    sessions' = [sessions EXCEPT ![q.id] =
                   IF @ = NoSession THEN NoSession
                   ELSE [@ EXCEPT !.ExpiresAt = q.exp, !.RenewedAt = q.at]]

\* A failed renewal is only logged.  The user is authorized after it, and a
\* request for the stream opens it then.
FinishUse(r) ==
    /\ requests[r].kind = "use"
    /\ LET q == requests[r] IN
          /\ \/ q.renew /\ RenewAuthSession(q)
             \/ UNCHANGED sessions
          /\ streams' = IF q.stream /\ authorize(q.oid)
                        THEN streams \union {[id |-> q.id, oid |-> q.oid, age |-> 0]}
                        ELSE streams
    /\ requests' = [requests EXCEPT ![r] = Idle]
    /\ UNCHANGED <<now, startedAt, usedNonces, allowed, redeemed, endedAt>>

\* Mutant: a stream whose session is gone is left alone until it expires.
recheckExpiryOnly(s) == sessions[s.id] = NoSession \/ live(sessions[s.id], now)

\* SessionManager.check and authorize: a stream whose session cannot be
\* confirmed is closed.
recheck(s) == live(sessions[s.id], now) /\ authorize(s.oid)

RecheckStream(s) ==
    /\ s.age = streamRecheck
    /\ \/ /\ recheck(s)
          /\ streams' = (streams \ {s}) \union {[s EXCEPT !.age = 0]}
       \/ streams' = streams \ {s}
    /\ UNCHANGED <<now, startedAt, usedNonces, sessions, requests,
                   allowed, redeemed, endedAt>>

\* The browser closes the stream.
CloseStream(s) ==
    /\ streams' = streams \ {s}
    /\ UNCHANGED <<now, startedAt, usedNonces, sessions, requests,
                   allowed, redeemed, endedAt>>

----------------------------------------------------------------------------
(* Sign-out, restart, time                                                  *)

\* handleSessionDelete, for the user of a token or of a live session: one
\* statement deletes all of the user's sessions.
handleSessionDelete(u) ==
    /\ \/ authorize(u)
       \/ \E id \in IDs : sessions[id].OID = u /\ live(sessions[id], now)
    /\ sessions' = [id \in IDs |-> IF sessions[id].OID = u THEN NoSession
                                   ELSE sessions[id]]
    /\ endedAt' = [id \in IDs |-> IF sessions[id].OID = u
                                  THEN Earlier(now, sessions[id].ExpiresAt)
                                  ELSE endedAt[id]]
    /\ UNCHANGED <<now, startedAt, usedNonces, requests, streams,
                   allowed, redeemed>>

\* The process ends and starts again with another allowlist; the tables stay.
Restart(A) ==
    /\ allowed' = A
    /\ requests' = [r \in Requests |-> Idle]
    /\ streams' = {}
    /\ UNCHANGED <<now, startedAt, usedNonces, sessions, redeemed, endedAt>>

Elapse ==
    /\ now < MaxTime
    /\ \A r \in Requests : requests[r] # Idle => now < requests[r].at + MaxDelay
    /\ \A s \in streams : s.age < streamRecheck
    /\ now' = now + 1
    /\ streams' = {[s EXCEPT !.age = @ + 1] : s \in streams}
    /\ UNCHANGED <<startedAt, usedNonces, sessions, requests, allowed,
                   redeemed, endedAt>>

Init ==
    /\ now = EntraLag + 1  \* iat is never 0
    /\ startedAt = [n \in Nonces |-> Never]
    /\ usedNonces = [n \in Nonces |-> Never]
    /\ sessions = [id \in IDs |-> NoSession]
    /\ requests = [r \in Requests |-> Idle]
    /\ streams = {}
    /\ allowed = Users
    /\ redeemed = [n \in Nonces |-> 0]
    /\ endedAt = [id \in IDs |-> Never]

Next ==
    \/ \E n \in Nonces : startLogin(n)
    \/ \E r \in Requests, n \in Nonces, u \in Users :
          \E iat \in IssueTimes(n) : BeginCreate(r, n, u, iat)
    \/ \E r \in Requests : FinishCreate(r) \/ FinishUse(r)
    \/ \E r \in Requests, id \in IDs, stream \in BOOLEAN : BeginUse(r, id, stream)
    \/ \E s \in streams : RecheckStream(s) \/ CloseStream(s)
    \/ \E u \in Users : handleSessionDelete(u)
    \/ \E A \in SUBSET Users : Restart(A)
    \/ Elapse

Spec == Init /\ [][Next]_vars

----------------------------------------------------------------------------
(* Properties                                                               *)

\* The SessionManager's comment, "each nonce is single-use": no replay, retry
\* or second sign-in redeems a login transaction twice, although used nonces
\* are pruned.
NonceSingleUse == \A n \in Nonces : redeemed[n] <= 1

\* The SessionManager's comment on lifetimes: whatever renewals overlap, a
\* session runs out idleTimeout after a use and maxAge after the sign-in.
LifetimesCapped ==
    \A id \in IDs : sessions[id] # NoSession =>
       /\ sessions[id].ExpiresAt <= sessions[id].AuthAt + maxAge
       /\ sessions[id].ExpiresAt <= sessions[id].RenewedAt + idleTimeout

\* Signing out revokes: a session that was deleted never comes back, not even
\* through a renewal that was under way.
RevokedForGood == \A id \in IDs : endedAt[id] # Never => sessions[id] = NoSession

\* Streams end: none outlives its session by more than the recheck interval
\* and the request that opened it.
StreamsEndSoon ==
    \A s \in streams :
       LET ended == IF sessions[s.id] = NoSession THEN endedAt[s.id]
                    ELSE sessions[s.id].ExpiresAt
       IN  now <= ended + streamRecheck + MaxDelay
=============================================================================
