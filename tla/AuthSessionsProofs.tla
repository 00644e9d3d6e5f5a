------------------------ MODULE AuthSessionsProofs ------------------------
(***************************************************************************)
(* Proofs about AuthSessions, for any number of users, logins, sessions    *)
(* and concurrent requests and for all lifetimes: a login transaction is   *)
(* redeemed once, lifetimes are capped, what is revoked stays revoked, and *)
(* streams end with their session.                                         *)
(***************************************************************************)
EXTENDS AuthSessions, TLAPS

CreateRequest == [kind : {"create"}, nonce : Nonces, oid : Users, iat : Int,
                  at : Int]
UseRequest == [kind : {"use"}, id : IDs, at : Int, stream : BOOLEAN,
               oid : Users, renew : BOOLEAN, exp : Int]
Row == [OID : Users, AuthAt : Int, ExpiresAt : Nat, RenewedAt : Int]

Types ==
    /\ now \in Nat /\ now > EntraLag
    /\ startedAt \in [Nonces -> Int]
    /\ usedNonces \in [Nonces -> Int]
    /\ sessions \in [IDs -> Row \union {NoSession}]
    /\ requests \in [Requests -> {Idle} \union CreateRequest \union UseRequest]
    /\ redeemed \in [Nonces -> Nat]
    /\ endedAt \in [IDs -> Int]

\* A request that redeems a nonce was sent with the login cookie and is
\* answered in time; its token was issued after the login began.
Creating(q) ==
    /\ startedAt[q.nonce] # Never
    /\ q.at <= startedAt[q.nonce] + loginTTL
    /\ q.at <= now /\ now <= q.at + MaxDelay
    /\ q.at > EntraLag
    /\ q.iat >= startedAt[q.nonce] - EntraLag

\* A renewal under way is within the lifetimes of its session, which is
\* still there or has ended.
Using(q) ==
    /\ q.exp \in Nat
    /\ q.exp <= q.at + idleTimeout
    /\ IF sessions[q.id] = NoSession THEN endedAt[q.id] # Never
       ELSE q.exp <= sessions[q.id].AuthAt + maxAge

InFlight == \A r \in Requests :
    /\ requests[r].kind = "create" => Creating(requests[r])
    /\ requests[r].kind = "use" => Using(requests[r])

\* A redeemed nonce is remembered for as long as it could be presented.
Remembered == \A n \in Nonces :
    /\ startedAt[n] # Never => startedAt[n] > EntraLag /\ startedAt[n] <= now
    /\ usedNonces[n] # Never =>
          /\ startedAt[n] # Never
          /\ usedNonces[n] >= startedAt[n] - EntraLag + loginTTL + maxClockSkew
    /\ redeemed[n] <= 1
    /\ redeemed[n] = 1 =>
          \/ usedNonces[n] # Never
          \/ startedAt[n] # Never /\ now > startedAt[n] + loginTTL + MaxDelay

IInv == Types /\ InFlight /\ Remembered /\ LifetimesCapped /\ RevokedForGood

\* The configuration's bounds, as facts the provers can use.
LEMMA Constants ==
    /\ idleTimeout \in Nat /\ idleTimeout > 0 /\ maxAge \in Nat
    /\ loginTTL \in Nat /\ loginTTL > 0 /\ renewInterval \in Nat
    /\ maxClockSkew \in Nat /\ EntraLag \in Nat /\ EntraLead \in Nat
    /\ MaxDelay \in Nat /\ EntraLag + MaxDelay < maxClockSkew
    /\ MaxDelay <= idleTimeout /\ streamRecheck \in Nat /\ streamRecheck > 0
    /\ "nobody" \notin Users
  BY AuthAssumption

\* Requests of different kinds are different records.
LEMMA Kinds ==
    /\ Idle.kind = "idle"
    /\ \A q \in CreateRequest : q.kind = "create"
    /\ \A q \in UseRequest : q.kind = "use"
    /\ Idle \notin CreateRequest /\ Idle \notin UseRequest
  BY DEF Idle, CreateRequest, UseRequest

\* The absent row is no row.
LEMMA Rows == NoSession \notin Row /\ NoSession.OID = "nobody" /\ NoSession.ExpiresAt = -1
  BY DEF NoSession, Row, Never

\* The empty tables satisfy the invariant.
LEMMA Initial == Init => IInv
  BY Constants, Kinds, Rows
     DEF Init, IInv, Types, InFlight, Remembered, LifetimesCapped, RevokedForGood,
         Never

\* A new login transaction has nothing redeemed yet.
LEMMA StartKeeps ==
    ASSUME IInv, NEW n \in Nonces, startLogin(n) PROVE IInv'
  <1> USE Constants, Kinds, Rows DEF IInv
  <1>1. Types'
    BY DEF startLogin, Types
  <1>2. InFlight'
    BY DEF startLogin, InFlight, Types, Creating, Using
  <1>3. Remembered'
    BY DEF startLogin, Remembered, Types, Never
  <1> QED
    BY <1>1, <1>2, <1>3 DEF startLogin, LifetimesCapped, RevokedForGood

\* What pruning leaves: rows that have not run out, and nonces that can still
\* be presented.
LEMMA PruneKeeps ==
    ASSUME IInv, Prune, now' = now,
           UNCHANGED <<startedAt, redeemed>>
    PROVE  /\ usedNonces' \in [Nonces -> Int]
           /\ sessions' \in [IDs -> Row \union {NoSession}]
           /\ endedAt' \in [IDs -> Int]
           /\ Remembered' /\ LifetimesCapped' /\ RevokedForGood'
           /\ \A id \in IDs : \/ sessions'[id] = sessions[id] /\ endedAt'[id] = endedAt[id]
                              \/ sessions'[id] = NoSession /\ endedAt'[id] # Never
  <1> USE Constants, Rows DEF IInv, Types, Prune
  <1>1. usedNonces' \in [Nonces -> Int]
    BY DEF Never
  <1>2. sessions' \in [IDs -> Row \union {NoSession}]
    OBVIOUS
  <1>3. \A id \in IDs : sessions[id] # NoSession => sessions[id].ExpiresAt \in Nat
    BY DEF Row
  <1>4. \A id \in IDs : \/ sessions'[id] = sessions[id] /\ endedAt'[id] = endedAt[id]
                        \/ sessions'[id] = NoSession /\ endedAt'[id] # Never
    BY <1>3 DEF Never
  <1>5. endedAt' \in [IDs -> Int]
    BY <1>3
  <1>6. Remembered'
    BY DEF Remembered, Never
  <1>7. LifetimesCapped'
    BY <1>4 DEF LifetimesCapped
  <1>8. RevokedForGood'
    BY <1>4 DEF RevokedForGood
  <1> QED
    BY <1>1, <1>2, <1>4, <1>5, <1>6, <1>7, <1>8

\* A redemption begins within its cookie's lifetime; pruning comes with it.
LEMMA BeginCreateKeeps ==
    ASSUME IInv, NEW r \in Requests, NEW n \in Nonces, NEW u \in Users,
           NEW iat \in IssueTimes(n), BeginCreate(r, n, u, iat)
    PROVE  IInv'
  <1> USE Constants, Kinds, Rows
  <1> DEFINE q == [kind |-> "create", nonce |-> n, oid |-> u, iat |-> iat,
                   at |-> now]
  <1>1. iat \in Int /\ iat >= startedAt[n] - EntraLag
    BY DEF IssueTimes, IInv, Types
  <1>2. q \in CreateRequest
    BY <1>1 DEF CreateRequest, IInv, Types
  <1>3. requests' = [requests EXCEPT ![r] = q]
    BY DEF BeginCreate
  <1>4. requests' \in [Requests -> {Idle} \union CreateRequest \union UseRequest]
    BY <1>2, <1>3 DEF IInv, Types
  <1>5. /\ usedNonces' \in [Nonces -> Int]
        /\ sessions' \in [IDs -> Row \union {NoSession}]
        /\ endedAt' \in [IDs -> Int]
        /\ Remembered' /\ LifetimesCapped' /\ RevokedForGood'
        /\ \A id \in IDs : \/ sessions'[id] = sessions[id] /\ endedAt'[id] = endedAt[id]
                           \/ sessions'[id] = NoSession /\ endedAt'[id] # Never
    <2>1. CASE Prune
      BY <2>1, PruneKeeps DEF BeginCreate
    <2>2. CASE UNCHANGED <<usedNonces, sessions, endedAt>>
      BY <2>2 DEF BeginCreate, IInv, Types, Remembered, LifetimesCapped,
                  RevokedForGood
    <2> QED
      BY <2>1, <2>2 DEF BeginCreate
  <1>6. Types'
    BY <1>4, <1>5 DEF BeginCreate, IInv, Types
  <1>7. InFlight'
    <2> SUFFICES ASSUME NEW p \in Requests
                 PROVE  /\ requests'[p].kind = "create" => Creating(requests[p])'
                        /\ requests'[p].kind = "use" => Using(requests[p])'
      BY DEF InFlight
    <2>1. CASE p = r
      <3>1. requests'[p] = q
        BY <1>3, <2>1 DEF IInv, Types
      <3>2. startedAt[n] \in Int /\ startedAt[n] # Never
        BY DEF BeginCreate, IInv, Types
      <3>3. Creating(requests[p])'
        BY <1>1, <3>1, <3>2 DEF BeginCreate, Creating, IInv, Types
      <3> QED
        BY <3>1, <3>3
    <2>2. CASE p # r
      <3>1. requests'[p] = requests[p]
        BY <1>3, <2>2 DEF IInv, Types
      <3>2. requests[p].kind = "create" => Creating(requests[p])'
        BY <3>1 DEF BeginCreate, IInv, InFlight, Creating
      <3>3. ASSUME requests[p].kind = "use" PROVE Using(requests[p])'
        <4>1. requests[p].id \in IDs
          BY <3>3 DEF IInv, Types, UseRequest
        <4>2. Using(requests[p])
          BY <3>3 DEF IInv, InFlight
        <4> QED
          BY <3>1, <4>1, <4>2, <1>5 DEF Using
      <3> QED
        BY <3>1, <3>2, <3>3
    <2> QED
      BY <2>1, <2>2
  <1> QED
    BY <1>5, <1>6, <1>7 DEF IInv

\* CreateAuthSession: the nonce was not used, and is remembered long enough.
LEMMA FinishCreateKeeps ==
    ASSUME IInv, NEW r \in Requests, FinishCreate(r)
    PROVE  IInv'
  <1> USE Constants, Kinds, Rows
  <1> DEFINE q == requests[r]
  <1>1. q \in CreateRequest /\ Creating(q)
    BY DEF FinishCreate, IInv, Types, InFlight
  <1>2. /\ q.nonce \in Nonces /\ q.iat \in Int /\ q.at \in Int /\ q.oid \in Users
        /\ startedAt[q.nonce] \in Int
    BY <1>1 DEF CreateRequest, IInv, Types
  <1>3. requests' = [requests EXCEPT ![r] = Idle]
    BY DEF FinishCreate
  <1>4. requests' \in [Requests -> {Idle} \union CreateRequest \union UseRequest]
    BY <1>3 DEF IInv, Types
  <1>5. \A p \in Requests : requests'[p].kind \in {"create", "use"} =>
                             p # r /\ requests'[p] = requests[p]
    BY <1>3 DEF IInv, Types
  <1>6. CASE UNCHANGED <<usedNonces, sessions, redeemed>>
    <2>1. Types'
      BY <1>4, <1>6 DEF FinishCreate, IInv, Types
    <2>2. InFlight'
      BY <1>5, <1>6 DEF FinishCreate, IInv, InFlight, Creating, Using
    <2>3. Remembered' /\ LifetimesCapped' /\ RevokedForGood'
      BY <1>6 DEF FinishCreate, IInv, Remembered, LifetimesCapped, RevokedForGood
    <2> QED
      BY <2>1, <2>2, <2>3 DEF IInv
  <1>7. ASSUME usedNonces[q.nonce] = Never,
               usedNonces' = [usedNonces EXCEPT ![q.nonce] = nonceExpiry(q.iat)],
               redeemed' = [redeemed EXCEPT ![q.nonce] = @ + 1],
               NEW id \in IDs,
               sessions[id] = NoSession, endedAt[id] = Never,
               sessions' = [sessions EXCEPT ![id] =
                   [OID |-> q.oid, AuthAt |-> q.iat,
                    ExpiresAt |-> expiry(q.iat, q.at), RenewedAt |-> q.at]]
        PROVE  IInv'
    <2> DEFINE s == [OID |-> q.oid, AuthAt |-> q.iat,
                     ExpiresAt |-> expiry(q.iat, q.at), RenewedAt |-> q.at]
    <2>1. q.iat > 0 /\ q.at > 0
      <3>1. startedAt[q.nonce] > EntraLag
        BY <1>1, <1>2 DEF Creating, IInv, Remembered
      <3> QED
        BY <1>1, <1>2, <3>1 DEF Creating
    <2>2. /\ expiry(q.iat, q.at) \in Nat
          /\ expiry(q.iat, q.at) <= q.at + idleTimeout
          /\ expiry(q.iat, q.at) <= q.iat + maxAge
      BY <1>2, <2>1 DEF expiry, Earlier
    <2>3. s \in Row
      BY <1>2, <2>2 DEF Row
    <2>4. /\ nonceExpiry(q.iat) \in Int
          /\ nonceExpiry(q.iat) >= startedAt[q.nonce] - EntraLag + loginTTL + maxClockSkew
          /\ nonceExpiry(q.iat) > 0
      BY <1>1, <1>2, <2>1 DEF nonceExpiry, Creating
    <2>5. Types'
      BY <1>2, <1>4, <1>7, <2>3, <2>4 DEF FinishCreate, IInv, Types
    <2>6. redeemed[q.nonce] = 0
      BY <1>1, <1>2, <1>7 DEF IInv, Types, Remembered, Creating
    <2>7. Remembered'
      BY <1>1, <1>2, <1>7, <2>4, <2>6
         DEF FinishCreate, IInv, Types, Remembered, Creating, Never
    <2>8. LifetimesCapped'
      BY <1>7, <2>2 DEF IInv, Types, LifetimesCapped
    <2>9. RevokedForGood'
      BY <1>7 DEF FinishCreate, IInv, Types, RevokedForGood
    <2>10. InFlight'
      <3>1. ASSUME NEW p \in Requests, requests'[p].kind = "create"
            PROVE  Creating(requests[p])'
        BY <1>5, <3>1 DEF FinishCreate, IInv, InFlight, Creating
      <3>2. ASSUME NEW p \in Requests, requests'[p].kind = "use"
            PROVE  Using(requests[p])'
        <4>1. requests'[p] = requests[p] /\ Using(requests[p])
          BY <1>5, <3>2 DEF IInv, InFlight
        <4>2. requests[p].id \in IDs
          BY <3>2, <4>1 DEF IInv, Types, UseRequest
        <4>3. requests[p].id # id
          BY <1>7, <4>1 DEF Using
        <4>4. sessions'[requests[p].id] = sessions[requests[p].id]
          BY <1>7, <4>2, <4>3 DEF IInv, Types
        <4> QED
          BY <4>1, <4>4 DEF FinishCreate, Using
      <3> QED
        BY <3>1, <3>2 DEF InFlight
    <2> QED
      BY <2>5, <2>7, <2>8, <2>9, <2>10 DEF IInv
  <1> QED
    BY <1>6, <1>7 DEF FinishCreate

\* The renewal a request computes is within its session's lifetimes.
LEMMA BeginUseKeeps ==
    ASSUME IInv, NEW r \in Requests, NEW id \in IDs, NEW stream \in BOOLEAN,
           BeginUse(r, id, stream)
    PROVE  IInv'
  <1> USE Constants, Kinds, Rows
  <1> DEFINE s == sessions[id]
             q == [kind |-> "use", id |-> id, at |-> now, stream |-> stream,
                   oid |-> s.OID, renew |-> now - s.RenewedAt >= renewInterval,
                   exp |-> expiry(s.AuthAt, now)]
  <1>1. s \in Row /\ s # NoSession
    BY DEF BeginUse, live, IInv, Types
  <1>2. now \in Nat /\ s.AuthAt \in Int /\ s.ExpiresAt \in Nat /\ s.OID \in Users
    BY <1>1 DEF Row, IInv, Types
  <1>3. /\ expiry(s.AuthAt, now) \in Nat
        /\ expiry(s.AuthAt, now) <= now + idleTimeout
        /\ expiry(s.AuthAt, now) <= s.AuthAt + maxAge
    <2>1. now < s.AuthAt + maxAge
      BY DEF BeginUse, live
    <2> QED
      BY <1>2, <2>1 DEF expiry, Earlier
  <1>4. q \in UseRequest
    BY <1>2, <1>3 DEF UseRequest
  <1>5. requests' = [requests EXCEPT ![r] = q]
    BY DEF BeginUse
  <1>6. Types'
    BY <1>4, <1>5 DEF BeginUse, IInv, Types
  <1>7. InFlight'
    <2> SUFFICES ASSUME NEW p \in Requests
                 PROVE  /\ requests'[p].kind = "create" => Creating(requests[p])'
                        /\ requests'[p].kind = "use" => Using(requests[p])'
      BY DEF InFlight
    <2>1. CASE p = r
      <3>1. requests'[p] = q
        BY <1>5, <2>1 DEF IInv, Types
      <3>2. Using(requests[p])'
        BY <1>1, <1>3, <3>1 DEF BeginUse, Using
      <3> QED
        BY <3>1, <3>2
    <2>2. CASE p # r
      <3>1. requests'[p] = requests[p]
        BY <1>5, <2>2 DEF IInv, Types
      <3> QED
        BY <3>1 DEF BeginUse, IInv, InFlight, Creating, Using
    <2> QED
      BY <2>1, <2>2
  <1>8. Remembered' /\ LifetimesCapped' /\ RevokedForGood'
    BY DEF BeginUse, IInv, Remembered, LifetimesCapped, RevokedForGood
  <1> QED
    BY <1>6, <1>7, <1>8 DEF IInv

\* RenewAuthSession changes a row that is there and brings none back.
LEMMA FinishUseKeeps ==
    ASSUME IInv, NEW r \in Requests, FinishUse(r)
    PROVE  IInv'
  <1> USE Constants, Kinds, Rows
  <1> DEFINE q == requests[r]
             s == sessions[q.id]
  <1>1. q \in UseRequest /\ Using(q)
    BY DEF FinishUse, IInv, Types, InFlight
  <1>2. q.id \in IDs /\ q.at \in Int /\ q.exp \in Nat /\ q.exp <= q.at + idleTimeout
    BY <1>1 DEF UseRequest, Using
  <1>3. requests' = [requests EXCEPT ![r] = Idle]
    BY DEF FinishUse
  <1>4. \A p \in Requests : requests'[p].kind \in {"create", "use"} =>
                             p # r /\ requests'[p] = requests[p]
    BY <1>3 DEF IInv, Types
  <1>5. /\ sessions' \in [IDs -> Row \union {NoSession}]
        /\ LifetimesCapped'
        /\ \A id \in IDs : /\ sessions'[id] = NoSession <=> sessions[id] = NoSession
                           /\ sessions'[id].AuthAt = sessions[id].AuthAt
    <2>1. CASE UNCHANGED sessions
      BY <2>1 DEF IInv, Types, LifetimesCapped
    <2>2. CASE RenewAuthSession(q)
      <3>1. CASE s = NoSession
        <4>1. sessions' = sessions
          BY <1>2, <2>2, <3>1 DEF RenewAuthSession, IInv, Types
        <4> QED
          BY <2>1, <4>1
      <3>2. CASE s # NoSession
        <4> DEFINE t == [s EXCEPT !.ExpiresAt = q.exp, !.RenewedAt = q.at]
        <4>1. s \in Row
          BY <1>2, <3>2 DEF IInv, Types
        <4>2. /\ t \in Row /\ t.AuthAt = s.AuthAt /\ t.ExpiresAt = q.exp
              /\ t.RenewedAt = q.at
          BY <1>2, <4>1 DEF Row
        <4>3. sessions' = [sessions EXCEPT ![q.id] = t]
          BY <2>2, <3>2 DEF RenewAuthSession
        <4>4. q.exp <= s.AuthAt + maxAge
          BY <1>1, <3>2 DEF Using
        <4> HIDE DEF t
        <4>5. sessions' \in [IDs -> Row \union {NoSession}]
          BY <1>2, <4>2, <4>3 DEF IInv, Types
        <4>6. \A id \in IDs : IF id = q.id THEN sessions'[id] = t
                              ELSE sessions'[id] = sessions[id]
          BY <1>2, <4>3 DEF IInv, Types
        <4>7. LifetimesCapped'
          BY <1>2, <4>2, <4>4, <4>6 DEF IInv, LifetimesCapped
        <4> QED
          BY <1>2, <3>2, <4>2, <4>5, <4>6, <4>7
      <3> QED
        BY <3>1, <3>2
    <2> QED
      BY <2>1, <2>2 DEF FinishUse
  <1>6. Types'
    BY <1>3, <1>5 DEF FinishUse, IInv, Types
  <1>7. InFlight'
    <2>1. ASSUME NEW p \in Requests, requests'[p].kind = "create"
          PROVE  Creating(requests[p])'
      BY <1>4, <2>1 DEF FinishUse, IInv, InFlight, Creating
    <2>2. ASSUME NEW p \in Requests, requests'[p].kind = "use"
          PROVE  Using(requests[p])'
      <3>1. requests'[p] = requests[p] /\ Using(requests[p])
        BY <1>4, <2>2 DEF IInv, InFlight
      <3>2. requests[p].id \in IDs
        BY <2>2, <3>1 DEF IInv, Types, UseRequest
      <3> QED
        BY <1>5, <3>1, <3>2 DEF FinishUse, Using
    <2> QED
      BY <2>1, <2>2 DEF InFlight
  <1>8. Remembered' /\ RevokedForGood'
    BY <1>5 DEF FinishUse, IInv, Remembered, RevokedForGood
  <1> QED
    BY <1>5, <1>6, <1>7, <1>8 DEF IInv

\* A sign-out ends the rows it deletes.
LEMMA DeleteKeeps ==
    ASSUME IInv, NEW u \in Users, handleSessionDelete(u)
    PROVE  IInv'
  <1> USE Constants, Kinds, Rows
  <1>1. \A id \in IDs : sessions[id].OID = u =>
           sessions[id] # NoSession /\ sessions[id].ExpiresAt \in Nat
    BY DEF IInv, Types, Row
  <1>2. now \in Nat
    BY DEF IInv, Types
  <1>3. \A id \in IDs :
           \/ sessions'[id] = sessions[id] /\ endedAt'[id] = endedAt[id]
           \/ sessions'[id] = NoSession /\ endedAt'[id] \in Nat
    BY <1>1, <1>2 DEF handleSessionDelete, Earlier
  <1>4. Types'
    BY <1>1, <1>2 DEF handleSessionDelete, IInv, Types, Earlier
  <1>5. InFlight'
    <2>1. ASSUME NEW p \in Requests, requests'[p].kind = "create"
          PROVE  Creating(requests[p])'
      BY <2>1 DEF handleSessionDelete, IInv, InFlight, Creating
    <2>2. ASSUME NEW p \in Requests, requests'[p].kind = "use"
          PROVE  Using(requests[p])'
      <3>1. requests'[p] = requests[p] /\ Using(requests[p])
        BY <2>2 DEF handleSessionDelete, IInv, InFlight
      <3>2. requests[p].id \in IDs
        BY <2>2, <3>1 DEF IInv, Types, UseRequest
      <3> QED
        BY <1>3, <3>1, <3>2 DEF Using, Never
    <2> QED
      BY <2>1, <2>2 DEF InFlight
  <1>6. Remembered' /\ LifetimesCapped' /\ RevokedForGood'
    BY <1>3 DEF handleSessionDelete, IInv, Remembered, LifetimesCapped,
                RevokedForGood
  <1> QED
    BY <1>4, <1>5, <1>6 DEF IInv

\* Time passes for requests that are still within MaxDelay only.
LEMMA ElapseKeeps ==
    ASSUME IInv, Elapse PROVE IInv'
  <1> USE Constants, Kinds, Rows
  <1>1. Types'
    BY DEF Elapse, IInv, Types
  <1>2. InFlight'
    <2>1. ASSUME NEW p \in Requests, requests[p].kind = "create"
          PROVE  Creating(requests[p])'
      <3>1. requests[p] \in CreateRequest /\ Creating(requests[p])
        BY <2>1 DEF IInv, Types, InFlight
      <3>2. requests[p].at \in Int /\ now < requests[p].at + MaxDelay
        BY <3>1 DEF Elapse, CreateRequest
      <3> QED
        BY <3>1, <3>2 DEF Elapse, Creating, IInv, Types
    <2>2. ASSUME NEW p \in Requests, requests[p].kind = "use"
          PROVE  Using(requests[p])'
      BY <2>2 DEF Elapse, IInv, InFlight, Using
    <2> QED
      BY <2>1, <2>2 DEF Elapse, InFlight
  <1>3. Remembered'
    BY DEF Elapse, IInv, Types, Remembered
  <1> QED
    BY <1>1, <1>2, <1>3 DEF Elapse, IInv, LifetimesCapped, RevokedForGood

\* The invariant is inductive: one case per action.
LEMMA Inductive == IInv /\ [Next]_vars => IInv'
  <1> SUFFICES ASSUME IInv, [Next]_vars PROVE IInv'
    OBVIOUS
  <1>1. ASSUME NEW s \in streams, RecheckStream(s) \/ CloseStream(s) PROVE IInv'
    BY <1>1 DEF RecheckStream, CloseStream, IInv, Types, InFlight, Creating,
                Using, Remembered, LifetimesCapped, RevokedForGood
  <1>2. ASSUME NEW A \in SUBSET Users, Restart(A) PROVE IInv'
    <2>1. Types'
      BY <1>2 DEF Restart, IInv, Types
    <2>2. InFlight'
      BY <1>2, Kinds DEF Restart, InFlight
    <2> QED
      BY <1>2, <2>1, <2>2 DEF Restart, IInv, Remembered, LifetimesCapped,
                              RevokedForGood
  <1>3. CASE UNCHANGED vars
    BY <1>3 DEF vars, IInv, Types, InFlight, Creating, Using, Remembered,
                LifetimesCapped, RevokedForGood
  <1> QED
    BY <1>1, <1>2, <1>3, StartKeeps, BeginCreateKeeps, FinishCreateKeeps,
       BeginUseKeeps, FinishUseKeeps, DeleteKeeps, ElapseKeeps DEF Next

\* The inductive invariant holds throughout.
THEOREM Invariance == Spec => []IInv
  BY Initial, Inductive, PTL DEF Spec

\* A login transaction is redeemed at most once, for every set of users and
\* requests and all lifetimes, provided that the tolerated clock skew exceeds
\* Entra's lag and the duration of a request together.
THEOREM NoncesSingleUse == Spec => []NonceSingleUse
  <1>1. IInv => NonceSingleUse
    BY DEF IInv, Remembered, NonceSingleUse
  <1> QED
    BY <1>1, Invariance, PTL

\* Sessions never exceed their idle and absolute lifetimes.
THEOREM SessionsCapped == Spec => []LifetimesCapped
  <1>1. IInv => LifetimesCapped
    BY DEF IInv
  <1> QED
    BY <1>1, Invariance, PTL

\* A session that was revoked or pruned does not come back.
THEOREM SessionsStayRevoked == Spec => []RevokedForGood
  <1>1. IInv => RevokedForGood
    BY DEF IInv
  <1> QED
    BY <1>1, Invariance, PTL

----------------------------------------------------------------------------
(* Streams                                                                  *)

Stream == [id : IDs, oid : Users, age : Nat]

\* When a session ended or will end.
End(id) == IF sessions[id] = NoSession THEN endedAt[id]
           ELSE sessions[id].ExpiresAt

\* The id belongs to a session, which may have ended.
Taken(id) == sessions[id] # NoSession \/ endedAt[id] # Never

\* A request under way found its session live; a renewal that another request
\* read earlier and writes later does not take it back before that moment,
\* since requests are answered within the idle timeout.
UseInv(q) ==
    /\ q.at <= now /\ now <= q.at + MaxDelay
    /\ q.at <= End(q.id)
    /\ sessions[q.id] # NoSession =>
          /\ q.at < sessions[q.id].AuthAt + maxAge
          /\ q.exp = expiry(sessions[q.id].AuthAt, q.at)

\* A stream is no older since its last check than the time since its session
\* ended allows.
OpenInv(s) ==
    /\ s.age <= streamRecheck
    /\ Taken(s.id)
    /\ now <= End(s.id) + s.age + MaxDelay

StreamInv ==
    /\ streams \subseteq Stream
    /\ \A r \in Requests : requests[r].kind = "use" => UseInv(requests[r])
    /\ \A s \in streams : OpenInv(s)

\* No session begins with an id that is taken, and one that ends ends now or
\* when it was to end.
SessionsKept ==
    \A id \in IDs : Taken(id) =>
        /\ Taken(id)'
        /\ End(id)' = End(id) \/ End(id)' = now
        /\ sessions'[id] # NoSession =>
              sessions[id] # NoSession /\ sessions'[id].AuthAt = sessions[id].AuthAt

\* The end of a session is a time.
LEMMA Ends ==
    ASSUME IInv, NEW id \in IDs PROVE End(id) \in Int
  <1>1. sessions[id] # NoSession => sessions[id].ExpiresAt \in Int
    BY DEF IInv, Types, Row
  <1> QED
    BY <1>1 DEF End, IInv, Types

\* Requests and streams that do not change survive such steps.
LEMMA KeptStays ==
    ASSUME IInv, StreamInv, SessionsKept, UNCHANGED now,
           streams' \subseteq streams,
           \A r \in Requests : requests'[r].kind = "use" => requests'[r] = requests[r]
    PROVE  StreamInv'
  <1>0. now \in Nat
    BY DEF IInv, Types
  <1>1. ASSUME NEW r \in Requests, requests'[r].kind = "use"
        PROVE  UseInv(requests[r])'
    <2>1. requests'[r] = requests[r] /\ UseInv(requests[r]) /\ Using(requests[r])
      BY <1>1 DEF StreamInv, IInv, InFlight
    <2>2. requests[r] \in UseRequest
      BY <1>1, <2>1, Kinds DEF IInv, Types
    <2>3. requests[r].id \in IDs /\ Taken(requests[r].id)
      BY <2>1, <2>2 DEF UseRequest, Using, Taken
    <2>4. requests[r].at <= End(requests[r].id)'
      BY <2>1, <2>3 DEF SessionsKept, UseInv
    <2> QED
      BY <2>1, <2>3, <2>4 DEF SessionsKept, UseInv
  <1>2. ASSUME NEW s \in streams' PROVE OpenInv(s)'
    <2>1. s \in Stream /\ OpenInv(s)
      BY <1>2 DEF StreamInv
    <2>2. s.id \in IDs /\ s.age \in Nat /\ MaxDelay \in Nat
      BY <2>1, Constants DEF Stream
    <2>3. End(s.id)' = End(s.id) \/ End(s.id)' = now
      BY <2>1, <2>2 DEF SessionsKept, OpenInv
    <2>4. now' <= End(s.id)' + s.age + MaxDelay
      BY <1>0, <2>1, <2>2, <2>3 DEF OpenInv
    <2> QED
      BY <2>1, <2>2, <2>4 DEF SessionsKept, OpenInv
  <1> QED
    BY <1>1, <1>2 DEF StreamInv

\* Pruning ends sessions when they were to end.
LEMMA PruneEnds ==
    ASSUME IInv, Prune PROVE SessionsKept
  <1> SUFFICES ASSUME NEW id \in IDs, Taken(id)
               PROVE  /\ Taken(id)'
                      /\ End(id)' = End(id) \/ End(id)' = now
                      /\ sessions'[id] # NoSession =>
                            /\ sessions[id] # NoSession
                            /\ sessions'[id].AuthAt = sessions[id].AuthAt
    BY DEF SessionsKept
  <1>1. sessions[id] # NoSession => sessions[id].ExpiresAt \in Nat
    BY DEF IInv, Types, Row
  <1>2. sessions[id] = NoSession => sessions'[id] = NoSession /\ endedAt'[id] = endedAt[id]
    BY Rows DEF Prune
  <1>3. sessions[id] # NoSession =>
          \/ sessions'[id] = sessions[id]
          \/ sessions'[id] = NoSession /\ endedAt'[id] = sessions[id].ExpiresAt
    BY Rows DEF Prune
  <1> QED
    BY <1>1, <1>2, <1>3 DEF Taken, End, Never

\* A sign-out ends sessions now, unless they have run out.
LEMMA DeleteEnds ==
    ASSUME IInv, NEW u \in Users, handleSessionDelete(u) PROVE SessionsKept
  <1> SUFFICES ASSUME NEW id \in IDs, Taken(id)
               PROVE  /\ Taken(id)'
                      /\ End(id)' = End(id) \/ End(id)' = now
                      /\ sessions'[id] # NoSession =>
                            /\ sessions[id] # NoSession
                            /\ sessions'[id].AuthAt = sessions[id].AuthAt
    BY DEF SessionsKept
  <1>1. now \in Nat /\ (sessions[id] # NoSession => sessions[id].ExpiresAt \in Nat)
    BY DEF IInv, Types, Row
  <1>2. CASE sessions[id].OID # u
    BY <1>2 DEF handleSessionDelete, Taken, End
  <1>3. CASE sessions[id].OID = u
    <2>1. sessions[id] # NoSession
      BY <1>3, Rows, Constants
    <2>2. sessions'[id] = NoSession /\ endedAt'[id] = Earlier(now, sessions[id].ExpiresAt)
      BY <1>3 DEF handleSessionDelete
    <2> QED
      BY <1>1, <2>1, <2>2 DEF Taken, End, Earlier, Never
  <1> QED
    BY <1>2, <1>3

\* A renewal: the session ends after the moment its request found it live, and
\* not before any other request under way found it so.
LEMMA RenewalStreams ==
    ASSUME IInv, StreamInv, NEW r \in Requests, FinishUse(r) PROVE StreamInv'
  <1> DEFINE q == requests[r]
  <1>0. /\ now \in Nat /\ MaxDelay \in Nat /\ idleTimeout \in Nat /\ maxAge \in Nat
        /\ MaxDelay <= idleTimeout
    BY Constants DEF IInv, Types
  <1>1. q \in UseRequest /\ UseInv(q) /\ Using(q)
    BY Kinds DEF FinishUse, IInv, Types, InFlight, StreamInv
  <1>2. /\ q.id \in IDs /\ q.at \in Int /\ q.exp \in Nat /\ q.oid \in Users
        /\ q.at <= now /\ now <= q.at + MaxDelay /\ q.at <= End(q.id)
    BY <1>1 DEF UseRequest, Using, UseInv
  <1>3. UNCHANGED <<now, endedAt>> /\ Taken(q.id)
    BY <1>1 DEF FinishUse, Using, Taken
  <1>4. \A id \in IDs :
          /\ sessions'[id] = NoSession <=> sessions[id] = NoSession
          /\ sessions'[id].AuthAt = sessions[id].AuthAt
          /\ \/ sessions'[id] = sessions[id]
             \/ id = q.id /\ sessions[id] # NoSession /\ sessions'[id].ExpiresAt = q.exp
    <2>1. CASE UNCHANGED sessions
      BY <2>1
    <2>2. CASE RenewAuthSession(q)
      <3>1. CASE sessions[q.id] = NoSession
        BY <1>2, <2>2, <3>1 DEF RenewAuthSession, IInv, Types
      <3>2. CASE sessions[q.id] # NoSession
        <4> DEFINE s == sessions[q.id]
                   t == [s EXCEPT !.ExpiresAt = q.exp, !.RenewedAt = q.at]
        <4>1. s \in Row
          BY <1>2, <3>2 DEF IInv, Types
        <4>2. t \in Row /\ t.AuthAt = s.AuthAt /\ t.ExpiresAt = q.exp
          BY <1>2, <4>1 DEF Row
        <4>3. sessions' = [sessions EXCEPT ![q.id] = t]
          BY <2>2, <3>2 DEF RenewAuthSession
        <4> HIDE DEF t
        <4> QED
          BY <1>2, <3>2, <4>2, <4>3, Rows DEF IInv, Types
      <3> QED
        BY <3>1, <3>2
    <2> QED
      BY <2>1, <2>2 DEF FinishUse
  <1>5. ASSUME NEW id \in IDs
        PROVE  \/ End(id)' = End(id)
               \/ id = q.id /\ sessions[id] # NoSession /\ End(id)' = q.exp
    BY <1>3, <1>4 DEF End
  <1>6. sessions[q.id] # NoSession =>
          /\ sessions[q.id].AuthAt \in Int
          /\ q.exp = expiry(sessions[q.id].AuthAt, q.at) /\ q.at <= q.exp
    <2> SUFFICES ASSUME sessions[q.id] # NoSession
                 PROVE  /\ sessions[q.id].AuthAt \in Int
                        /\ q.exp = expiry(sessions[q.id].AuthAt, q.at)
                        /\ q.at <= q.exp
      OBVIOUS
    <2>1. sessions[q.id].AuthAt \in Int
      BY <1>2 DEF IInv, Types, Row
    <2>2. /\ q.at < sessions[q.id].AuthAt + maxAge
          /\ q.exp = expiry(sessions[q.id].AuthAt, q.at)
      BY <1>1 DEF UseInv
    <2> QED
      BY <1>0, <1>2, <2>1, <2>2 DEF expiry, Earlier
  <1>7. ASSUME NEW p \in Requests, requests'[p].kind = "use"
        PROVE  UseInv(requests[p])'
    <2>1. requests'[p] = requests[p]
      BY <1>7, Kinds DEF FinishUse, IInv, Types
    <2>2. UseInv(requests[p]) /\ requests[p] \in UseRequest
      BY <1>7, <2>1, Kinds DEF StreamInv, IInv, Types
    <2>3. requests[p].at \in Int /\ \E i \in IDs : i = requests[p].id
      BY <2>2 DEF UseRequest
    <2> PICK i \in IDs : i = requests[p].id
      BY <2>3
    <2>4. requests[p].at <= End(i)'
      <3>1. CASE End(i)' = End(i)
        BY <2>2, <3>1 DEF UseInv
      <3>2. CASE i = q.id /\ sessions[q.id] # NoSession /\ End(i)' = q.exp
        <4>1. /\ requests[p].at < sessions[q.id].AuthAt + maxAge
              /\ requests[p].at <= now
          BY <2>2, <3>2 DEF UseInv
        <4> QED
          BY <1>0, <1>2, <1>6, <2>3, <3>2, <4>1 DEF expiry, Earlier
      <3> QED
        BY <1>5, <2>3, <3>1, <3>2
    <2> QED
      BY <1>3, <1>4, <2>1, <2>2, <2>3, <2>4 DEF UseInv
  <1>8. ASSUME NEW s \in streams PROVE OpenInv(s)'
    <2>1. s.id \in IDs /\ s.age \in Nat /\ OpenInv(s)
      BY DEF StreamInv, Stream
    <2>2. now <= End(s.id)' + s.age + MaxDelay
      BY <1>0, <1>2, <1>5, <1>6, <2>1 DEF OpenInv
    <2> QED
      BY <1>3, <1>4, <2>1, <2>2 DEF OpenInv, Taken
  <1>9. ASSUME NEW s, s = [id |-> q.id, oid |-> q.oid, age |-> 0]
        PROVE  s \in Stream /\ OpenInv(s)'
    <2>1. s.id = q.id /\ s.age = 0 /\ s \in Stream
      BY <1>2, <1>9 DEF Stream
    <2>2. q.at <= End(s.id)'
      BY <1>2, <1>5, <1>6, <2>1
    <2>3. End(s.id)' \in Int
      BY <1>2, <1>5, <2>1, Ends
    <2>4. now <= End(s.id)' + 0 + MaxDelay
      BY <1>0, <1>2, <2>2, <2>3
    <2> QED
      BY <1>2, <1>3, <1>4, <2>1, <2>4, Constants DEF OpenInv, Taken
  <1>10. \A s \in streams' : s \in Stream /\ OpenInv(s)'
    BY <1>8, <1>9 DEF FinishUse, StreamInv
  <1> QED
    BY <1>7, <1>10 DEF StreamInv

\* The streams' invariant at every other step.
LEMMA StreamStep == IInv /\ StreamInv /\ [Next]_vars => StreamInv'
  <1> SUFFICES ASSUME IInv, StreamInv, [Next]_vars PROVE StreamInv'
    OBVIOUS
  <1>0. UNCHANGED <<sessions, endedAt>> => SessionsKept
    BY DEF SessionsKept, Taken, End
  <1>1. ASSUME NEW n \in Nonces, startLogin(n) PROVE StreamInv'
    BY <1>0, <1>1, KeptStays DEF startLogin
  <1>2. ASSUME NEW r \in Requests, NEW n \in Nonces, NEW u \in Users,
               NEW iat \in IssueTimes(n), BeginCreate(r, n, u, iat)
        PROVE  StreamInv'
    <2>1. SessionsKept
      BY <1>0, <1>2, PruneEnds DEF BeginCreate
    <2>2. \A p \in Requests : requests'[p].kind = "use" => requests'[p] = requests[p]
      BY <1>2 DEF BeginCreate, IInv, Types
    <2> QED
      BY <1>2, <2>1, <2>2, KeptStays DEF BeginCreate
  <1>3. ASSUME NEW r \in Requests, FinishCreate(r) PROVE StreamInv'
    <2>1. SessionsKept
      <3>1. CASE UNCHANGED sessions
        BY <1>0, <1>3, <3>1 DEF FinishCreate
      <3>2. CASE \E id \in IDs :
                   /\ sessions[id] = NoSession /\ endedAt[id] = Never
                   /\ \A other \in IDs \ {id} : sessions'[other] = sessions[other]
        BY <1>3, <3>2 DEF FinishCreate, SessionsKept, Taken, End
      <3> QED
        BY <1>3, <3>1, <3>2 DEF FinishCreate, IInv, Types
    <2>2. \A p \in Requests : requests'[p].kind = "use" => requests'[p] = requests[p]
      BY <1>3, Kinds DEF FinishCreate, IInv, Types
    <2> QED
      BY <1>3, <2>1, <2>2, KeptStays DEF FinishCreate
  <1>4. ASSUME NEW r \in Requests, NEW id \in IDs, NEW stream \in BOOLEAN,
               BeginUse(r, id, stream)
        PROVE  StreamInv'
    <2> DEFINE s == sessions[id]
               q == [kind |-> "use", id |-> id, at |-> now, stream |-> stream,
                     oid |-> s.OID, renew |-> now - s.RenewedAt >= renewInterval,
                     exp |-> expiry(s.AuthAt, now)]
    <2>1. requests' = [requests EXCEPT ![r] = q] /\ UNCHANGED <<now, sessions, endedAt, streams>>
      BY <1>4 DEF BeginUse
    <2>2. /\ now \in Nat /\ MaxDelay \in Nat /\ s # NoSession /\ s.ExpiresAt \in Nat
          /\ now < s.ExpiresAt /\ now < s.AuthAt + maxAge
      BY <1>4, Constants DEF BeginUse, live, IInv, Types, Row
    <2> PICK c : c = q
      OBVIOUS
    <2>3. UseInv(c)'
      BY <2>1, <2>2 DEF UseInv, End
    <2>4. ASSUME NEW p \in Requests, requests'[p].kind = "use"
          PROVE  UseInv(requests[p])'
      <3>1. CASE p = r
        <4>1. requests'[p] = c
          BY <2>1, <3>1 DEF IInv, Types
        <4> HIDE DEF q
        <4> QED
          BY <2>3, <4>1
      <3>2. CASE p # r
        <4>1. requests'[p] = requests[p]
          BY <2>1, <3>2 DEF IInv, Types
        <4> HIDE DEF q
        <4> QED
          BY <2>1, <2>4, <4>1 DEF StreamInv, UseInv, End
      <3> QED
        BY <3>1, <3>2
    <2>5. \A t \in streams' : OpenInv(t)'
      BY <2>1 DEF StreamInv, OpenInv, End, Taken
    <2> HIDE DEF q
    <2> QED
      BY <2>1, <2>4, <2>5 DEF StreamInv
  <1>5. ASSUME NEW s \in streams, RecheckStream(s) PROVE StreamInv'
    <2>0. UNCHANGED <<now, sessions, endedAt, requests>>
      BY <1>5 DEF RecheckStream
    <2>1. CASE streams' = streams \ {s}
      BY <1>0, <1>5, <2>0, <2>1, KeptStays
    <2>2. CASE recheck(s) /\ streams' = (streams \ {s}) \union {[s EXCEPT !.age = 0]}
      <3> DEFINE t == [s EXCEPT !.age = 0]
      <3>1. t \in Stream /\ t.id = s.id /\ t.age = 0 /\ s.id \in IDs
        BY DEF StreamInv, Stream
      <3>2. /\ sessions[s.id] # NoSession /\ now < sessions[s.id].ExpiresAt
            /\ sessions[s.id].ExpiresAt \in Nat /\ now \in Nat
        BY <2>2, <3>1 DEF recheck, live, IInv, Types, Row
      <3> HIDE DEF t
      <3>3. OpenInv(t)'
        BY <2>0, <3>1, <3>2, Constants DEF OpenInv, Taken, End
      <3>4. \A u \in streams' : u \in Stream /\ OpenInv(u)'
        <4>1. \A u \in streams : u \in Stream /\ OpenInv(u)'
          BY <2>0 DEF StreamInv, OpenInv, Taken, End
        <4> QED
          BY <2>2, <3>1, <3>3, <4>1 DEF t
      <3>5. \A r \in Requests : requests'[r].kind = "use" => UseInv(requests[r])'
        BY <2>0 DEF StreamInv, UseInv, End
      <3> QED
        BY <3>4, <3>5 DEF StreamInv
    <2> QED
      BY <1>5, <2>1, <2>2 DEF RecheckStream
  <1>6. ASSUME NEW s \in streams, CloseStream(s) PROVE StreamInv'
    BY <1>0, <1>6, KeptStays DEF CloseStream
  <1>7. ASSUME NEW u \in Users, handleSessionDelete(u) PROVE StreamInv'
    BY <1>7, DeleteEnds, KeptStays DEF handleSessionDelete
  <1>8. ASSUME NEW A \in SUBSET Users, Restart(A) PROVE StreamInv'
    <2>1. \A p \in Requests : requests'[p].kind = "use" => requests'[p] = requests[p]
      BY <1>8, Kinds DEF Restart
    <2> QED
      BY <1>0, <1>8, <2>1, KeptStays DEF Restart
  <1>9. CASE Elapse
    <2>0. now \in Nat /\ now' = now + 1 /\ UNCHANGED <<sessions, endedAt, requests>>
      BY <1>9 DEF Elapse, IInv, Types
    <2>1. ASSUME NEW r \in Requests, requests'[r].kind = "use"
          PROVE  UseInv(requests[r])'
      <3>1. requests[r] \in UseRequest /\ UseInv(requests[r]) /\ requests[r] # Idle
        BY <2>0, <2>1, Kinds DEF StreamInv, IInv, Types
      <3>2. requests[r].at \in Int /\ now < requests[r].at + MaxDelay
        BY <1>9, <3>1 DEF Elapse, UseRequest
      <3> QED
        BY <2>0, <3>1, <3>2, Constants DEF UseInv, End
    <2>2. ASSUME NEW t \in streams' PROVE t \in Stream /\ OpenInv(t)'
      <3>1. PICK s \in streams : t = [s EXCEPT !.age = @ + 1]
        BY <1>9, <2>2 DEF Elapse
      <3>2. s \in Stream /\ OpenInv(s) /\ s.age < streamRecheck
        BY <1>9 DEF Elapse, StreamInv
      <3>3. t \in Stream /\ t.id = s.id /\ t.age = s.age + 1 /\ s.age \in Nat /\ s.id \in IDs
        BY <3>1, <3>2 DEF Stream
      <3>4. End(s.id) \in Int /\ End(s.id)' = End(s.id)
        BY <2>0, <3>3, Ends DEF End
      <3> QED
        BY <2>0, <3>2, <3>3, <3>4, Constants DEF OpenInv, Taken
    <2> QED
      BY <2>1, <2>2 DEF StreamInv
  <1>10. CASE UNCHANGED vars
    BY <1>0, <1>10, KeptStays DEF vars
  <1> QED
    BY <1>1, <1>2, <1>3, <1>4, <1>5, <1>6, <1>7, <1>8, <1>9, <1>10,
       RenewalStreams DEF Next

\* No stream outlives its session by more than the recheck interval and the
\* request that opened it, for every lifetime and number of requests, provided
\* that a request is answered within the idle timeout.
THEOREM StreamsEnd == Spec => []StreamsEndSoon
  <1>1. Init => StreamInv
    BY Kinds DEF Init, StreamInv
  <1>2. IInv /\ StreamInv => StreamsEndSoon
    <2> SUFFICES ASSUME IInv, StreamInv, NEW s \in streams
                 PROVE  now <= End(s.id) + streamRecheck + MaxDelay
      BY DEF StreamsEndSoon, End
    <2>1. s.id \in IDs /\ s.age \in Nat /\ OpenInv(s)
      BY DEF StreamInv, Stream
    <2>2. End(s.id) \in Int /\ now \in Nat
      BY <2>1, Ends DEF IInv, Types
    <2> QED
      BY <2>1, <2>2, Constants DEF OpenInv
  <1> QED
    BY <1>1, <1>2, Invariance, StreamStep, PTL DEF Spec
=============================================================================
