---------------------------- MODULE TeslaTokens ----------------------------
(***************************************************************************)
(* The refresh tokens of the Tesla Fleet API: internal/tesla/client.go,    *)
(* activating.go and tokenfile.go, the callback of internal/web/oauth.go   *)
(* and the start-up of cmd/server/main.go.                                 *)
(*                                                                         *)
(* Tesla (external) exchanges a refresh token once: the exchange consumes  *)
(* it and the answer carries its successor, which the client stores and    *)
(* persists for the next start.  Requests of several goroutines refresh,   *)
(* OAuth callbacks bring tokens of new grants, the process may end at any  *)
(* time, answers and writes may fail.                                      *)
(*                                                                         *)
(* Every action is what one thread does between two acquisitions of a      *)
(* mutex, or one exchange with Tesla.                                      *)
(***************************************************************************)
EXTENDS Integers

CONSTANTS
    Callers,       \* goroutines that make vehicle requests: Run, handlers,
                   \* and ForceRefresh at the end of a callback
    Callbacks,     \* requests to the OAuth callback
    Main,          \* the goroutine that starts the process
    Clients,       \* TeslaClient objects
    Configured,    \* TESLA_REFRESH_TOKEN: token 1, or 0 for none
    MaxTokens      \* bound: tokens Tesla issues

Actors == Callers \union Callbacks \union {Main}
None == 0          \* no token
Token == 1 .. MaxTokens
Nobody == "nobody"
Unavailable == "unavailable"

ASSUME TokensAssumption ==
    /\ MaxTokens \in Nat /\ MaxTokens >= 1
    /\ Configured \in {0, 1}
    /\ Main \notin Callers \union Callbacks
    /\ Callers \intersect Callbacks = {}
    /\ Nobody \notin Actors
    /\ Unavailable \notin Clients

VARIABLES
    active,        \* ActivatingController.active
    refreshToken, refreshMu,
    fresh,         \* the access token is not near its expiry
    disk,          \* the token file
    thread,        \* per goroutine: its step, what it is doing (mode), its
                   \* client, the token it presents and the one it received
    issued,        \* external: tokens 1 .. issued exist
    consumed,      \* external: tokens Tesla has exchanged
    grant,         \* history: the first token of each token's grant
    forgiven,      \* history: tokens whose successor was lost to a fault
    crowded,       \* history: callbacks that overlap, or overlapped, another
    floor          \* history: the grant of the last callback to succeed
                   \* without being crowded

client == <<active, refreshToken, refreshMu, fresh>>
tesla == <<issued, consumed, grant>>
history == <<forgiven, crowded, floor>>
vars == <<client, disk, thread, tesla, history>>

Thread == [step : {"idle", "resolve", "write", "activate", "lock", "exchange",
                   "store", "persist", "send", "promote"},
           mode : {"request", "retry", "set", "new"},
           client : Clients \union {Unavailable},
           old : Token \union {None}, new : Token \union {None}]

Idle == [step |-> "idle", mode |-> "request", client |-> Unavailable,
         old |-> None, new |-> None]

\* The server is not up before the vehicle controller is there.
Started == thread[Main] = Idle

----------------------------------------------------------------------------
(* Refreshing: refreshAccessTokenLocked                                     *)

\* What the holder of refreshMu does first.
Locked(a) ==
    /\ LET c == thread[a].client
           setting == thread[a].mode = "set"
       IN  /\ refreshMu' = [refreshMu EXCEPT ![c] = a]
           /\ refreshToken' = IF setting
                              THEN [refreshToken EXCEPT ![c] = thread[a].old]
                              ELSE refreshToken
           /\ thread' = [thread EXCEPT
                           ![a].step = "exchange",
                           ![a].old = IF setting THEN @ ELSE refreshToken[c]]
    /\ UNCHANGED <<active, fresh, disk, tesla, history>>

\* Mutant: SetRefreshToken does not wait for a refresh that is under way.
LockUnlessSetting(a) ==
    /\ thread[a].step = "lock"
    /\ thread[a].mode = "set" \/ refreshMu[thread[a].client] = Nobody
    /\ Locked(a)

\* refreshMu.Lock in refreshAccessToken or SetRefreshToken, the latter
\* replacing the client's token at once.
Lock(a) ==
    /\ thread[a].step = "lock"
    /\ refreshMu[thread[a].client] = Nobody
    /\ Locked(a)

\* The answer carries a new refresh token.
Rotated(a) ==
    /\ thread[a].step = "exchange"
    /\ thread[a].old \notin consumed
    /\ issued < MaxTokens
    /\ consumed' = consumed \union {thread[a].old}
    /\ issued' = issued + 1
    /\ grant' = [grant EXCEPT ![issued + 1] = grant[thread[a].old]]
    /\ thread' = [thread EXCEPT ![a].step = "store", ![a].new = issued + 1]
    /\ UNCHANGED <<client, disk, history>>

\* The answer carries none, or the same one.
Kept(a) ==
    /\ thread[a].step = "exchange"
    /\ thread[a].old \notin consumed
    /\ thread' = [thread EXCEPT ![a].step = "store", ![a].new = thread[a].old]
    /\ UNCHANGED <<client, disk, tesla, history>>

\* The deferred unlock of a failed refresh; New drops the client it made.
Fail(a) ==
    /\ refreshMu' = [refreshMu EXCEPT ![thread[a].client] = Nobody]
    /\ refreshToken' = [refreshToken EXCEPT ![thread[a].client] =
                          IF thread[a].mode = "new" THEN None ELSE @]
    /\ thread' = [thread EXCEPT ![a] = Idle]
    /\ UNCHANGED <<active, fresh, disk, crowded, floor>>

\* Refused, unreachable, timed out or given up: nothing was exchanged.
Refused(a) ==
    /\ thread[a].step = "exchange"
    /\ Fail(a)
    /\ UNCHANGED <<tesla, forgiven>>

\* Exchanged, but the answer does not arrive or cannot be decoded.
AnswerLost(a) ==
    /\ thread[a].step = "exchange"
    /\ thread[a].old \notin consumed
    /\ consumed' = consumed \union {thread[a].old}
    /\ forgiven' = forgiven \union {thread[a].old}
    /\ Fail(a)
    /\ UNCHANGED <<issued, grant>>

\* A callback succeeds.
Activated(a) ==
    /\ floor' = IF a \in Callbacks \ crowded THEN grant[thread[a].new] ELSE floor
    /\ UNCHANGED crowded

\* refreshAccessToken returns: SetRefreshToken is done, New gives its client
\* to be promoted, a request goes on.
Return(a) ==
    /\ refreshMu' = [refreshMu EXCEPT ![thread[a].client] = Nobody]
    /\ \/ /\ thread[a].mode = "set"
          /\ thread' = [thread EXCEPT ![a] = Idle]
          /\ Activated(a)
       \/ /\ thread[a].mode # "set"
          /\ thread' = [thread EXCEPT ![a].step =
                          IF thread[a].mode = "new" THEN "promote" ELSE "send"]
          /\ UNCHANGED <<crowded, floor>>

\* Mutant: the lock is released before the token is persisted.
StoreUnlocks(a) ==
    /\ thread[a].step = "store"
    /\ refreshToken' = [refreshToken EXCEPT ![thread[a].client] = thread[a].new]
    /\ fresh' = [fresh EXCEPT ![thread[a].client] = TRUE]
    /\ refreshMu' = [refreshMu EXCEPT ![thread[a].client] = Nobody]
    /\ thread' = [thread EXCEPT ![a].step = "persist"]
    /\ UNCHANGED <<active, disk, tesla, history>>

\* Only a rotated token is persisted.
Store(a) ==
    /\ thread[a].step = "store"
    /\ refreshToken' = [refreshToken EXCEPT ![thread[a].client] = thread[a].new]
    /\ fresh' = [fresh EXCEPT ![thread[a].client] = TRUE]
    /\ \/ /\ thread[a].new # thread[a].old
          /\ thread' = [thread EXCEPT ![a].step = "persist"]
          /\ UNCHANGED <<refreshMu, crowded, floor>>
       \/ thread[a].new = thread[a].old /\ Return(a)
    /\ UNCHANGED <<active, disk, tesla, forgiven>>

\* WriteRefreshTokenFile replaces the file or leaves it alone; its failure is
\* only logged.
Persist(a) ==
    /\ thread[a].step = "persist"
    /\ \/ disk' = thread[a].new /\ UNCHANGED forgiven
       \/ UNCHANGED disk /\ forgiven' = forgiven \union {thread[a].old}
    /\ Return(a)
    /\ UNCHANGED <<active, refreshToken, fresh, tesla>>

----------------------------------------------------------------------------
(* Requests: doRequest                                                      *)

BeginRequest(a) ==
    /\ Started
    /\ thread[a] = Idle
    /\ active # Unavailable
    /\ thread' = [thread EXCEPT ![a].client = active,
                                ![a].step = IF fresh[active] THEN "send" ELSE "lock"]
    /\ UNCHANGED <<client, disk, tesla, history>>

\* The answer to the request: final, or 401 the first time.
Send(a) ==
    /\ thread[a].step = "send"
    /\ \/ thread' = [thread EXCEPT ![a] = Idle]
       \/ /\ thread[a].mode = "request"
          /\ thread' = [thread EXCEPT ![a].mode = "retry", ![a].step = "lock"]
    /\ UNCHANGED <<client, disk, tesla, history>>

\* The access token comes within a minute of its expiry.
Expire(c) ==
    /\ fresh[c]
    /\ fresh' = [fresh EXCEPT ![c] = FALSE]
    /\ UNCHANGED <<active, refreshToken, refreshMu, disk, thread, tesla,
                   history>>

----------------------------------------------------------------------------
(* OAuth: handleOAuthCallback and ActivatingController.SetRefreshToken      *)

\* The callback's state is valid and its code is exchanged.
handleOAuthCallback(a) ==
    /\ Started
    /\ thread[a] = Idle
    /\ issued < MaxTokens
    /\ issued' = issued + 1
    /\ grant' = [grant EXCEPT ![issued + 1] = issued + 1]
    /\ thread' = [thread EXCEPT ![a].step = "write", ![a].old = issued + 1]
    /\ LET others == {b \in Callbacks \ {a} : thread[b] # Idle}
       IN  crowded' = IF others = {} THEN crowded \ {a}
                      ELSE crowded \union others \union {a}
    /\ UNCHANGED <<client, disk, consumed, forgiven, floor>>

\* The token file is written without any lock; a failure ends the callback.
WriteFile(a) ==
    /\ thread[a].step = "write"
    /\ \/ disk' = thread[a].old /\ thread' = [thread EXCEPT ![a].step = "activate"]
       \/ UNCHANGED disk /\ thread' = [thread EXCEPT ![a] = Idle]
    /\ UNCHANGED <<client, tesla, history>>

\* New: a client of its own, whose refresh lock nobody else can want yet.
New(a, c, token) ==
    /\ c # active /\ \A b \in Actors : thread[b].client # c
    /\ refreshToken' = [refreshToken EXCEPT ![c] = token]
    /\ refreshMu' = [refreshMu EXCEPT ![c] = a]
    /\ fresh' = [fresh EXCEPT ![c] = FALSE]
    /\ thread' = [thread EXCEPT ![a] = [step |-> "exchange", mode |-> "new",
                                        client |-> c, old |-> token, new |-> None]]
    /\ UNCHANGED active

\* current() decides between the running client and a new one.
Activate(a) ==
    /\ thread[a].step = "activate"
    /\ \/ /\ active # Unavailable
          /\ thread' = [thread EXCEPT ![a].step = "lock", ![a].mode = "set",
                                      ![a].client = active]
          /\ UNCHANGED client
       \/ active = Unavailable /\ \E c \in Clients : New(a, c, thread[a].old)
    /\ UNCHANGED <<disk, tesla, history>>

\* The new client replaces whatever is active by now.
Promote(a) ==
    /\ thread[a].step = "promote"
    /\ active' = thread[a].client
    /\ thread' = [thread EXCEPT ![a] = Idle]
    /\ Activated(a)
    /\ UNCHANGED <<refreshToken, refreshMu, fresh, disk, tesla, forgiven>>

----------------------------------------------------------------------------
(* Start and end of the process: main.go                                    *)

\* The file wins over the environment.
ResolveRefreshToken == IF disk # None THEN disk ELSE Configured

\* A file that cannot be read leaves the environment's token.
Resolve ==
    /\ thread[Main].step = "resolve"
    /\ \E token \in {ResolveRefreshToken, Configured} :
          \/ /\ token = None
             /\ thread' = [thread EXCEPT ![Main] = Idle]
             /\ UNCHANGED client
          \/ token # None /\ \E c \in Clients : New(Main, c, token)
    /\ UNCHANGED <<disk, tesla, history>>

Starting == [a \in Actors |-> IF a = Main THEN [Idle EXCEPT !.step = "resolve"]
                              ELSE Idle]

\* What is on its way from Tesla to the file is lost.
Crash ==
    /\ active' = Unavailable
    /\ refreshToken' = [c \in Clients |-> None]
    /\ refreshMu' = [c \in Clients |-> Nobody]
    /\ fresh' = [c \in Clients |-> FALSE]
    /\ thread' = Starting
    /\ forgiven' = forgiven \union
          {thread[a].old : a \in {b \in Actors : thread[b].step \in {"store", "persist"}}}
    /\ crowded' = {} /\ floor' = None
    /\ UNCHANGED <<disk, tesla>>

Init ==
    /\ active = Unavailable
    /\ refreshToken = [c \in Clients |-> None]
    /\ refreshMu = [c \in Clients |-> Nobody]
    /\ fresh = [c \in Clients |-> FALSE]
    /\ disk = None
    /\ thread = Starting
    /\ issued = 1 /\ consumed = {} /\ grant = [t \in 0 .. MaxTokens |-> t]
    /\ forgiven = {} /\ crowded = {} /\ floor = None

\* What a refresh does once it has the lock.
Refresh(a) ==
    Rotated(a) \/ Kept(a) \/ Refused(a) \/ AnswerLost(a) \/ Store(a) \/ Persist(a)

Next ==
    \/ \E a \in Actors : Lock(a) \/ Refresh(a) \/ Promote(a)
    \/ \E a \in Callers : BeginRequest(a) \/ Send(a)
    \/ \E a \in Callbacks : handleOAuthCallback(a) \/ WriteFile(a) \/ Activate(a)
    \/ \E c \in Clients : Expire(c)
    \/ Resolve \/ Crash

Spec == Init /\ [][Next]_vars

----------------------------------------------------------------------------
(* Properties                                                               *)

\* The type of every variable of the clients, threads, file and histories.
TypeOK ==
    /\ active \in Clients \union {Unavailable}
    /\ refreshToken \in [Clients -> Token \union {None}]
    /\ refreshMu \in [Clients -> Actors \union {Nobody}]
    /\ fresh \in [Clients -> BOOLEAN]
    /\ disk \in Token \union {None}
    /\ thread \in [Actors -> Thread]
    /\ issued \in Token
    /\ consumed \subseteq Token
    /\ grant \in [0 .. MaxTokens -> 0 .. MaxTokens]
    /\ forgiven \subseteq Token
    /\ crowded \subseteq Callbacks
    /\ floor \in Token \union {None}

\* refreshAccessTokenLocked's comment, "persist the rotated one so a restart
\* does not fall back to a token Tesla has already invalidated", and
\* refreshAccessToken's on serialized refreshes: whatever requests, callbacks
\* and restarts interleave, the token a restart would use has been consumed
\* only while its successor is on its way to the file, or if a fault (a lost
\* answer, a failed write, the end of the process) swallowed the successor.
RestartTokenUsable ==
    ResolveRefreshToken \in consumed =>
       \/ ResolveRefreshToken \in forgiven
       \/ \E a \in Actors : /\ thread[a].step \in {"store", "persist"}
                            /\ thread[a].old = ResolveRefreshToken

\* handleOAuthCallback's answer, "Refresh token saved to ..., activated": no
\* refresh, retry or later callback takes the client back to a grant older
\* than one that a callback has activated.  Callbacks that overlap are left
\* out: the client one of them promotes replaces the one another uses.
ActivationHolds ==
    active # Unavailable => grant[refreshToken[active]] >= floor
=============================================================================
