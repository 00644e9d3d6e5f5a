------------------------- MODULE TeslaTokensProofs -------------------------
(***************************************************************************)
(* Proofs about TeslaTokens: a restart finds a usable token, for any       *)
(* number of requests, callbacks, clients and tokens.                      *)
(***************************************************************************)
EXTENDS TeslaTokens, TLAPS

\* RestartTokenUsable is not inductive: that the token a thread is about to
\* write has not been consumed meanwhile rests on nobody else having it.

\* A callback has a token that no client knows yet.
Pending(t) == t.step \in {"write", "activate"} \/ (t.step = "lock" /\ t.mode = "set")

\* A refresh has a token that its client does not know yet.
Fetched(t) == t.step = "store" /\ t.new # t.old

Refreshing(t) == t.step \in {"exchange", "store", "persist"}

\* Who waits for, holds or hands over a client has one; a refresh holds its
\* client's lock, and knows its client's token.
Held ==
    /\ \A a \in Actors :
          Refreshing(thread[a]) \/ thread[a].step \in {"lock", "send", "promote"} =>
             thread[a].client \in Clients
    /\ \A a \in Actors : Refreshing(thread[a]) =>
          /\ refreshMu[thread[a].client] = a /\ thread[a].old \in Token
          /\ refreshToken[thread[a].client] =
                IF thread[a].step = "persist" THEN thread[a].new ELSE thread[a].old
          /\ thread[a].step # "exchange" => thread[a].new \in Token

\* Clients in use have a token.
InUse ==
    /\ active # Unavailable => refreshToken[active] # None
    /\ \A a \in Actors : thread[a].client # Unavailable =>
          refreshToken[thread[a].client] # None

\* The client that New is making is known to its thread only.
Private ==
    \A a \in Actors : thread[a].mode = "new" =>
       /\ thread[a].client \in Clients /\ thread[a].client # active
       /\ \A b \in Actors \ {a} : thread[b].client # thread[a].client

\* Requests and callbacks wait for the start; a start finds no clients.
Alone ==
    /\ thread[Main] # Idle => \A a \in Actors \ {Main} : thread[a] = Idle
    /\ thread[Main].step = "resolve" => \A c \in Clients : refreshToken[c] = None

\* Nobody has a token that has not been issued.
Issued ==
    /\ disk <= issued /\ \A t \in consumed : t <= issued
    /\ \A c \in Clients : refreshToken[c] <= issued
    /\ \A a \in Actors : thread[a].old <= issued /\ thread[a].new <= issued

\* Every token is known to one client, one callback or one refresh.
Distinct ==
    /\ \A c, d \in Clients : refreshToken[c] = refreshToken[d] =>
          c = d \/ refreshToken[c] = None
    /\ \A a \in Actors : Pending(thread[a]) =>
          /\ thread[a].old # None
          /\ \A c \in Clients : refreshToken[c] # thread[a].old
    /\ \A a, b \in Actors : Pending(thread[a]) /\ Pending(thread[b])
                            /\ thread[a].old = thread[b].old => a = b
    /\ \A a \in Actors : Fetched(thread[a]) =>
          \A c \in Clients : refreshToken[c] # thread[a].new
    /\ \A a, b \in Actors : Fetched(thread[a]) /\ Fetched(thread[b])
                            /\ thread[a].new = thread[b].new => a = b
    /\ \A a, b \in Actors : Fetched(thread[a]) /\ Pending(thread[b]) =>
          thread[a].new # thread[b].old

\* What a thread may write to the file has not been consumed.
Unspent ==
    \A a \in Actors :
       /\ Pending(thread[a]) => thread[a].old \notin consumed
       /\ thread[a].step \in {"store", "persist"} => thread[a].new \notin consumed

IInv ==
    /\ TypeOK /\ Held /\ InUse /\ Private /\ Alone /\ Issued /\ Distinct
    /\ Unspent /\ RestartTokenUsable

\* The assumption on the constants, as facts the provers can use.
LEMMA Constants ==
    /\ MaxTokens \in Nat /\ MaxTokens >= 1 /\ Configured \in 0 .. 1
    /\ Main \in Actors /\ Callers \subseteq Actors /\ Callbacks \subseteq Actors
    /\ Main \notin Callers /\ Main \notin Callbacks
    /\ Nobody \notin Actors /\ Unavailable \notin Clients
  BY TokensAssumption DEF Actors

\* A first start, with no file and no client, satisfies the invariant.
LEMMA Initial == Init => IInv
  BY Constants
     DEF Init, IInv, TypeOK, Held, Refreshing, InUse, Private, Distinct,
         Pending, Idle, Alone, Issued, Fetched, Unspent, RestartTokenUsable,
         ResolveRefreshToken, Starting, Thread, Token, None

\* Tokens are numbers.
LEMMA TokenRange == Token \union {None} = 0 .. MaxTokens
  BY Constants DEF Token, None

\* What the provers need of the functions' domains.
LEMMA Functions ==
    ASSUME IInv
    PROVE  /\ DOMAIN refreshToken = Clients /\ DOMAIN refreshMu = Clients
           /\ refreshToken \in [Clients -> Token \union {None}]
           /\ refreshMu \in [Clients -> Actors \union {Nobody}]
           /\ Nobody \notin Actors /\ Unavailable \notin Clients
           /\ Main \in Actors
  BY Constants DEF IInv, TypeOK

\* What the provers need for comparing tokens.
LEMMA Numbers ==
    ASSUME IInv
    PROVE  /\ issued \in Int /\ issued >= 1 /\ disk \in Int /\ consumed \subseteq Int
           /\ refreshToken \in [Clients -> Int]
           /\ \A a \in Actors : thread[a].old \in Int /\ thread[a].new \in Int
  BY Constants DEF IInv, TypeOK, Thread, Token, None

\* Every action keeps the invariant.  The lemmas have one shape: thread a
\* becomes t and the others stay as they are (<1>6); what the action knows
\* (<1>1), the fields of t (<1>3) and its other effects (<1>5) then give each
\* part of the invariant.

LEMMA LockKeeps ==
    ASSUME IInv, NEW a \in Actors, Lock(a) PROVE IInv'
  <1> DEFINE c == thread[a].client
             u == IF thread[a].mode = "set" THEN thread[a].old ELSE refreshToken[c]
             t == [thread[a] EXCEPT !.step = "exchange", !.old = u]
  <1>1. /\ thread[a] \in Thread /\ c \in Clients /\ thread[a].step = "lock"
        /\ refreshMu[c] = Nobody /\ u \in Token \union {None} /\ u # None
    BY Constants DEF Lock, IInv, TypeOK, Held, Thread, InUse, Distinct, Pending
  <1>2. t \in Thread
    BY <1>1, Constants DEF Thread, Idle, Token, None
  <1>3. /\ t.step = "exchange" /\ t.mode = thread[a].mode /\ t.client = c
        /\ t.old = u /\ t.new = thread[a].new
    BY <1>1 DEF Thread, Idle
  <1>4. thread' = [thread EXCEPT ![a] = t]
    BY <1>1 DEF Lock, Locked, IInv, TypeOK, Thread
  <1>5. /\ refreshMu' = [refreshMu EXCEPT ![c] = a]
        /\ refreshToken' = [refreshToken EXCEPT ![c] = u]
        /\ active' = active /\ fresh' = fresh /\ disk' = disk
        /\ issued' = issued /\ consumed' = consumed /\ grant' = grant
        /\ forgiven' = forgiven /\ crowded' = crowded /\ floor' = floor
    BY <1>1 DEF Lock, Locked, tesla, history, IInv, TypeOK
  <1> HIDE DEF t
  <1>6. thread'[a] = t /\ \A b \in Actors \ {a} : thread'[b] = thread[b]
    BY <1>1, <1>4 DEF IInv, TypeOK
  <1>7. TypeOK'
    BY <1>1, <1>2, <1>4, <1>5, Constants DEF IInv, TypeOK
  <1>8. Held'
    BY Functions, <1>1, <1>3, <1>5, <1>6 DEF IInv, Held, Refreshing
  <1>9. InUse'
    BY Functions, <1>1, <1>3, <1>5, <1>6 DEF IInv, InUse
  <1>10. Private'
    BY Functions, <1>1, <1>3, <1>5, <1>6 DEF IInv, Private
  <1>11. Alone'
    BY Functions, <1>1, <1>3, <1>5, <1>6 DEF IInv, Alone, Idle
  <1>12. Issued'
    BY Numbers, <1>1, <1>3, <1>5, <1>6 DEF IInv, Issued
  <1>13. Distinct'
    BY Functions, <1>1, <1>3, <1>5, <1>6
       DEF IInv, Distinct, Pending, Fetched, Held, Refreshing
  <1>14. Unspent'
    BY Functions, <1>1, <1>3, <1>5, <1>6
       DEF IInv, Unspent, Pending, Distinct, Held, Refreshing
  <1>15. RestartTokenUsable'
    BY Numbers, <1>1, <1>3, <1>5, <1>6
       DEF IInv, RestartTokenUsable, ResolveRefreshToken
  <1> QED
    BY <1>7, <1>8, <1>9, <1>10, <1>11, <1>12, <1>13, <1>14, <1>15 DEF IInv

LEMMA RotatedKeeps ==
    ASSUME IInv, NEW a \in Actors, Rotated(a) PROVE IInv'
  <1> DEFINE c == thread[a].client
             u == issued + 1
             t == [thread[a] EXCEPT !.step = "store", !.new = u]
  <1>1. /\ thread[a] \in Thread /\ c \in Clients /\ thread[a].step = "exchange"
        /\ refreshMu[c] = a /\ refreshToken[c] = thread[a].old
        /\ thread[a].old \in Token /\ thread[a].old # None
        /\ thread[a].old \notin consumed /\ u \in Token /\ issued \in Token
    BY Constants
       DEF Rotated, IInv, TypeOK, Held, Refreshing, InUse, Thread, Token, None
  <1>2. t \in Thread
    BY <1>1, Constants DEF Thread, Idle, Token, None
  <1>3. /\ t.step = "store" /\ t.mode = thread[a].mode /\ t.client = c
        /\ t.old = thread[a].old /\ t.new = u
    BY <1>1 DEF Thread, Idle
  <1>4. thread' = [thread EXCEPT ![a] = t]
    BY <1>1 DEF Rotated, IInv, TypeOK, Thread
  <1>5. /\ consumed' = consumed \union {thread[a].old} /\ issued' = u
        /\ grant' \in [0 .. MaxTokens -> 0 .. MaxTokens]
        /\ active' = active /\ refreshToken' = refreshToken /\ refreshMu' = refreshMu
        /\ fresh' = fresh /\ disk' = disk /\ forgiven' = forgiven
        /\ crowded' = crowded /\ floor' = floor
    BY <1>1 DEF Rotated, client, Token, tesla, history, IInv, TypeOK
  <1> HIDE DEF t
  <1>6. thread'[a] = t /\ \A b \in Actors \ {a} : thread'[b] = thread[b]
    BY <1>1, <1>4 DEF IInv, TypeOK
  <1>7. TypeOK'
    BY <1>1, <1>2, <1>4, <1>5, Constants DEF IInv, TypeOK, Token
  <1>8. Held'
    BY Functions, <1>1, <1>3, <1>5, <1>6 DEF IInv, Held, Refreshing
  <1>9. InUse'
    BY Functions, <1>1, <1>3, <1>5, <1>6 DEF IInv, InUse
  <1>10. Private'
    BY Functions, <1>1, <1>3, <1>5, <1>6 DEF IInv, Private
  <1>11. Alone'
    BY Functions, <1>1, <1>3, <1>5, <1>6 DEF IInv, Alone, Idle
  <1>12. Issued'
    BY Numbers, <1>1, <1>3, <1>5, <1>6 DEF IInv, Issued, Token
  <1>13. Distinct'
    BY Functions, <1>1, <1>3, <1>5, <1>6
       DEF IInv, Distinct, Pending, Fetched, Issued, Token, None
  <1>14. Unspent'
    BY Functions, <1>1, <1>3, <1>5, <1>6
       DEF IInv, Unspent, Pending, Issued, Token, Distinct, Fetched, Held,
           Refreshing
  <1>15. RestartTokenUsable'
    BY Numbers, <1>1, <1>3, <1>5, <1>6
       DEF IInv, RestartTokenUsable, ResolveRefreshToken
  <1> QED
    BY <1>7, <1>8, <1>9, <1>10, <1>11, <1>12, <1>13, <1>14, <1>15 DEF IInv

LEMMA KeptKeeps ==
    ASSUME IInv, NEW a \in Actors, Kept(a) PROVE IInv'
  <1> DEFINE c == thread[a].client
             u == thread[a].old
             t == [thread[a] EXCEPT !.step = "store", !.new = u]
  <1>1. /\ thread[a] \in Thread /\ c \in Clients /\ thread[a].step = "exchange"
        /\ refreshMu[c] = a /\ refreshToken[c] = thread[a].old
        /\ thread[a].old \in Token /\ thread[a].old # None
        /\ thread[a].old \notin consumed
    BY Constants
       DEF Kept, IInv, TypeOK, Held, Refreshing, InUse, Thread, Token, None
  <1>2. t \in Thread
    BY <1>1, Constants DEF Thread, Idle, Token, None
  <1>3. /\ t.step = "store" /\ t.mode = thread[a].mode /\ t.client = c
        /\ t.old = thread[a].old /\ t.new = u
    BY <1>1 DEF Thread, Idle
  <1>4. thread' = [thread EXCEPT ![a] = t]
    BY <1>1 DEF Kept, IInv, TypeOK, Thread
  <1>5. /\ active' = active /\ refreshToken' = refreshToken /\ refreshMu' = refreshMu
        /\ fresh' = fresh /\ disk' = disk /\ issued' = issued
        /\ consumed' = consumed /\ grant' = grant /\ forgiven' = forgiven
        /\ crowded' = crowded /\ floor' = floor
    BY <1>1 DEF Kept, client, tesla, history, IInv, TypeOK
  <1> HIDE DEF t
  <1>6. thread'[a] = t /\ \A b \in Actors \ {a} : thread'[b] = thread[b]
    BY <1>1, <1>4 DEF IInv, TypeOK
  <1>7. TypeOK'
    BY <1>1, <1>2, <1>4, <1>5, Constants DEF IInv, TypeOK
  <1>8. Held'
    BY Functions, <1>1, <1>3, <1>5, <1>6 DEF IInv, Held, Refreshing
  <1>9. InUse'
    BY Functions, <1>1, <1>3, <1>5, <1>6 DEF IInv, InUse
  <1>10. Private'
    BY Functions, <1>1, <1>3, <1>5, <1>6 DEF IInv, Private
  <1>11. Alone'
    BY Functions, <1>1, <1>3, <1>5, <1>6 DEF IInv, Alone, Idle
  <1>12. Issued'
    BY Numbers, <1>1, <1>3, <1>5, <1>6 DEF IInv, Issued
  <1>13. Distinct'
    BY Functions, <1>1, <1>3, <1>5, <1>6 DEF IInv, Distinct, Pending, Fetched
  <1>14. Unspent'
    BY Functions, <1>1, <1>3, <1>5, <1>6 DEF IInv, Unspent, Pending
  <1>15. RestartTokenUsable'
    BY Numbers, <1>1, <1>3, <1>5, <1>6
       DEF IInv, RestartTokenUsable, ResolveRefreshToken
  <1> QED
    BY <1>7, <1>8, <1>9, <1>10, <1>11, <1>12, <1>13, <1>14, <1>15 DEF IInv

LEMMA RefusedKeeps ==
    ASSUME IInv, NEW a \in Actors, Refused(a) PROVE IInv'
  <1> DEFINE c == thread[a].client
             u == IF thread[a].mode = "new" THEN None ELSE refreshToken[c]
             t == Idle
  <1>1. /\ thread[a] \in Thread /\ c \in Clients /\ thread[a].step = "exchange"
        /\ refreshMu[c] = a /\ refreshToken[c] = thread[a].old
        /\ thread[a].old \in Token /\ thread[a].old # None
        /\ thread[a].mode = "new" =>
              c # active /\ \A b \in Actors \ {a} : thread[b].client # c
    BY Constants
       DEF Refused, Private, IInv, TypeOK, Held, Refreshing, InUse, Thread,
           Token, None
  <1>2. t \in Thread
    BY <1>1, Constants DEF Thread, Idle, Token, None
  <1>3. /\ t.step = "idle" /\ t.mode = "request" /\ t.client = Unavailable
        /\ t.old = None /\ t.new = None /\ t = Idle
    BY <1>1 DEF Thread, Idle
  <1>4. thread' = [thread EXCEPT ![a] = t]
    BY <1>1 DEF Refused, Fail, IInv, TypeOK, Thread
  <1>5. /\ issued' = issued /\ consumed' = consumed /\ grant' = grant
        /\ forgiven' = forgiven
        /\ refreshMu' = [refreshMu EXCEPT ![c] = Nobody]
        /\ refreshToken' = [refreshToken EXCEPT ![c] = u]
        /\ active' = active /\ fresh' = fresh /\ disk' = disk
        /\ crowded' = crowded /\ floor' = floor
    BY <1>1 DEF Refused, Fail, tesla, tesla, history, IInv, TypeOK
  <1> HIDE DEF t
  <1>6. thread'[a] = t /\ \A b \in Actors \ {a} : thread'[b] = thread[b]
    BY <1>1, <1>4 DEF IInv, TypeOK
  <1>7. TypeOK'
    BY <1>1, <1>2, <1>4, <1>5, Constants DEF IInv, TypeOK, None
  <1>8. Held'
    BY Functions, <1>1, <1>3, <1>5, <1>6 DEF IInv, Held, Refreshing
  <1>9. InUse'
    BY Functions, <1>1, <1>3, <1>5, <1>6 DEF IInv, InUse
  <1>10. Private'
    BY Functions, <1>1, <1>3, <1>5, <1>6 DEF IInv, Private
  <1>11. Alone'
    BY Functions, <1>1, <1>3, <1>5, <1>6 DEF IInv, Alone
  <1>12. Issued'
    BY Numbers, <1>1, <1>3, <1>5, <1>6 DEF IInv, Issued, None, Token
  <1>13. Distinct'
    BY Functions, <1>1, <1>3, <1>5, <1>6
       DEF IInv, Distinct, Pending, Fetched, Held, Refreshing, Token, None
  <1>14. Unspent'
    BY Functions, <1>1, <1>3, <1>5, <1>6
       DEF IInv, Unspent, Pending, Distinct, Fetched, Held, Refreshing
  <1>15. RestartTokenUsable'
    BY Numbers, <1>1, <1>3, <1>5, <1>6
       DEF IInv, RestartTokenUsable, ResolveRefreshToken
  <1> QED
    BY <1>7, <1>8, <1>9, <1>10, <1>11, <1>12, <1>13, <1>14, <1>15 DEF IInv

LEMMA AnswerLostKeeps ==
    ASSUME IInv, NEW a \in Actors, AnswerLost(a) PROVE IInv'
  <1> DEFINE c == thread[a].client
             u == IF thread[a].mode = "new" THEN None ELSE refreshToken[c]
             t == Idle
  <1>1. /\ thread[a] \in Thread /\ c \in Clients /\ thread[a].step = "exchange"
        /\ refreshMu[c] = a /\ refreshToken[c] = thread[a].old
        /\ thread[a].old \in Token /\ thread[a].old # None
        /\ thread[a].mode = "new" =>
              c # active /\ \A b \in Actors \ {a} : thread[b].client # c
        /\ thread[a].old \notin consumed
    <2>1. thread[a] \in Thread /\ c \in Clients /\ thread[a].step = "exchange"
      BY Constants
         DEF AnswerLost, Private, IInv, TypeOK, Held, Refreshing, InUse,
             Thread, Token, None
    <2>2. refreshMu[c] = a /\ refreshToken[c] = thread[a].old
      BY Constants, <2>1
         DEF AnswerLost, Private, IInv, TypeOK, Held, Refreshing, InUse,
             Thread, Token, None
    <2>3. thread[a].old \in Token /\ thread[a].old # None
      BY Constants, <2>1, <2>2
         DEF AnswerLost, Private, IInv, TypeOK, Held, Refreshing, InUse,
             Thread, Token, None
    <2>4. thread[a].mode = "new" =>
                c # active /\ \A b \in Actors \ {a} : thread[b].client # c
      BY Constants, <2>1, <2>2, <2>3
         DEF AnswerLost, Private, IInv, TypeOK, Held, Refreshing, InUse,
             Thread, Token, None
    <2>5. thread[a].old \notin consumed
      BY Constants, <2>1, <2>2, <2>3, <2>4
         DEF AnswerLost, Private, IInv, TypeOK, Held, Refreshing, InUse,
             Thread, Token, None
    <2> QED
      BY <2>1, <2>2, <2>3, <2>4, <2>5
  <1>2. t \in Thread
    BY <1>1, Constants DEF Thread, Idle, Token, None
  <1>3. /\ t.step = "idle" /\ t.mode = "request" /\ t.client = Unavailable
        /\ t.old = None /\ t.new = None /\ t = Idle
    BY <1>1 DEF Thread, Idle
  <1>4. thread' = [thread EXCEPT ![a] = t]
    BY <1>1 DEF AnswerLost, Fail, IInv, TypeOK, Thread
  <1>5. /\ consumed' = consumed \union {thread[a].old}
        /\ forgiven' = forgiven \union {thread[a].old}
        /\ issued' = issued /\ grant' = grant
        /\ refreshMu' = [refreshMu EXCEPT ![c] = Nobody]
        /\ refreshToken' = [refreshToken EXCEPT ![c] = u]
        /\ active' = active /\ fresh' = fresh /\ disk' = disk
        /\ crowded' = crowded /\ floor' = floor
    BY <1>1 DEF AnswerLost, Fail, tesla, tesla, history, IInv, TypeOK
  <1> HIDE DEF t
  <1>6. thread'[a] = t /\ \A b \in Actors \ {a} : thread'[b] = thread[b]
    BY <1>1, <1>4 DEF IInv, TypeOK
  <1>7. TypeOK'
    BY <1>1, <1>2, <1>4, <1>5, Constants DEF IInv, TypeOK, None
  <1>8. Held'
    BY Functions, <1>1, <1>3, <1>5, <1>6 DEF IInv, Held, Refreshing
  <1>9. InUse'
    BY Functions, <1>1, <1>3, <1>5, <1>6 DEF IInv, InUse
  <1>10. Private'
    BY Functions, <1>1, <1>3, <1>5, <1>6 DEF IInv, Private
  <1>11. Alone'
    BY Functions, <1>1, <1>3, <1>5, <1>6 DEF IInv, Alone
  <1>12. Issued'
    BY Numbers, <1>1, <1>3, <1>5, <1>6 DEF IInv, Issued, None, Token
  <1>13. Distinct'
    BY Functions, <1>1, <1>3, <1>5, <1>6
       DEF IInv, Distinct, Pending, Fetched, Held, Refreshing, Token, None
  <1>14. Unspent'
    BY Functions, <1>1, <1>3, <1>5, <1>6
       DEF IInv, Unspent, Pending, Distinct, Fetched, Held, Refreshing
  <1>15. RestartTokenUsable'
    BY Numbers, <1>1, <1>3, <1>5, <1>6
       DEF IInv, RestartTokenUsable, ResolveRefreshToken
  <1> QED
    BY <1>7, <1>8, <1>9, <1>10, <1>11, <1>12, <1>13, <1>14, <1>15 DEF IInv

LEMMA StoreFinishes ==
    ASSUME IInv, NEW a \in Actors, Store(a), thread[a].new = thread[a].old PROVE IInv'
  <1> DEFINE c == thread[a].client
             t == IF thread[a].mode = "set" THEN Idle
                  ELSE [thread[a] EXCEPT !.step = IF thread[a].mode = "new" THEN "promote" ELSE "send"]
  <1>1. /\ thread[a] \in Thread /\ c \in Clients
        /\ refreshMu[c] = a /\ thread[a].new \in Token /\ thread[a].new # None
        /\ thread[a].new \notin consumed /\ floor' \in Token \union {None}
        /\ thread[a].step = "store" /\ refreshToken[c] = thread[a].new
    BY Constants
       DEF Store, Return, Activated, Unspent, history, IInv, TypeOK, Held,
           Refreshing, InUse, Thread, Token, None
  <1>2. t \in Thread
    BY <1>1, Constants DEF Thread, Idle, Token, None
  <1>3. /\ t.step = IF thread[a].mode = "set" THEN "idle"
                    ELSE IF thread[a].mode = "new" THEN "promote" ELSE "send"
        /\ t.mode = IF thread[a].mode = "set" THEN "request" ELSE thread[a].mode
        /\ t.client = IF thread[a].mode = "set" THEN Unavailable ELSE c
        /\ t.old \in {None, thread[a].old} /\ t.new \in {None, thread[a].new}
    BY <1>1 DEF Thread, Idle
  <1>4. thread' = [thread EXCEPT ![a] = t]
    BY <1>1 DEF Store, Return, IInv, TypeOK, Thread
  <1>5. /\ refreshMu' = [refreshMu EXCEPT ![c] = Nobody]
        /\ refreshToken' = refreshToken
        /\ fresh' \in [Clients -> BOOLEAN]
        /\ active' = active /\ disk' = disk /\ issued' = issued
        /\ consumed' = consumed /\ grant' = grant /\ forgiven' = forgiven
        /\ crowded' = crowded
    BY <1>1 DEF Store, Return, Activated, tesla, history, IInv, TypeOK
  <1> HIDE DEF t
  <1>6. thread'[a] = t /\ \A b \in Actors \ {a} : thread'[b] = thread[b]
    BY <1>1, <1>4 DEF IInv, TypeOK
  <1>7. TypeOK'
    BY <1>1, <1>2, <1>4, <1>5, Constants DEF IInv, TypeOK
  <1>8. Held'
    BY Functions, <1>1, <1>3, <1>5, <1>6 DEF IInv, Held, Refreshing
  <1>9. InUse'
    BY Functions, <1>1, <1>3, <1>5, <1>6 DEF IInv, InUse
  <1>10. Private'
    BY Functions, <1>1, <1>3, <1>5, <1>6 DEF IInv, Private
  <1>11. Alone'
    BY Functions, <1>1, <1>3, <1>5, <1>6 DEF IInv, Alone, Idle
  <1>12. Issued'
    BY Numbers, <1>1, <1>3, <1>5, <1>6 DEF IInv, Issued, None
  <1>13. Distinct'
    BY Functions, <1>1, <1>3, <1>5, <1>6 DEF IInv, Distinct, Pending, Fetched
  <1>14. Unspent'
    BY Functions, <1>1, <1>3, <1>5, <1>6 DEF IInv, Unspent, Pending
  <1>15. RestartTokenUsable'
    BY Numbers, <1>1, <1>3, <1>5, <1>6
       DEF IInv, RestartTokenUsable, ResolveRefreshToken
  <1> QED
    BY <1>7, <1>8, <1>9, <1>10, <1>11, <1>12, <1>13, <1>14, <1>15 DEF IInv

LEMMA StoreGoesOn ==
    ASSUME IInv, NEW a \in Actors, Store(a), thread[a].new # thread[a].old PROVE IInv'
  <1> DEFINE c == thread[a].client
             t == [thread[a] EXCEPT !.step = "persist"]
  <1>1. /\ thread[a] \in Thread /\ c \in Clients
        /\ refreshMu[c] = a /\ thread[a].new \in Token /\ thread[a].new # None
        /\ thread[a].new \notin consumed
        /\ thread[a].step = "store" /\ \A d \in Clients : refreshToken[d] # thread[a].new
    BY Constants
       DEF Store, Return, Unspent, Distinct, Fetched, IInv, TypeOK, Held,
           Refreshing, InUse, Thread, Token, None
  <1>2. t \in Thread
    BY <1>1, Constants DEF Thread, Idle, Token, None
  <1>3. /\ t.step = "persist" /\ t.mode = thread[a].mode /\ t.client = c
        /\ t.old = thread[a].old /\ t.new = thread[a].new
    BY <1>1 DEF Thread, Idle
  <1>4. thread' = [thread EXCEPT ![a] = t]
    BY <1>1 DEF Store, Return, IInv, TypeOK, Thread
  <1>5. /\ refreshToken' = [refreshToken EXCEPT ![c] = thread[a].new]
        /\ fresh' \in [Clients -> BOOLEAN]
        /\ active' = active /\ refreshMu' = refreshMu /\ disk' = disk
        /\ issued' = issued /\ consumed' = consumed /\ grant' = grant
        /\ forgiven' = forgiven /\ crowded' = crowded /\ floor' = floor
    BY <1>1 DEF Store, Return, history, tesla, history, IInv, TypeOK
  <1> HIDE DEF t
  <1>6. thread'[a] = t /\ \A b \in Actors \ {a} : thread'[b] = thread[b]
    BY <1>1, <1>4 DEF IInv, TypeOK
  <1>7. TypeOK'
    BY <1>1, <1>2, <1>4, <1>5, Constants DEF IInv, TypeOK
  <1>8. Held'
    BY Functions, <1>1, <1>3, <1>5, <1>6 DEF IInv, Held, Refreshing
  <1>9. InUse'
    BY Functions, <1>1, <1>3, <1>5, <1>6 DEF IInv, InUse
  <1>10. Private'
    BY Functions, <1>1, <1>3, <1>5, <1>6 DEF IInv, Private
  <1>11. Alone'
    BY Functions, <1>1, <1>3, <1>5, <1>6 DEF IInv, Alone, Idle
  <1>12. Issued'
    BY Numbers, <1>1, <1>3, <1>5, <1>6 DEF IInv, Issued
  <1>13. Distinct'
    BY Functions, <1>1, <1>3, <1>5, <1>6
       DEF IInv, Distinct, Pending, Fetched, None
  <1>14. Unspent'
    BY Functions, <1>1, <1>3, <1>5, <1>6 DEF IInv, Unspent, Pending
  <1>15. RestartTokenUsable'
    BY Numbers, <1>1, <1>3, <1>5, <1>6
       DEF IInv, RestartTokenUsable, ResolveRefreshToken
  <1> QED
    BY <1>7, <1>8, <1>9, <1>10, <1>11, <1>12, <1>13, <1>14, <1>15 DEF IInv

LEMMA PersistKeeps ==
    ASSUME IInv, NEW a \in Actors, Persist(a) PROVE IInv'
  <1> DEFINE c == thread[a].client
             t == IF thread[a].mode = "set" THEN Idle
                  ELSE [thread[a] EXCEPT !.step = IF thread[a].mode = "new" THEN "promote" ELSE "send"]
  <1>1. /\ thread[a] \in Thread /\ c \in Clients
        /\ refreshMu[c] = a /\ thread[a].new \in Token /\ thread[a].new # None
        /\ thread[a].new \notin consumed /\ floor' \in Token \union {None}
        /\ thread[a].step = "persist" /\ refreshToken[c] = thread[a].new
    BY Constants
       DEF Persist, Return, Activated, Unspent, IInv, TypeOK, Held, Refreshing,
           InUse, Thread, Token, None
  <1>2. t \in Thread
    BY <1>1, Constants DEF Thread, Idle, Token, None
  <1>3. /\ t.step = IF thread[a].mode = "set" THEN "idle"
                    ELSE IF thread[a].mode = "new" THEN "promote" ELSE "send"
        /\ t.mode = IF thread[a].mode = "set" THEN "request" ELSE thread[a].mode
        /\ t.client = IF thread[a].mode = "set" THEN Unavailable ELSE c
        /\ t.old \in {None, thread[a].old} /\ t.new \in {None, thread[a].new}
    BY <1>1 DEF Thread, Idle
  <1>4. thread' = [thread EXCEPT ![a] = t]
    BY <1>1 DEF Persist, Return, IInv, TypeOK, Thread
  <1>5. /\ refreshMu' = [refreshMu EXCEPT ![c] = Nobody]
        /\ \/ disk' = thread[a].new /\ forgiven' = forgiven
           \/ disk' = disk /\ forgiven' = forgiven \union {thread[a].old}
        /\ active' = active /\ refreshToken' = refreshToken /\ fresh' = fresh
        /\ issued' = issued /\ consumed' = consumed /\ grant' = grant
        /\ crowded' = crowded
        /\ thread[a].old \in Token
    BY <1>1
       DEF Persist, Return, Activated, Held, Refreshing, tesla, history, IInv,
           TypeOK
  <1> HIDE DEF t
  <1>6. thread'[a] = t /\ \A b \in Actors \ {a} : thread'[b] = thread[b]
    BY <1>1, <1>4 DEF IInv, TypeOK
  <1>7. TypeOK'
    BY <1>1, <1>2, <1>4, <1>5, Constants DEF IInv, TypeOK, Token, None
  <1>8. Held'
    BY Functions, <1>1, <1>3, <1>5, <1>6 DEF IInv, Held, Refreshing
  <1>9. InUse'
    BY Functions, <1>1, <1>3, <1>5, <1>6 DEF IInv, InUse
  <1>10. Private'
    BY Functions, <1>1, <1>3, <1>5, <1>6 DEF IInv, Private
  <1>11. Alone'
    BY Functions, <1>1, <1>3, <1>5, <1>6 DEF IInv, Alone, Idle
  <1>12. Issued'
    BY Numbers, <1>1, <1>3, <1>5, <1>6 DEF IInv, Issued, None
  <1>13. Distinct'
    BY Functions, <1>1, <1>3, <1>5, <1>6 DEF IInv, Distinct, Pending, Fetched
  <1>14. Unspent'
    BY Functions, <1>1, <1>3, <1>5, <1>6 DEF IInv, Unspent, Pending
  <1>15. RestartTokenUsable'
    BY Numbers, <1>1, <1>3, <1>5, <1>6
       DEF IInv, RestartTokenUsable, ResolveRefreshToken
  <1> QED
    BY <1>7, <1>8, <1>9, <1>10, <1>11, <1>12, <1>13, <1>14, <1>15 DEF IInv

LEMMA BeginRequestKeeps ==
    ASSUME IInv, NEW a \in Callers, BeginRequest(a) PROVE IInv'
  <1> DEFINE t == [thread[a] EXCEPT !.client = active,
                                   !.step = IF fresh[active] THEN "send" ELSE "lock"]
  <1>1. /\ thread[a] \in Thread /\ a \in Actors /\ a # Main /\ thread[a] = Idle
        /\ thread[Main] = Idle /\ active \in Clients /\ refreshToken[active] # None
    BY Constants DEF BeginRequest, Started, InUse, IInv, TypeOK, Thread
  <1>2. t \in Thread
    BY <1>1, Constants DEF Thread, Idle, Token, None
  <1>3. /\ t.step \in {"send", "lock"} /\ t.mode = "request" /\ t.client = active
        /\ t.old = None /\ t.new = None
    BY <1>1 DEF Thread, Idle
  <1>4. thread' = [thread EXCEPT ![a] = t]
    BY <1>1 DEF BeginRequest, IInv, TypeOK, Thread
  <1>5. /\ active' = active /\ refreshToken' = refreshToken /\ refreshMu' = refreshMu
        /\ fresh' = fresh /\ disk' = disk /\ issued' = issued
        /\ consumed' = consumed /\ grant' = grant /\ forgiven' = forgiven
        /\ crowded' = crowded /\ floor' = floor
    BY <1>1 DEF BeginRequest, client, tesla, history, IInv, TypeOK
  <1> HIDE DEF t
  <1>6. thread'[a] = t /\ \A b \in Actors \ {a} : thread'[b] = thread[b]
    BY <1>1, <1>4 DEF IInv, TypeOK
  <1>7. TypeOK'
    BY <1>1, <1>2, <1>4, <1>5, Constants DEF IInv, TypeOK
  <1>8. Held'
    BY Functions, <1>1, <1>3, <1>5, <1>6 DEF IInv, Held, Refreshing
  <1>9. InUse'
    BY Functions, <1>1, <1>3, <1>5, <1>6 DEF IInv, InUse
  <1>10. Private'
    BY Functions, <1>1, <1>3, <1>5, <1>6 DEF IInv, Private
  <1>11. Alone'
    BY Functions, <1>1, <1>3, <1>5, <1>6 DEF IInv, Alone
  <1>12. Issued'
    BY Numbers, <1>1, <1>3, <1>5, <1>6 DEF IInv, Issued, None
  <1>13. Distinct'
    BY Functions, <1>1, <1>3, <1>5, <1>6 DEF IInv, Distinct, Pending, Fetched
  <1>14. Unspent'
    BY Functions, <1>1, <1>3, <1>5, <1>6 DEF IInv, Unspent, Pending
  <1>15. RestartTokenUsable'
    BY Numbers, <1>1, <1>3, <1>5, <1>6
       DEF IInv, RestartTokenUsable, ResolveRefreshToken, Idle
  <1> QED
    BY <1>7, <1>8, <1>9, <1>10, <1>11, <1>12, <1>13, <1>14, <1>15 DEF IInv

LEMMA SendEnds ==
    ASSUME IInv, NEW a \in Callers, Send(a), thread'[a] = Idle PROVE IInv'
  <1> DEFINE t == Idle
  <1>1. /\ thread[a] \in Thread /\ a \in Actors /\ thread[a].step = "send"
        /\ thread[a] # Idle /\ thread[a].client \in Clients
    BY Constants DEF Send, IInv, TypeOK, Thread, Idle, Held
  <1>2. t \in Thread
    BY <1>1, Constants DEF Thread, Idle, Token, None
  <1>3. /\ t.step = "idle" /\ t.mode = "request" /\ t.client = Unavailable
        /\ t.old = None /\ t.new = None /\ t = Idle
    BY <1>1 DEF Thread, Idle
  <1>4. thread' = [thread EXCEPT ![a] = t]
    BY <1>1 DEF Send, IInv, TypeOK, Thread
  <1>5. /\ active' = active /\ refreshToken' = refreshToken /\ refreshMu' = refreshMu
        /\ fresh' = fresh /\ disk' = disk /\ issued' = issued
        /\ consumed' = consumed /\ grant' = grant /\ forgiven' = forgiven
        /\ crowded' = crowded /\ floor' = floor
    BY <1>1 DEF Send, client, tesla, history, IInv, TypeOK
  <1> HIDE DEF t
  <1>6. thread'[a] = t /\ \A b \in Actors \ {a} : thread'[b] = thread[b]
    BY <1>1, <1>4 DEF IInv, TypeOK
  <1>7. TypeOK'
    BY <1>1, <1>2, <1>4, <1>5, Constants DEF IInv, TypeOK
  <1>8. Held'
    BY Functions, <1>1, <1>3, <1>5, <1>6 DEF IInv, Held, Refreshing
  <1>9. InUse'
    BY Functions, <1>1, <1>3, <1>5, <1>6 DEF IInv, InUse
  <1>10. Private'
    BY Functions, <1>1, <1>3, <1>5, <1>6 DEF IInv, Private
  <1>11. Alone'
    BY Functions, <1>1, <1>3, <1>5, <1>6 DEF IInv, Alone, Idle
  <1>12. Issued'
    BY Numbers, <1>1, <1>3, <1>5, <1>6 DEF IInv, Issued, None
  <1>13. Distinct'
    BY Functions, <1>1, <1>3, <1>5, <1>6 DEF IInv, Distinct, Pending, Fetched
  <1>14. Unspent'
    BY Functions, <1>1, <1>3, <1>5, <1>6 DEF IInv, Unspent, Pending
  <1>15. RestartTokenUsable'
    BY Numbers, <1>1, <1>3, <1>5, <1>6
       DEF IInv, RestartTokenUsable, ResolveRefreshToken
  <1> QED
    BY <1>7, <1>8, <1>9, <1>10, <1>11, <1>12, <1>13, <1>14, <1>15 DEF IInv

LEMMA SendRetries ==
    ASSUME IInv, NEW a \in Callers, Send(a), thread'[a] # Idle PROVE IInv'
  <1> DEFINE t == [thread[a] EXCEPT !.mode = "retry", !.step = "lock"]
  <1>1. /\ thread[a] \in Thread /\ a \in Actors /\ thread[a].step = "send"
        /\ thread[a] # Idle /\ thread[a].client \in Clients
    BY Constants DEF Send, IInv, TypeOK, Thread, Idle, Held
  <1>2. t \in Thread
    BY <1>1, Constants DEF Thread, Idle, Token, None
  <1>3. /\ t.step = "lock" /\ t.mode = "retry" /\ t.client = thread[a].client
        /\ t.old = thread[a].old /\ t.new = thread[a].new
    BY <1>1 DEF Thread, Idle
  <1>4. thread' = [thread EXCEPT ![a] = t]
    BY <1>1 DEF Send, IInv, TypeOK, Thread
  <1>5. /\ active' = active /\ refreshToken' = refreshToken /\ refreshMu' = refreshMu
        /\ fresh' = fresh /\ disk' = disk /\ issued' = issued
        /\ consumed' = consumed /\ grant' = grant /\ forgiven' = forgiven
        /\ crowded' = crowded /\ floor' = floor
    BY <1>1 DEF Send, client, tesla, history, IInv, TypeOK
  <1> HIDE DEF t
  <1>6. thread'[a] = t /\ \A b \in Actors \ {a} : thread'[b] = thread[b]
    BY <1>1, <1>4 DEF IInv, TypeOK
  <1>7. TypeOK'
    BY <1>1, <1>2, <1>4, <1>5, Constants DEF IInv, TypeOK
  <1>8. Held'
    BY Functions, <1>1, <1>3, <1>5, <1>6 DEF IInv, Held, Refreshing
  <1>9. InUse'
    BY Functions, <1>1, <1>3, <1>5, <1>6 DEF IInv, InUse
  <1>10. Private'
    BY Functions, <1>1, <1>3, <1>5, <1>6 DEF IInv, Private
  <1>11. Alone'
    BY Functions, <1>1, <1>3, <1>5, <1>6 DEF IInv, Alone, Idle
  <1>12. Issued'
    BY Numbers, <1>1, <1>3, <1>5, <1>6 DEF IInv, Issued, None
  <1>13. Distinct'
    BY Functions, <1>1, <1>3, <1>5, <1>6 DEF IInv, Distinct, Pending, Fetched
  <1>14. Unspent'
    BY Functions, <1>1, <1>3, <1>5, <1>6 DEF IInv, Unspent, Pending
  <1>15. RestartTokenUsable'
    BY Numbers, <1>1, <1>3, <1>5, <1>6
       DEF IInv, RestartTokenUsable, ResolveRefreshToken
  <1> QED
    BY <1>7, <1>8, <1>9, <1>10, <1>11, <1>12, <1>13, <1>14, <1>15 DEF IInv

LEMMA CallbackKeeps ==
    ASSUME IInv, NEW a \in Callbacks, handleOAuthCallback(a) PROVE IInv'
  <1> DEFINE u == issued + 1
             t == [thread[a] EXCEPT !.step = "write", !.old = u]
  <1>1. /\ thread[a] \in Thread /\ a \in Actors /\ a # Main /\ thread[a] = Idle
        /\ thread[Main] = Idle /\ u \in Token /\ u # None
        /\ \A d \in Clients : refreshToken[d] # u
        /\ \A b \in Actors : thread[b].old # u /\ thread[b].new # u
    <2>1. thread[a] \in Thread /\ a \in Actors /\ a # Main /\ thread[a] = Idle
      BY Constants
         DEF Issued, handleOAuthCallback, Started, IInv, TypeOK, Thread, Token,
             None
    <2>2. thread[Main] = Idle /\ u \in Token /\ u # None
      BY Constants, <2>1
         DEF Issued, handleOAuthCallback, Started, IInv, TypeOK, Thread, Token,
             None
    <2>3. \A d \in Clients : refreshToken[d] # u
      BY Constants, <2>1, <2>2
         DEF Issued, handleOAuthCallback, Started, IInv, TypeOK, Thread, Token,
             None
    <2>4. \A b \in Actors : thread[b].old # u /\ thread[b].new # u
      BY Constants, <2>1, <2>2, <2>3
         DEF Issued, handleOAuthCallback, Started, IInv, TypeOK, Thread, Token,
             None
    <2> QED
      BY <2>1, <2>2, <2>3, <2>4
  <1>2. t \in Thread
    BY <1>1, Constants DEF Thread, Idle, Token, None
  <1>3. /\ t.step = "write" /\ t.mode = "request" /\ t.client = Unavailable
        /\ t.old = u /\ t.new = None
    BY <1>1 DEF Thread, Idle
  <1>4. thread' = [thread EXCEPT ![a] = t]
    BY <1>1 DEF handleOAuthCallback, IInv, TypeOK, Thread
  <1>5. /\ issued' = u /\ crowded' \subseteq Callbacks
        /\ grant' \in [0 .. MaxTokens -> 0 .. MaxTokens]
        /\ active' = active /\ refreshToken' = refreshToken /\ refreshMu' = refreshMu
        /\ fresh' = fresh /\ disk' = disk /\ consumed' = consumed
        /\ forgiven' = forgiven /\ floor' = floor
    BY <1>1 DEF handleOAuthCallback, client, Token, tesla, history, IInv, TypeOK
  <1> HIDE DEF t
  <1>6. thread'[a] = t /\ \A b \in Actors \ {a} : thread'[b] = thread[b]
    BY <1>1, <1>4 DEF IInv, TypeOK
  <1>7. TypeOK'
    BY <1>1, <1>2, <1>4, <1>5, Constants DEF IInv, TypeOK
  <1>8. Held'
    BY Functions, <1>1, <1>3, <1>5, <1>6 DEF IInv, Held, Refreshing
  <1>9. InUse'
    BY Functions, <1>1, <1>3, <1>5, <1>6 DEF IInv, InUse
  <1>10. Private'
    BY Functions, <1>1, <1>3, <1>5, <1>6 DEF IInv, Private
  <1>11. Alone'
    BY Functions, <1>1, <1>3, <1>5, <1>6 DEF IInv, Alone
  <1>12. Issued'
    BY Numbers, <1>1, <1>3, <1>5, <1>6 DEF IInv, Issued, None, Token
  <1>13. Distinct'
    BY Functions, <1>1, <1>3, <1>5, <1>6 DEF IInv, Distinct, Pending, Fetched
  <1>14. Unspent'
    BY Functions, <1>1, <1>3, <1>5, <1>6, Numbers
       DEF IInv, Unspent, Pending, Issued
  <1>15. RestartTokenUsable'
    BY Numbers, <1>1, <1>3, <1>5, <1>6
       DEF IInv, RestartTokenUsable, ResolveRefreshToken, Idle
  <1> QED
    BY <1>7, <1>8, <1>9, <1>10, <1>11, <1>12, <1>13, <1>14, <1>15 DEF IInv

LEMMA WriteFileKeeps ==
    ASSUME IInv, NEW a \in Callbacks, WriteFile(a) PROVE IInv'
  <1> DEFINE t == thread'[a]
  <1>1. /\ thread[a] \in Thread /\ a \in Actors /\ thread[a].step = "write" /\ thread[a] # Idle
        /\ thread[a].old \in Token /\ thread[a].old # None /\ thread[a].old \notin consumed
        /\ \/ t = Idle /\ disk' = disk
           \/ t = [thread[a] EXCEPT !.step = "activate"] /\ disk' = thread[a].old
    <2>1. /\ a \in Actors /\ thread \in [Actors -> Thread] /\ thread[a] \in Thread
      BY Constants DEF IInv, TypeOK
    <2>2. thread[a].step = "write" /\ thread[a] # Idle
      BY DEF WriteFile, Idle
    <2>3. Pending(thread[a])
      BY <2>2 DEF Pending
    <2>4. thread[a].old # None /\ thread[a].old \notin consumed
      BY <2>1, <2>3 DEF IInv, Distinct, Unspent
    <2>5. thread[a].old \in Token
      BY <2>1, <2>4 DEF Thread
    <2>6. \/ t = Idle /\ disk' = disk
          \/ t = [thread[a] EXCEPT !.step = "activate"] /\ disk' = thread[a].old
      BY <2>1 DEF WriteFile
    <2> QED
      BY <2>1, <2>2, <2>4, <2>5, <2>6
  <1>2. t \in Thread
    BY <1>1, Constants DEF Thread, Idle, Token, None
  <1>3. /\ t.step \in {"idle", "activate"} /\ t.mode \in {"request", thread[a].mode}
        /\ t.client \in {Unavailable, thread[a].client}
        /\ t.step = "activate" => t.old = thread[a].old /\ disk' = thread[a].old
        /\ t.step = "idle" => disk' = disk
        /\ t.old \in {None, thread[a].old} /\ t.new \in {None, thread[a].new}
        /\ t.mode # "request" => t.mode = thread[a].mode /\ t.client = thread[a].client
    BY <1>1 DEF Thread, Idle
  <1>4. thread' = [thread EXCEPT ![a] = t]
    BY <1>1 DEF WriteFile, IInv, TypeOK, Thread
  <1>5. /\ active' = active /\ refreshToken' = refreshToken /\ refreshMu' = refreshMu
        /\ fresh' = fresh /\ issued' = issued /\ consumed' = consumed
        /\ grant' = grant /\ forgiven' = forgiven /\ crowded' = crowded
        /\ floor' = floor
    BY <1>1 DEF WriteFile, client, tesla, history, IInv, TypeOK
  <1> HIDE DEF t
  <1>6. thread'[a] = t /\ \A b \in Actors \ {a} : thread'[b] = thread[b]
    BY <1>1, <1>4 DEF IInv, TypeOK
  <1>7. TypeOK'
    BY <1>1, <1>2, <1>4, <1>5, Constants DEF IInv, TypeOK
  <1>8. Held'
    BY Functions, <1>1, <1>3, <1>5, <1>6 DEF IInv, Held, Refreshing
  <1>9. InUse'
    BY Functions, <1>1, <1>3, <1>5, <1>6 DEF IInv, InUse
  <1>10. Private'
    BY Functions, <1>1, <1>3, <1>5, <1>6 DEF IInv, Private
  <1>11. Alone'
    BY Functions, <1>1, <1>3, <1>5, <1>6 DEF IInv, Alone, Idle
  <1>12. Issued'
    BY Numbers, <1>1, <1>3, <1>5, <1>6 DEF IInv, Issued, None
  <1>13. Distinct'
    BY Functions, <1>1, <1>3, <1>5, <1>6 DEF IInv, Distinct, Pending, Fetched
  <1>14. Unspent'
    BY Functions, <1>1, <1>3, <1>5, <1>6 DEF IInv, Unspent, Pending
  <1>15. RestartTokenUsable'
    BY Numbers, <1>1, <1>3, <1>5, <1>6
       DEF IInv, RestartTokenUsable, ResolveRefreshToken
  <1> QED
    BY <1>7, <1>8, <1>9, <1>10, <1>11, <1>12, <1>13, <1>14, <1>15 DEF IInv

LEMMA ActivateSets ==
    ASSUME IInv, NEW a \in Callbacks, Activate(a), active # Unavailable PROVE IInv'
  <1> DEFINE t == [thread[a] EXCEPT !.step = "lock", !.mode = "set", !.client = active]
  <1>1. /\ thread[a] \in Thread /\ a \in Actors /\ thread[a].step = "activate" /\ thread[a] # Idle
        /\ active \in Clients /\ refreshToken[active] # None
    BY Constants DEF Activate, IInv, TypeOK, Thread, Idle, InUse
  <1>2. t \in Thread
    BY <1>1, Constants DEF Thread, Idle, Token, None
  <1>3. /\ t.step = "lock" /\ t.mode = "set" /\ t.client = active
        /\ t.old = thread[a].old /\ t.new = thread[a].new
    BY <1>1 DEF Thread, Idle
  <1>4. thread' = [thread EXCEPT ![a] = t]
    BY <1>1 DEF Activate, IInv, TypeOK, Thread
  <1>5. /\ active' = active /\ refreshToken' = refreshToken /\ refreshMu' = refreshMu
        /\ fresh' = fresh /\ disk' = disk /\ issued' = issued
        /\ consumed' = consumed /\ grant' = grant /\ forgiven' = forgiven
        /\ crowded' = crowded /\ floor' = floor
    BY <1>1 DEF Activate, client, tesla, history, IInv, TypeOK
  <1> HIDE DEF t
  <1>6. thread'[a] = t /\ \A b \in Actors \ {a} : thread'[b] = thread[b]
    BY <1>1, <1>4 DEF IInv, TypeOK
  <1>7. TypeOK'
    BY <1>1, <1>2, <1>4, <1>5, Constants DEF IInv, TypeOK
  <1>8. Held'
    BY Functions, <1>1, <1>3, <1>5, <1>6 DEF IInv, Held, Refreshing
  <1>9. InUse'
    BY Functions, <1>1, <1>3, <1>5, <1>6 DEF IInv, InUse
  <1>10. Private'
    BY Functions, <1>1, <1>3, <1>5, <1>6 DEF IInv, Private
  <1>11. Alone'
    BY Functions, <1>1, <1>3, <1>5, <1>6 DEF IInv, Alone, Idle
  <1>12. Issued'
    BY Numbers, <1>1, <1>3, <1>5, <1>6 DEF IInv, Issued
  <1>13. Distinct'
    BY Functions, <1>1, <1>3, <1>5, <1>6 DEF IInv, Distinct, Pending, Fetched
  <1>14. Unspent'
    BY Functions, <1>1, <1>3, <1>5, <1>6 DEF IInv, Unspent, Pending
  <1>15. RestartTokenUsable'
    BY Numbers, <1>1, <1>3, <1>5, <1>6
       DEF IInv, RestartTokenUsable, ResolveRefreshToken
  <1> QED
    BY <1>7, <1>8, <1>9, <1>10, <1>11, <1>12, <1>13, <1>14, <1>15 DEF IInv

LEMMA ActivateCreates ==
    ASSUME IInv, NEW a \in Callbacks, NEW c \in Clients, New(a, c, thread[a].old),
           active = Unavailable, thread[a].step = "activate",
           UNCHANGED <<disk, tesla, forgiven, crowded, floor>> PROVE IInv'
  <1> DEFINE u == thread[a].old
             t == [step |-> "exchange", mode |-> "new", client |-> c, old |-> u, new |-> None]
  <1>1. /\ thread[a] \in Thread /\ a \in Actors /\ thread[a] # Idle
        /\ u \in Token /\ u # None /\ Pending(thread[a])
        /\ \A b \in Actors : thread[b].client # c
    BY Constants
       DEF New, IInv, TypeOK, Thread, Idle, Distinct, Pending, Unspent, None
  <1>2. t \in Thread
    BY <1>1, Constants DEF Thread, Idle, Token, None
  <1>3. /\ t.step = "exchange" /\ t.mode = "new" /\ t.client = c
        /\ t.old = u /\ t.new = None
    BY <1>1 DEF Thread, Idle
  <1>4. thread' = [thread EXCEPT ![a] = t]
    BY <1>1 DEF New, IInv, TypeOK, Thread
  <1>5. /\ refreshMu' = [refreshMu EXCEPT ![c] = a]
        /\ refreshToken' = [refreshToken EXCEPT ![c] = u]
        /\ fresh' \in [Clients -> BOOLEAN]
        /\ active' = active /\ disk' = disk /\ issued' = issued
        /\ consumed' = consumed /\ grant' = grant /\ forgiven' = forgiven
        /\ crowded' = crowded /\ floor' = floor
    BY <1>1 DEF New, tesla, history, IInv, TypeOK
  <1> HIDE DEF t
  <1>6. thread'[a] = t /\ \A b \in Actors \ {a} : thread'[b] = thread[b]
    BY <1>1, <1>4 DEF IInv, TypeOK
  <1>7. TypeOK'
    BY <1>1, <1>2, <1>4, <1>5, Constants DEF IInv, TypeOK
  <1>8. Held'
    BY Functions, <1>1, <1>3, <1>5, <1>6 DEF IInv, Held, Refreshing
  <1>9. InUse'
    BY Functions, <1>1, <1>3, <1>5, <1>6 DEF IInv, InUse
  <1>10. Private'
    BY Functions, <1>1, <1>3, <1>5, <1>6 DEF IInv, Private
  <1>11. Alone'
    BY Functions, <1>1, <1>3, <1>5, <1>6 DEF IInv, Alone, Idle, Pending
  <1>12. Issued'
    BY Numbers, <1>1, <1>3, <1>5, <1>6 DEF IInv, Issued, None
  <1>13. Distinct'
    BY Functions, <1>1, <1>3, <1>5, <1>6 DEF IInv, Distinct, Pending, Fetched
  <1>14. Unspent'
    BY Functions, <1>1, <1>3, <1>5, <1>6 DEF IInv, Unspent, Pending, Pending
  <1>15. RestartTokenUsable'
    BY Numbers, <1>1, <1>3, <1>5, <1>6
       DEF IInv, RestartTokenUsable, ResolveRefreshToken
  <1> QED
    BY <1>7, <1>8, <1>9, <1>10, <1>11, <1>12, <1>13, <1>14, <1>15 DEF IInv

LEMMA ResolveCreates ==
    ASSUME IInv, NEW c \in Clients, NEW u \in Token, New(Main, c, u), u <= issued,
           thread[Main].step = "resolve",
           UNCHANGED <<disk, tesla, forgiven, crowded, floor>> PROVE IInv'
  <1> DEFINE a == Main
             t == [step |-> "exchange", mode |-> "new", client |-> c, old |-> u, new |-> None]
  <1>1. /\ thread[a] \in Thread /\ a \in Actors /\ thread[a] # Idle /\ u # None
        /\ \A b \in Actors \ {a} : thread[b] = Idle
        /\ Idle.client = Unavailable /\ Idle.step = "idle" /\ Idle.mode = "request"
        /\ \A d \in Clients : refreshToken[d] = None
        /\ c # active
    <2>1. thread[a] \in Thread /\ a \in Actors /\ thread[a] # Idle /\ u # None
      BY Constants DEF New, IInv, TypeOK, Thread, Idle, Alone, Token, None
    <2>2. \A b \in Actors \ {a} : thread[b] = Idle
      BY Constants, <2>1 DEF New, IInv, TypeOK, Thread, Idle, Alone, Token, None
    <2>3. Idle.client = Unavailable /\ Idle.step = "idle" /\ Idle.mode = "request"
      BY Constants, <2>1, <2>2
         DEF New, IInv, TypeOK, Thread, Idle, Alone, Token, None
    <2>4. \A d \in Clients : refreshToken[d] = None
      BY Constants, <2>1, <2>2, <2>3
         DEF New, IInv, TypeOK, Thread, Idle, Alone, Token, None
    <2>5. c # active
      BY Constants, <2>1, <2>2, <2>3, <2>4
         DEF New, IInv, TypeOK, Thread, Idle, Alone, Token, None
    <2> QED
      BY <2>1, <2>2, <2>3, <2>4, <2>5
  <1>2. t \in Thread
    BY <1>1, Constants DEF Thread, Idle, Token, None
  <1>3. /\ t.step = "exchange" /\ t.mode = "new" /\ t.client = c
        /\ t.old = u /\ t.new = None
    BY <1>1 DEF Thread, Idle
  <1>4. thread' = [thread EXCEPT ![a] = t]
    BY <1>1 DEF New, IInv, TypeOK, Thread
  <1>5. /\ refreshMu' = [refreshMu EXCEPT ![c] = a]
        /\ refreshToken' = [refreshToken EXCEPT ![c] = u]
        /\ fresh' \in [Clients -> BOOLEAN]
        /\ active' = active /\ disk' = disk /\ issued' = issued
        /\ consumed' = consumed /\ grant' = grant /\ forgiven' = forgiven
        /\ crowded' = crowded /\ floor' = floor
    BY <1>1 DEF New, tesla, history, IInv, TypeOK
  <1> HIDE DEF t
  <1>6. thread'[a] = t /\ \A b \in Actors \ {a} : thread'[b] = thread[b]
    BY <1>1, <1>4 DEF IInv, TypeOK
  <1>7. TypeOK'
    BY <1>1, <1>2, <1>4, <1>5, Constants DEF IInv, TypeOK
  <1>8. Held'
    BY Functions, <1>1, <1>3, <1>5, <1>6 DEF IInv, Held, Refreshing
  <1>9. InUse'
    BY Functions, <1>1, <1>3, <1>5, <1>6 DEF IInv, InUse
  <1>10. Private'
    BY Functions, <1>1, <1>3, <1>5, <1>6 DEF IInv, Private
  <1>11. Alone'
    BY Functions, <1>1, <1>3, <1>5, <1>6 DEF IInv, Alone
  <1>12. Issued'
    BY Numbers, <1>1, <1>3, <1>5, <1>6 DEF IInv, Issued, None
  <1>13. Distinct'
    BY Functions, <1>1, <1>3, <1>5, <1>6 DEF IInv, Distinct, Pending, Fetched
  <1>14. Unspent'
    BY Functions, <1>1, <1>3, <1>5, <1>6 DEF IInv, Unspent, Pending
  <1>15. RestartTokenUsable'
    BY Numbers, <1>1, <1>3, <1>5, <1>6
       DEF IInv, RestartTokenUsable, ResolveRefreshToken
  <1> QED
    BY <1>7, <1>8, <1>9, <1>10, <1>11, <1>12, <1>13, <1>14, <1>15 DEF IInv

LEMMA PromoteKeeps ==
    ASSUME IInv, NEW a \in Actors, Promote(a) PROVE IInv'
  <1> DEFINE c == thread[a].client
             t == Idle
  <1>1. /\ thread[a] \in Thread /\ thread[a].step = "promote" /\ c \in Clients
        /\ refreshToken[c] # None
        /\ thread[a].new \in 0 .. MaxTokens
        /\ floor' \in Token \union {None}
    <2>1. thread[a] \in Thread /\ thread[a].step = "promote" /\ c \in Clients
      BY Constants, TokenRange
         DEF Promote, Activated, IInv, TypeOK, Thread, Held, InUse
    <2>2. refreshToken[c] # None
      BY Constants, TokenRange, <2>1
         DEF Promote, Activated, IInv, TypeOK, Thread, Held, InUse
    <2>3. thread[a].new \in 0 .. MaxTokens
      BY Constants, TokenRange, <2>1, <2>2
         DEF Promote, Activated, IInv, TypeOK, Thread, Held, InUse
    <2>4. floor' \in Token \union {None}
      BY Constants, TokenRange, <2>1, <2>2, <2>3
         DEF Promote, Activated, IInv, TypeOK, Thread, Held, InUse
    <2> QED
      BY <2>1, <2>2, <2>3, <2>4
  <1>2. t \in Thread
    BY <1>1, Constants DEF Thread, Idle, Token, None
  <1>3. /\ t.step = "idle" /\ t.mode = "request" /\ t.client = Unavailable
        /\ t.old = None /\ t.new = None /\ t = Idle
    BY <1>1 DEF Thread, Idle
  <1>4. thread' = [thread EXCEPT ![a] = t]
    BY <1>1 DEF Promote, IInv, TypeOK, Thread
  <1>5. /\ active' = c
        /\ refreshToken' = refreshToken /\ refreshMu' = refreshMu /\ fresh' = fresh
        /\ disk' = disk /\ issued' = issued /\ consumed' = consumed
        /\ grant' = grant /\ forgiven' = forgiven /\ crowded' = crowded
    BY <1>1 DEF Promote, Activated, tesla, history, IInv, TypeOK
  <1> HIDE DEF t
  <1>6. thread'[a] = t /\ \A b \in Actors \ {a} : thread'[b] = thread[b]
    BY <1>1, <1>4 DEF IInv, TypeOK
  <1>7. TypeOK'
    BY <1>1, <1>2, <1>4, <1>5, Constants DEF IInv, TypeOK
  <1>8. Held'
    BY Functions, <1>1, <1>3, <1>5, <1>6 DEF IInv, Held, Refreshing
  <1>9. InUse'
    BY Functions, <1>1, <1>3, <1>5, <1>6 DEF IInv, InUse
  <1>10. Private'
    BY Functions, <1>1, <1>3, <1>5, <1>6 DEF IInv, Private
  <1>11. Alone'
    BY Functions, <1>1, <1>3, <1>5, <1>6 DEF IInv, Alone
  <1>12. Issued'
    BY Numbers, <1>1, <1>3, <1>5, <1>6 DEF IInv, Issued, None
  <1>13. Distinct'
    BY Functions, <1>1, <1>3, <1>5, <1>6 DEF IInv, Distinct, Pending, Fetched
  <1>14. Unspent'
    BY Functions, <1>1, <1>3, <1>5, <1>6 DEF IInv, Unspent, Pending
  <1>15. RestartTokenUsable'
    BY Numbers, <1>1, <1>3, <1>5, <1>6
       DEF IInv, RestartTokenUsable, ResolveRefreshToken
  <1> QED
    BY <1>7, <1>8, <1>9, <1>10, <1>11, <1>12, <1>13, <1>14, <1>15 DEF IInv

LEMMA ExpireKeeps ==
    ASSUME IInv, NEW c \in Clients, Expire(c) PROVE IInv'
  <1>1. /\ fresh' \in [Clients -> BOOLEAN]
        /\ UNCHANGED <<active, refreshToken, refreshMu, disk, thread, tesla,
                       history>>
    BY DEF Expire, IInv, TypeOK
  <1> QED
    BY <1>1 DEF IInv, TypeOK, Held, InUse, Private, Alone, Issued, Distinct,
                Unspent, RestartTokenUsable, ResolveRefreshToken, tesla, history

LEMMA ResolveKeeps ==
    ASSUME IInv, Resolve PROVE IInv'
  <1>1. PICK u \in {ResolveRefreshToken, Configured} :
           \/ /\ u = None
              /\ thread' = [thread EXCEPT ![Main] = Idle]
              /\ UNCHANGED client
           \/ u # None /\ \E c \in Clients : New(Main, c, u)
    BY DEF Resolve
  <1>2. /\ thread[Main].step = "resolve"
        /\ UNCHANGED <<disk, tesla, forgiven, crowded, floor>>
    BY DEF Resolve, history
  <1>3. u <= issued /\ u \in Token \union {None}
    BY <1>1, Constants
       DEF IInv, TypeOK, Issued, ResolveRefreshToken, Token, None
  <1>4. CASE u # None
    BY <1>1, <1>2, <1>3, <1>4, ResolveCreates
  <1>5. CASE u = None
    <2>1. /\ thread' = [thread EXCEPT ![Main] = Idle]
          /\ UNCHANGED client
      BY <1>1, <1>5
    <2>2. \A a \in Actors : thread'[a] = Idle
      BY <1>2, <2>1, Constants DEF IInv, TypeOK, Alone, Idle
    <2>3. /\ Idle.step = "idle" /\ Idle.mode = "request"
          /\ Idle.client = Unavailable /\ Idle.old = 0 /\ Idle.new = 0
          /\ Idle \in Thread
      BY Constants DEF Idle, Thread, None
    <2>4. TypeOK'
      BY <2>1, <2>3, <1>2 DEF IInv, TypeOK, client, tesla
    <2>5. Issued'
      BY <1>2, <2>1, <2>2, <2>3, Numbers DEF IInv, Issued, client, tesla
    <2>6. RestartTokenUsable'
      BY <1>2, <2>1, <2>2, <2>3, Constants
         DEF IInv, RestartTokenUsable, ResolveRefreshToken, client, tesla, Alone,
             Idle
    <2> QED
      BY <1>2, <2>1, <2>2, <2>3, <2>4, <2>5, <2>6, Constants
         DEF IInv, Held, Refreshing, InUse, Private, Alone, Distinct, Pending,
             Fetched, Unspent, client, tesla
  <1> QED
    BY <1>4, <1>5

\* A crash forgives exactly the tokens whose successors it swallows.
LEMMA CrashKeeps ==
    ASSUME IInv, Crash PROVE IInv'
  <1>1. /\ \A a \in Actors \ {Main} : thread'[a] = Idle
        /\ thread'[Main] = [Idle EXCEPT !.step = "resolve"]
        /\ \A c \in Clients : refreshToken'[c] = None
        /\ active' = Unavailable /\ disk' = disk
        /\ issued' = issued /\ consumed' = consumed /\ grant' = grant
    BY Constants DEF Crash, Starting, tesla
  <1>2. /\ Idle.step = "idle" /\ Idle.mode = "request"
        /\ Idle.client = Unavailable /\ Idle.old = 0 /\ Idle.new = 0
        /\ Idle \in Thread
    BY Constants DEF Idle, Thread, None
  <1>3. /\ thread'[Main].step = "resolve" /\ thread'[Main].mode = "request"
        /\ thread'[Main].client = Unavailable
        /\ thread'[Main].old = 0 /\ thread'[Main].new = 0
        /\ thread'[Main] \in Thread
    BY <1>1, Constants DEF Idle, Thread, None
  <1>4. thread' \in [Actors -> Thread]
    BY <1>1, <1>2, <1>3 DEF Crash, Starting
  <1>5. forgiven' \subseteq Token
    BY DEF Crash, IInv, TypeOK, Held, Refreshing
  <1>6. TypeOK'
    BY <1>1, <1>4, <1>5, Constants DEF Crash, IInv, TypeOK, None
  <1>7. Issued'
    <2>1. \A a \in Actors : thread'[a].old = 0 /\ thread'[a].new = 0
      BY <1>1, <1>2, <1>3
    <2> QED
      BY <1>1, <2>1, Numbers DEF IInv, Issued, None
  <1>8. RestartTokenUsable'
    BY <1>1 DEF Crash, IInv, RestartTokenUsable, ResolveRefreshToken
  <1> QED
    BY <1>1, <1>2, <1>3, <1>6, <1>7, <1>8, Constants
       DEF IInv, Held, Refreshing, InUse, Private, Alone, Distinct, Pending,
           Fetched, Unspent

LEMMA Step == IInv /\ [Next]_vars => IInv'
  <1> SUFFICES ASSUME IInv, [Next]_vars PROVE IInv'
    OBVIOUS
  <1>1. ASSUME NEW a \in Actors, Lock(a) \/ Refresh(a) \/ Promote(a) PROVE IInv'
    BY <1>1, LockKeeps, RotatedKeeps, KeptKeeps, RefusedKeeps, AnswerLostKeeps,
       StoreFinishes, StoreGoesOn, PersistKeeps, PromoteKeeps DEF Refresh
  <1>2. ASSUME NEW a \in Callers, BeginRequest(a) \/ Send(a) PROVE IInv'
    BY <1>2, BeginRequestKeeps, SendEnds, SendRetries
  <1>3. ASSUME NEW a \in Callbacks,
               handleOAuthCallback(a) \/ WriteFile(a) \/ Activate(a)
        PROVE  IInv'
    <2>1. CASE handleOAuthCallback(a) \/ WriteFile(a)
      BY <2>1, CallbackKeeps, WriteFileKeeps
    <2>2. CASE Activate(a) /\ active # Unavailable
      BY <2>2, ActivateSets
    <2>3. CASE Activate(a) /\ active = Unavailable
      <3>1. PICK c \in Clients : New(a, c, thread[a].old)
        BY <2>3 DEF Activate
      <3> QED
        BY <2>3, <3>1, ActivateCreates DEF Activate, history
    <2> QED
      BY <1>3, <2>1, <2>2, <2>3
  <1>4. CASE UNCHANGED vars
    BY <1>4
       DEF vars, client, tesla, history, IInv, TypeOK, Held, InUse, Private,
                Alone, Issued, Distinct, Unspent, RestartTokenUsable,
                ResolveRefreshToken
  <1> QED
    BY <1>1, <1>2, <1>3, <1>4, ExpireKeeps, ResolveKeeps, CrashKeeps DEF Next

\* The inductive invariant holds in every reachable state, for any number of
\* goroutines, callbacks, clients and tokens.
THEOREM Invariance == Spec => []IInv
  BY Initial, Step, PTL DEF Spec

\* The client, its threads and Tesla keep their types.
THEOREM TypeCorrectness == Spec => []TypeOK
  <1>1. IInv => TypeOK
    BY DEF IInv
  <1> QED
    BY Invariance, <1>1, PTL

\* refreshAccessTokenLocked's comment: a restart does not fall back to a token
\* that Tesla has already invalidated, unless a fault swallowed its successor.
THEOREM RestartsFindToken == Spec => []RestartTokenUsable
  <1>1. IInv => RestartTokenUsable
    BY DEF IInv
  <1> QED
    BY Invariance, <1>1, PTL
=============================================================================
