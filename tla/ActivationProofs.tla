-------------------------- MODULE ActivationProofs --------------------------
(***************************************************************************)
(* Proof about TeslaTokens: an activated grant stays in force, for any     *)
(* number of requests, callbacks, clients and tokens.                      *)
(***************************************************************************)
EXTENDS TeslaTokensProofs

\* What a thread presents descends from no grant older than the last one
\* activated, if it is a callback's; a rotation stays within its grant; a
\* callback that is alone sets the token of the client in use.
Known(a) ==
    /\ thread[a].mode = "set" => a \in Callbacks
    /\ thread[a].mode = "new" => a \notin Callers
    /\ a \in Callbacks /\ thread[a].step = "lock" => thread[a].mode = "set"
    /\ thread[a].step = "promote" =>
          thread[a].mode = "new" /\ refreshToken[thread[a].client] = thread[a].new
    /\ thread[a].step \in {"store", "persist", "promote"} =>
          grant[thread[a].new] = grant[thread[a].old]
    /\ a \in Callbacks /\ thread[a] # Idle => grant[thread[a].old] >= floor
    /\ a \in Callbacks \ crowded /\ thread[a].mode = "set" =>
          thread[a].client = active

\* A grant is numbered by its first token.
Lineage == floor <= issued /\ \A t \in 0 .. MaxTokens : grant[t] <= t

\* A process begins with no activation; callbacks that overlap are crowded.
Overlaps ==
    /\ thread[Main] # Idle => floor = None
    /\ \A a, b \in Callbacks :
          a # b /\ thread[a] # Idle /\ thread[b] # Idle => a \in crowded

AInv == Lineage /\ Overlaps /\ ActivationHolds /\ \A a \in Actors : Known(a)

\* What the provers need of the types.
LEMMA Types ==
    ASSUME IInv
    PROVE  /\ issued \in Int /\ issued >= 1 /\ issued <= MaxTokens /\ MaxTokens \in Nat
           /\ floor \in Int /\ floor >= 0 /\ floor <= MaxTokens
           /\ grant \in [0 .. MaxTokens -> 0 .. MaxTokens]
           /\ \A c \in Clients : refreshToken[c] \in 0 .. issued
           /\ \A a \in Actors : /\ thread[a] \in Thread
                                /\ thread[a].old \in 0 .. issued
                                /\ thread[a].new \in 0 .. issued
           /\ active \in Clients \union {Unavailable}
  <1>1. /\ issued \in Int /\ issued >= 1 /\ issued <= MaxTokens /\ MaxTokens \in Nat
        /\ floor \in Int /\ floor >= 0 /\ floor <= MaxTokens
        /\ grant \in [0 .. MaxTokens -> 0 .. MaxTokens]
        /\ active \in Clients \union {Unavailable}
    BY Constants DEF IInv, TypeOK, Token, None
  <1>0. ASSUME NEW u \in Token \union {None}, u <= issued PROVE u \in 0 .. issued
    BY <1>0, <1>1 DEF Token, None
  <1>2. ASSUME NEW c \in Clients PROVE refreshToken[c] \in 0 .. issued
    <2>1. refreshToken[c] \in Token \union {None} /\ refreshToken[c] <= issued
      BY DEF IInv, TypeOK, Issued
    <2> QED
      BY <1>0, <2>1
  <1>3. ASSUME NEW a \in Actors
        PROVE  /\ thread[a] \in Thread /\ thread[a].old \in 0 .. issued
               /\ thread[a].new \in 0 .. issued
    <2>1. /\ thread[a] \in Thread
          /\ thread[a].old \in Token \union {None} /\ thread[a].old <= issued
          /\ thread[a].new \in Token \union {None} /\ thread[a].new <= issued
      BY DEF IInv, TypeOK, Issued, Thread
    <2> QED
      BY <1>0, <2>1
  <1> QED
    BY <1>1, <1>2, <1>3

\* A thread keeps what it knows while another one acts.
LEMMA OthersKnown ==
    ASSUME IInv, AInv, NEW a \in Actors, NEW b \in Actors, a # b,
           thread'[b] = thread[b],
           \A x \in 0 .. issued : grant'[x] = grant[x],
           crowded \ {a} \subseteq crowded',
           thread[b].mode = "new" =>
              refreshToken'[thread[b].client] = refreshToken[thread[b].client],
           thread[b] # Idle /\ b \in Callbacks => floor' = floor,
           thread[b] # Idle /\ b \in Callbacks \ crowded => active' = active
    PROVE  Known(b)'
  <1>1. CASE thread[b] = Idle
    BY <1>1 DEF Known, Idle
  <1>2. CASE thread[b] # Idle
    <2>1. Known(b) /\ thread[b].old \in 0 .. issued /\ thread[b].new \in 0 .. issued
      BY Types DEF AInv
    <2>2. /\ grant'[thread[b].old] = grant[thread[b].old]
          /\ grant'[thread[b].new] = grant[thread[b].new]
      BY <2>1
    <2> QED
      BY <1>2, <2>1, <2>2 DEF Known
  <1> QED
    BY <1>1, <1>2

\* A step of one thread that activates nothing.
LEMMA Moved ==
    ASSUME IInv, AInv, NEW a \in Actors,
           \A b \in Actors \ {a} : thread'[b] = thread[b],
           active' = active, crowded' = crowded, floor' = floor,
           issued' \in Int, issued' >= issued,
           \A x \in 0 .. issued : grant'[x] = grant[x],
           \A x \in 0 .. MaxTokens : grant'[x] <= x,
           a \in Callers \/ thread[a] # Idle,
           \A b \in Actors \ {a} : thread[b].mode = "new" =>
              refreshToken'[thread[b].client] = refreshToken[thread[b].client],
           active # Unavailable => grant'[refreshToken'[active]] >= floor,
           Known(a)'
    PROVE  AInv'
  <1>1. /\ Main \in Actors /\ Callbacks \subseteq Actors
        /\ a \in Callers => a # Main /\ a \notin Callbacks
    BY Constants, TokensAssumption DEF IInv, TypeOK
  <1>2. Lineage'
    BY Types DEF AInv, Lineage
  <1>3. Overlaps'
    BY <1>1 DEF AInv, Overlaps
  <1>4. ActivationHolds'
    BY DEF ActivationHolds
  <1>5. \A b \in Actors \ {a} : Known(b)'
    BY <1>1, OthersKnown
  <1> QED
    BY <1>2, <1>3, <1>4, <1>5 DEF AInv

\* A step of one thread that leaves all tokens where they are.
LEMMA Quiet ==
    ASSUME IInv, AInv, NEW a \in Actors,
           \A b \in Actors \ {a} : thread'[b] = thread[b],
           active' = active, crowded' = crowded, floor' = floor,
           issued' = issued, grant' = grant, refreshToken' = refreshToken,
           a \in Callers \/ thread[a] # Idle,
           Known(a)'
    PROVE  AInv'
  <1>1. /\ issued \in Int /\ \A x \in 0 .. MaxTokens : grant[x] <= x
        /\ active # Unavailable => grant[refreshToken[active]] >= floor
    BY Types DEF AInv, Lineage, ActivationHolds
  <1> QED
    BY <1>1, Moved

----------------------------------------------------------------------------
(* Steps that activate nothing                                              *)

\* Each lemma says what the action does to its thread and to the tokens; the
\* rest follows from Moved or Quiet.

LEMMA LockKnows ==
    ASSUME IInv, AInv, NEW a \in Actors, Lock(a) PROVE AInv'
  <1> DEFINE c == thread[a].client
             u == IF thread[a].mode = "set" THEN thread[a].old ELSE refreshToken[c]
             t == [thread[a] EXCEPT !.step = "exchange", !.old = u]
  <1>1. /\ thread[a] \in Thread /\ c \in Clients /\ thread[a].step = "lock"
        /\ thread[a] # Idle /\ Known(a)
    BY Types DEF Lock, IInv, Held, AInv, Idle
  <1>2. /\ t.step = "exchange" /\ t.mode = thread[a].mode /\ t.client = c /\ t.old = u
    BY <1>1 DEF Thread
  <1>3. thread' = [thread EXCEPT ![a] = t]
    BY <1>1 DEF Lock, Locked, IInv, TypeOK, Thread
  <1>4. /\ refreshToken' = [refreshToken EXCEPT ![c] = u]
        /\ UNCHANGED <<active, issued, grant, crowded, floor>>
    BY <1>1 DEF Lock, Locked, tesla, history, IInv, TypeOK
  <1> HIDE DEF t
  <1>5. thread'[a] = t /\ \A b \in Actors \ {a} : thread'[b] = thread[b]
    BY <1>3 DEF IInv, TypeOK
  <1>6. Known(a)'
    BY <1>1, <1>2, <1>4, <1>5 DEF Known
  <1>7. \A b \in Actors \ {a} : thread[b].mode = "new" =>
           refreshToken'[thread[b].client] = refreshToken[thread[b].client]
    BY <1>1, <1>4, Functions DEF IInv, Private
  <1>8. active # Unavailable => grant'[refreshToken'[active]] >= floor
    <2>1. CASE thread[a].mode = "set" /\ c = active
      <3>1. a \in Callbacks
        BY <2>1, <1>1 DEF Known
      <3> QED
        BY <3>1, <2>1, <1>1, <1>4, Functions DEF Known
    <2>2. CASE ~(thread[a].mode = "set" /\ c = active)
      BY <2>2, <1>1, <1>4, Functions, Types DEF AInv, ActivationHolds
    <2> QED
      BY <2>1, <2>2
  <1> QED
    <2>1. /\ active' = active /\ crowded' = crowded /\ floor' = floor
          /\ issued' = issued /\ grant' = grant
          /\ issued \in Int /\ \A x \in 0 .. MaxTokens : grant[x] <= x
      BY <1>4, Types DEF AInv, Lineage
    <2> QED
      BY <1>1, <1>5, <1>6, <1>7, <1>8, <2>1, Moved

LEMMA RotatedKnows ==
    ASSUME IInv, AInv, NEW a \in Actors, Rotated(a) PROVE AInv'
  <1> DEFINE u == issued + 1
             t == [thread[a] EXCEPT !.step = "store", !.new = u]
  <1>1. /\ thread[a] \in Thread /\ thread[a].step = "exchange" /\ thread[a] # Idle
        /\ thread[a].old \in 0 .. issued /\ Known(a) /\ u \in 0 .. MaxTokens
        /\ issued \in Int /\ u > issued
    BY Types DEF Rotated, AInv, Idle
  <1>2. /\ t.step = "store" /\ t.mode = thread[a].mode
        /\ t.client = thread[a].client /\ t.old = thread[a].old /\ t.new = u
    BY <1>1 DEF Thread
  <1>3. /\ thread' = [thread EXCEPT ![a] = t]
        /\ grant' = [grant EXCEPT ![u] = grant[thread[a].old]]
        /\ issued' = u /\ refreshToken' = refreshToken
        /\ active' = active /\ crowded' = crowded /\ floor' = floor
    BY <1>1 DEF Rotated, client, history, IInv, TypeOK, Thread
  <1> HIDE DEF t
  <1>4. thread'[a] = t /\ \A b \in Actors \ {a} : thread'[b] = thread[b]
    BY <1>3 DEF IInv, TypeOK
  <1>5. /\ \A x \in 0 .. issued : grant'[x] = grant[x]
        /\ grant'[u] = grant[thread[a].old]
        /\ \A x \in 0 .. MaxTokens : grant'[x] <= x
    BY <1>1, <1>3, Types DEF AInv, Lineage
  <1>6. grant'[thread[a].old] = grant[thread[a].old]
    BY <1>1, <1>5
  <1>7. Known(a)'
    BY <1>1, <1>2, <1>3, <1>4, <1>5, <1>6 DEF Known, Idle
  <1>8. active # Unavailable => grant'[refreshToken'[active]] >= floor
    BY <1>3, <1>5, Types DEF AInv, ActivationHolds
  <1>9. issued' \in Int /\ issued' >= issued
    BY <1>1, <1>3
  <1> QED
    BY <1>1, <1>3, <1>4, <1>5, <1>7, <1>8, <1>9, Moved

LEMMA KeptKnows ==
    ASSUME IInv, AInv, NEW a \in Actors, Kept(a) PROVE AInv'
  <1> DEFINE t == [thread[a] EXCEPT !.step = "store", !.new = thread[a].old]
  <1>1. /\ thread[a] \in Thread /\ thread[a].step = "exchange" /\ thread[a] # Idle
        /\ Known(a)
    BY Types DEF Kept, AInv, Idle
  <1>2. /\ t.step = "store" /\ t.mode = thread[a].mode
        /\ t.client = thread[a].client /\ t.old = thread[a].old /\ t.new = thread[a].old
    BY <1>1 DEF Thread
  <1>3. /\ thread' = [thread EXCEPT ![a] = t]
        /\ grant' = grant /\ issued' = issued /\ refreshToken' = refreshToken
        /\ active' = active /\ crowded' = crowded /\ floor' = floor
    BY <1>1 DEF Kept, client, tesla, history, IInv, TypeOK, Thread
  <1> HIDE DEF t
  <1>4. thread'[a] = t /\ \A b \in Actors \ {a} : thread'[b] = thread[b]
    BY <1>3 DEF IInv, TypeOK
  <1>5. Known(a)'
    BY <1>1, <1>2, <1>3, <1>4 DEF Known, Idle
  <1> QED
    BY <1>1, <1>3, <1>4, <1>5, Quiet

\* A failed refresh takes no token back from a client in use.
LEMMA FailKnows ==
    ASSUME IInv, AInv, NEW a \in Actors, Fail(a), thread[a].step = "exchange",
           UNCHANGED <<issued, grant>>
    PROVE  AInv'
  <1> DEFINE c == thread[a].client
  <1>1. /\ c \in Clients /\ thread[a] # Idle
        /\ thread[a].mode = "new" =>
              c # active /\ \A b \in Actors \ {a} : thread[b].client # c
    BY DEF IInv, Held, Refreshing, Private, Idle
  <1>2. /\ thread'[a] = Idle /\ \A b \in Actors \ {a} : thread'[b] = thread[b]
        /\ \A d \in Clients : refreshToken'[d] # refreshToken[d] =>
              d = c /\ thread[a].mode = "new"
        /\ active' = active /\ crowded' = crowded /\ floor' = floor
        /\ issued' = issued /\ grant' = grant
    BY <1>1 DEF Fail, IInv, TypeOK
  <1>3. Known(a)'
    BY <1>2 DEF Known, Idle
  <1>4. \A b \in Actors \ {a} : thread[b].mode = "new" =>
           refreshToken'[thread[b].client] = refreshToken[thread[b].client]
    BY <1>1, <1>2 DEF IInv, Private
  <1>5. active # Unavailable => grant'[refreshToken'[active]] >= floor
    BY <1>1, <1>2, Types DEF AInv, ActivationHolds
  <1>6. issued' \in Int /\ issued' >= issued /\ \A x \in 0 .. MaxTokens : grant'[x] <= x
    BY <1>2, Types DEF AInv, Lineage
  <1> QED
    BY <1>1, <1>2, <1>3, <1>4, <1>5, <1>6, Moved

LEMMA BeginRequestKnows ==
    ASSUME IInv, AInv, NEW a \in Callers, BeginRequest(a) PROVE AInv'
  <1> DEFINE t == [thread[a] EXCEPT !.client = active,
                                    !.step = IF fresh[active] THEN "send" ELSE "lock"]
  <1>1. /\ a \in Actors /\ a \notin Callbacks /\ thread[a] \in Thread
        /\ thread[a].mode = "request"
    BY Types, Constants, TokensAssumption DEF BeginRequest, Idle
  <1>2. t.mode = "request" /\ t.step \in {"send", "lock"}
    BY <1>1 DEF Thread
  <1>3. /\ thread' = [thread EXCEPT ![a] = t]
        /\ grant' = grant /\ issued' = issued /\ refreshToken' = refreshToken
        /\ active' = active /\ crowded' = crowded /\ floor' = floor
    BY <1>1 DEF BeginRequest, client, tesla, history, IInv, TypeOK, Thread
  <1> HIDE DEF t
  <1>4. thread'[a] = t /\ \A b \in Actors \ {a} : thread'[b] = thread[b]
    BY <1>1, <1>3 DEF IInv, TypeOK
  <1>5. Known(a)'
    BY <1>1, <1>2, <1>4 DEF Known
  <1> QED
    BY <1>1, <1>3, <1>4, <1>5, Quiet

LEMMA SendKnows ==
    ASSUME IInv, AInv, NEW a \in Callers, Send(a) PROVE AInv'
  <1> DEFINE t == [thread[a] EXCEPT !.mode = "retry", !.step = "lock"]
  <1>1. /\ a \in Actors /\ a \notin Callbacks /\ thread[a] \in Thread
    BY Types, Constants, TokensAssumption
  <1>2. t.mode = "retry" /\ t.step = "lock"
    BY <1>1 DEF Thread
  <1>3. /\ thread' = [thread EXCEPT ![a] = t] \/ thread' = [thread EXCEPT ![a] = Idle]
        /\ grant' = grant /\ issued' = issued /\ refreshToken' = refreshToken
        /\ active' = active /\ crowded' = crowded /\ floor' = floor
    BY <1>1 DEF Send, client, tesla, history, IInv, TypeOK, Thread
  <1> HIDE DEF t
  <1>4. thread'[a] \in {t, Idle} /\ \A b \in Actors \ {a} : thread'[b] = thread[b]
    BY <1>1, <1>3 DEF IInv, TypeOK
  <1>5. Known(a)'
    BY <1>1, <1>2, <1>4 DEF Known, Idle
  <1> QED
    BY <1>1, <1>3, <1>4, <1>5, Quiet

LEMMA WriteFileKnows ==
    ASSUME IInv, AInv, NEW a \in Callbacks, WriteFile(a) PROVE AInv'
  <1> DEFINE t == [thread[a] EXCEPT !.step = "activate"]
  <1>1. /\ a \in Actors /\ thread[a] \in Thread /\ thread[a].step = "write"
        /\ thread[a] # Idle /\ Known(a)
    BY Types, Constants DEF WriteFile, AInv, Idle
  <1>2. /\ t.step = "activate" /\ t.mode = thread[a].mode
        /\ t.client = thread[a].client /\ t.old = thread[a].old
    BY <1>1 DEF Thread
  <1>3. /\ thread' = [thread EXCEPT ![a] = t] \/ thread' = [thread EXCEPT ![a] = Idle]
        /\ grant' = grant /\ issued' = issued /\ refreshToken' = refreshToken
        /\ active' = active /\ crowded' = crowded /\ floor' = floor
    BY <1>1 DEF WriteFile, client, tesla, history, IInv, TypeOK, Thread
  <1> HIDE DEF t
  <1>4. thread'[a] \in {t, Idle} /\ \A b \in Actors \ {a} : thread'[b] = thread[b]
    BY <1>1, <1>3 DEF IInv, TypeOK
  <1>5. Known(a)'
    BY <1>1, <1>2, <1>3, <1>4 DEF Known, Idle
  <1> QED
    BY <1>1, <1>3, <1>4, <1>5, Quiet

LEMMA ActivateSetsKnows ==
    ASSUME IInv, AInv, NEW a \in Callbacks, Activate(a), active # Unavailable
    PROVE  AInv'
  <1> DEFINE t == [thread[a] EXCEPT !.step = "lock", !.mode = "set", !.client = active]
  <1>1. /\ a \in Actors /\ thread[a] \in Thread /\ thread[a].step = "activate"
        /\ thread[a] # Idle /\ Known(a)
    BY Types, Constants DEF Activate, AInv, Idle
  <1>2. t.step = "lock" /\ t.mode = "set" /\ t.client = active /\ t.old = thread[a].old
    BY <1>1 DEF Thread
  <1>3. /\ thread' = [thread EXCEPT ![a] = t]
        /\ grant' = grant /\ issued' = issued /\ refreshToken' = refreshToken
        /\ active' = active /\ crowded' = crowded /\ floor' = floor
    BY <1>1 DEF Activate, client, tesla, history, IInv, TypeOK, Thread
  <1> HIDE DEF t
  <1>4. thread'[a] = t /\ \A b \in Actors \ {a} : thread'[b] = thread[b]
    BY <1>1, <1>3 DEF IInv, TypeOK
  <1>5. Known(a)'
    BY <1>1, <1>2, <1>3, <1>4 DEF Known
  <1> QED
    BY <1>1, <1>3, <1>4, <1>5, Quiet

\* New takes a client that is not in use.
LEMMA NewKnows ==
    ASSUME IInv, AInv, NEW a \in Actors, a \notin Callers, NEW c \in Clients,
           NEW u \in 0 .. MaxTokens, New(a, c, u), thread[a] # Idle,
           a \in Callbacks => u = thread[a].old,
           UNCHANGED <<tesla, history>>
    PROVE  AInv'
  <1>1. /\ thread'[a].step = "exchange" /\ thread'[a].mode = "new"
        /\ thread'[a].old = u /\ \A b \in Actors \ {a} : thread'[b] = thread[b]
        /\ \A d \in Clients \ {c} : refreshToken'[d] = refreshToken[d]
        /\ c # active /\ \A b \in Actors : thread[b].client # c
        /\ active' = active /\ crowded' = crowded /\ floor' = floor
        /\ issued' = issued /\ grant' = grant
    BY DEF New, tesla, history, IInv, TypeOK
  <1>2. Known(a) /\ active \in Clients \union {Unavailable}
    BY Types DEF AInv
  <1>3. Known(a)'
    BY <1>1, <1>2 DEF Known
  <1>4. \A b \in Actors \ {a} : thread[b].mode = "new" =>
           refreshToken'[thread[b].client] = refreshToken[thread[b].client]
    BY <1>1 DEF IInv, Private
  <1>5. active # Unavailable => grant'[refreshToken'[active]] >= floor
    BY <1>1, <1>2 DEF AInv, ActivationHolds
  <1>6. issued' \in Int /\ issued' >= issued /\ \A x \in 0 .. MaxTokens : grant'[x] <= x
    BY <1>1, Types DEF AInv, Lineage
  <1> QED
    BY <1>1, <1>3, <1>4, <1>5, <1>6, Moved

LEMMA StoreGoesOnKnows ==
    ASSUME IInv, AInv, NEW a \in Actors, Store(a), thread[a].new # thread[a].old
    PROVE  AInv'
  <1> DEFINE c == thread[a].client
             t == [thread[a] EXCEPT !.step = "persist"]
  <1>1. /\ thread[a] \in Thread /\ c \in Clients /\ thread[a].step = "store"
        /\ thread[a] # Idle /\ Known(a) /\ refreshToken[c] = thread[a].old
    BY Types DEF Store, IInv, Held, Refreshing, AInv, Idle
  <1>2. /\ t.step = "persist" /\ t.mode = thread[a].mode /\ t.client = c
        /\ t.old = thread[a].old /\ t.new = thread[a].new
    BY <1>1 DEF Thread
  <1>3. /\ thread' = [thread EXCEPT ![a] = t]
        /\ refreshToken' = [refreshToken EXCEPT ![c] = thread[a].new]
        /\ active' = active /\ crowded' = crowded /\ floor' = floor
        /\ issued' = issued /\ grant' = grant
    BY <1>1 DEF Store, tesla, IInv, TypeOK, Thread
  <1> HIDE DEF t
  <1>4. thread'[a] = t /\ \A b \in Actors \ {a} : thread'[b] = thread[b]
    BY <1>3 DEF IInv, TypeOK
  <1>5. Known(a)'
    BY <1>1, <1>2, <1>3, <1>4 DEF Known, Idle
  <1>6. \A b \in Actors \ {a} : thread[b].mode = "new" =>
           refreshToken'[thread[b].client] = refreshToken[thread[b].client]
    BY <1>1, <1>3, Functions DEF IInv, Private
  <1>7. active # Unavailable => grant'[refreshToken'[active]] >= floor
    BY <1>1, <1>3, Functions, Types DEF AInv, ActivationHolds, Known
  <1>8. issued' \in Int /\ issued' >= issued /\ \A x \in 0 .. MaxTokens : grant'[x] <= x
    BY <1>3, Types DEF AInv, Lineage
  <1> QED
    BY <1>1, <1>3, <1>4, <1>5, <1>6, <1>7, <1>8, Moved

----------------------------------------------------------------------------
(* Activation                                                               *)

\* A callback that has met no other succeeds: nobody is left who could bring
\* an older grant.
LEMMA AloneActivates ==
    ASSUME IInv, AInv, NEW a \in Callbacks \ crowded,
           thread[a].step \in {"store", "persist", "promote"}, thread'[a] = Idle,
           \A b \in Actors \ {a} : thread'[b] = thread[b],
           \A b \in Actors \ {a} : thread[b].mode = "new" =>
              refreshToken'[thread[b].client] = refreshToken[thread[b].client],
           crowded' = crowded, issued' = issued, grant' = grant,
           floor' = grant[thread[a].new],
           grant[refreshToken'[active']] = grant[thread[a].new]
    PROVE  AInv'
  <1>1. /\ a \in Actors /\ thread[a] # Idle /\ Main \in Actors /\ Main # a
        /\ Callbacks \subseteq Actors
    BY Constants DEF Idle
  <1>2. \A b \in Callbacks \ {a} : thread[b] = Idle
    BY <1>1 DEF AInv, Overlaps
  <1>3. thread[Main] = Idle
    BY <1>1 DEF IInv, Alone
  <1>4. /\ issued \in Int /\ grant[thread[a].new] \in 0 .. MaxTokens
        /\ grant[thread[a].new] <= issued /\ MaxTokens \in Nat
    <2>1. thread[a].new \in 0 .. issued /\ issued \in Int /\ issued <= MaxTokens
          /\ MaxTokens \in Nat /\ grant \in [0 .. MaxTokens -> 0 .. MaxTokens]
      BY <1>1, Types
    <2>2. thread[a].new \in 0 .. MaxTokens
      BY <2>1
    <2>3. grant[thread[a].new] \in 0 .. MaxTokens /\ grant[thread[a].new] <= thread[a].new
      BY <2>1, <2>2 DEF AInv, Lineage
    <2> QED
      BY <2>1, <2>3
  <1>5. Lineage'
    BY <1>4 DEF AInv, Lineage
  <1>6. Overlaps'
    BY <1>1, <1>2, <1>3 DEF Overlaps
  <1>7. ActivationHolds'
    BY <1>4 DEF ActivationHolds
  <1>8. \A b \in Actors \ {a} : Known(b)'
    BY <1>1, <1>2, OthersKnown
  <1>9. Known(a)'
    BY DEF Known, Idle
  <1> QED
    BY <1>5, <1>6, <1>7, <1>8, <1>9 DEF AInv

\* refreshAccessToken returns with the new token in its client.
LEMMA ReturnKnows ==
    ASSUME IInv, AInv, NEW a \in Actors, thread[a].step \in {"store", "persist"},
           Return(a),
           refreshToken' = [refreshToken EXCEPT ![thread[a].client] = thread[a].new],
           UNCHANGED <<active, issued, grant>>
    PROVE  AInv'
  <1> DEFINE c == thread[a].client
             t == [thread[a] EXCEPT !.step =
                     IF thread[a].mode = "new" THEN "promote" ELSE "send"]
  <1>1. /\ thread[a] \in Thread /\ c \in Clients /\ c # Unavailable
        /\ thread[a] # Idle /\ Known(a)
        /\ refreshToken[c] \in {thread[a].old, thread[a].new}
        /\ grant[thread[a].new] = grant[thread[a].old]
    <2>1. thread[a] \in Thread /\ Known(a)
      BY Types DEF AInv
    <2>2. /\ c \in Clients /\ refreshToken[c] \in {thread[a].old, thread[a].new}
      BY DEF IInv, Held, Refreshing
    <2> QED
      BY <2>1, <2>2, Constants DEF Known, Idle
  <1>2. /\ \A b \in Actors \ {a} : thread'[b] = thread[b]
        /\ refreshToken'[c] = thread[a].new
        /\ \A d \in Clients \ {c} : refreshToken'[d] = refreshToken[d]
        /\ active' = active /\ issued' = issued /\ grant' = grant /\ crowded' = crowded
    BY <1>1 DEF Return, Activated, IInv, TypeOK
  <1>3. \A b \in Actors \ {a} : thread[b].mode = "new" =>
           refreshToken'[thread[b].client] = refreshToken[thread[b].client]
    BY <1>1, <1>2 DEF IInv, Private
  <1>4. active # Unavailable => grant'[refreshToken'[active]] >= floor
    BY <1>1, <1>2, Types DEF AInv, ActivationHolds
  <1>5. issued' \in Int /\ issued' >= issued /\ \A x \in 0 .. MaxTokens : grant'[x] <= x
    BY <1>2, Types DEF AInv, Lineage
  <1>6. CASE thread[a].mode # "set"
    <2>1. /\ t.step = IF thread[a].mode = "new" THEN "promote" ELSE "send"
          /\ t.mode = thread[a].mode /\ t.client = c
          /\ t.old = thread[a].old /\ t.new = thread[a].new
      BY <1>1 DEF Thread
    <2>2. thread'[a] = t /\ floor' = floor
      BY <1>6, <1>1 DEF Return, IInv, TypeOK, Thread
    <2> HIDE DEF t
    <2>3. Known(a)'
      BY <1>1, <1>2, <1>6, <2>1, <2>2 DEF Known
    <2> QED
      BY <1>1, <1>2, <1>3, <1>4, <1>5, <2>2, <2>3, Moved
  <1>7. CASE thread[a].mode = "set"
    <2>1. /\ thread'[a] = Idle
          /\ floor' = IF a \in Callbacks \ crowded THEN grant[thread[a].new] ELSE floor
      BY <1>7 DEF Return, Activated, IInv, TypeOK
    <2>2. CASE a \in Callbacks \ crowded
      <3>1. c = active
        BY <1>1, <1>7, <2>2 DEF Known
      <3> QED
        BY <1>2, <1>3, <2>1, <2>2, <3>1, AloneActivates
    <2>3. CASE a \notin Callbacks \ crowded
      <3>1. Known(a)'
        BY <2>1 DEF Known, Idle
      <3> QED
        BY <1>1, <1>2, <1>3, <1>4, <1>5, <2>1, <2>3, <3>1, Moved
    <2> QED
      BY <2>2, <2>3
  <1> QED
    BY <1>6, <1>7

LEMMA PersistKnows ==
    ASSUME IInv, AInv, NEW a \in Actors, Persist(a) PROVE AInv'
  <1>1. /\ thread[a].step = "persist" /\ thread[a].client \in Clients
        /\ refreshToken[thread[a].client] = thread[a].new
    BY DEF Persist, IInv, Held, Refreshing
  <1>2. refreshToken' = [refreshToken EXCEPT ![thread[a].client] = thread[a].new]
    BY <1>1, Functions DEF Persist
  <1> QED
    BY <1>1, <1>2, ReturnKnows DEF Persist, tesla

LEMMA PromoteKnows ==
    ASSUME IInv, AInv, NEW a \in Actors, Promote(a) PROVE AInv'
  <1>1. /\ thread[a].step = "promote" /\ thread[a] # Idle /\ Known(a)
        /\ thread[a].client \in Clients /\ a \notin Callers
        /\ refreshToken[thread[a].client] = thread[a].new
        /\ grant[thread[a].new] = grant[thread[a].old]
    BY DEF Promote, IInv, Held, AInv, Known, Idle
  <1>2. /\ thread'[a] = Idle /\ \A b \in Actors \ {a} : thread'[b] = thread[b]
        /\ active' = thread[a].client /\ refreshToken' = refreshToken
        /\ issued' = issued /\ grant' = grant /\ crowded' = crowded
        /\ floor' = IF a \in Callbacks \ crowded THEN grant[thread[a].new] ELSE floor
    BY DEF Promote, Activated, tesla, IInv, TypeOK
  <1>3. CASE a \in Callbacks \ crowded
    BY <1>1, <1>2, <1>3, AloneActivates
  <1>4. CASE a \notin Callbacks \ crowded
    <2>1. a = Main \/ a \in Callbacks
      BY <1>1 DEF Actors
    <2>2. \A b \in Actors \ {a} :
             thread[b] # Idle /\ b \in Callbacks \ crowded => active' = active
      BY <1>1, <2>1 DEF IInv, Alone, AInv, Overlaps
    <2>3. grant[refreshToken'[active']] >= floor
      <3>1. CASE a = Main
        <4>1. floor = 0 /\ refreshToken[thread[a].client] \in 0 .. issued
              /\ issued \in Int /\ issued <= MaxTokens /\ MaxTokens \in Nat
              /\ grant \in [0 .. MaxTokens -> 0 .. MaxTokens]
          BY <3>1, <1>1, Types DEF AInv, Overlaps, None
        <4>2. refreshToken[thread[a].client] \in 0 .. MaxTokens
          BY <4>1
        <4> QED
          BY <1>2, <4>1, <4>2
      <3>2. CASE a \in Callbacks
        BY <3>2, <1>1, <1>2 DEF Known
      <3> QED
        BY <2>1, <3>1, <3>2
    <2>4. Lineage'
      BY <1>2, <1>4 DEF AInv, Lineage
    <2>5. Overlaps'
      BY <1>1, <1>2, <1>4, Constants DEF AInv, Overlaps
    <2>6. ActivationHolds'
      BY <1>2, <1>4, <2>3 DEF ActivationHolds
    <2>7. \A b \in Actors \ {a} : Known(b)'
      BY <1>2, <1>4, <2>2, OthersKnown
    <2>8. Known(a)'
      BY <1>2 DEF Known, Idle
    <2> QED
      BY <2>4, <2>5, <2>6, <2>7, <2>8 DEF AInv
  <1> QED
    BY <1>3, <1>4

\* A new grant is newer than all others.
LEMMA CallbackKnows ==
    ASSUME IInv, AInv, NEW a \in Callbacks, handleOAuthCallback(a) PROVE AInv'
  <1> DEFINE u == issued + 1
             t == [thread[a] EXCEPT !.step = "write", !.old = u]
             others == {b \in Callbacks \ {a} : thread[b] # Idle}
  <1>1. /\ a \in Actors /\ thread[a] \in Thread /\ thread[a] = Idle
        /\ thread[Main] = Idle /\ a # Main /\ Main \in Actors /\ Callbacks \subseteq Actors
        /\ u \in 0 .. MaxTokens /\ u > issued /\ issued \in Int
    BY Types, Constants DEF handleOAuthCallback, Started
  <1>2. t.step = "write" /\ t.mode = "request" /\ t.old = u
    BY <1>1 DEF Thread, Idle
  <1>3. /\ thread' = [thread EXCEPT ![a] = t]
        /\ grant' = [grant EXCEPT ![u] = u] /\ issued' = u
        /\ refreshToken' = refreshToken /\ active' = active /\ floor' = floor
        /\ crowded' = IF others = {} THEN crowded \ {a}
                      ELSE crowded \union others \union {a}
    BY <1>1 DEF handleOAuthCallback, client, IInv, TypeOK, Thread
  <1> HIDE DEF t
  <1>4. thread'[a] = t /\ \A b \in Actors \ {a} : thread'[b] = thread[b]
    BY <1>1, <1>3 DEF IInv, TypeOK
  <1>5. /\ \A x \in 0 .. issued : grant'[x] = grant[x]
        /\ grant'[u] = u /\ \A x \in 0 .. MaxTokens : grant'[x] <= x
        /\ floor \in Int /\ floor <= issued
    BY <1>1, <1>3, Types DEF AInv, Lineage
  <1>6. crowded \ {a} \subseteq crowded'
    BY <1>3
  <1>7. Lineage'
    BY <1>1, <1>3, <1>5 DEF Lineage
  <1>8. Overlaps'
    <2>1. thread'[Main] = Idle
      BY <1>1, <1>4
    <2>2. ASSUME NEW b \in Callbacks, NEW d \in Callbacks, b # d,
                 thread'[b] # Idle, thread'[d] # Idle
          PROVE  b \in crowded'
      <3>1. CASE b = a
        BY <3>1, <2>2, <1>1, <1>3, <1>4
      <3>2. CASE b # a /\ d = a
        BY <3>2, <2>2, <1>1, <1>3, <1>4
      <3>3. CASE b # a /\ d # a
        BY <3>3, <2>2, <1>1, <1>4, <1>6 DEF AInv, Overlaps
      <3> QED
        BY <3>1, <3>2, <3>3
    <2> QED
      BY <2>1, <2>2 DEF Overlaps
  <1>9. ActivationHolds'
    BY <1>3, <1>5, Types DEF AInv, ActivationHolds
  <1>10. \A b \in Actors \ {a} : Known(b)'
    BY <1>1, <1>3, <1>4, <1>5, <1>6, OthersKnown
  <1>11. Known(a)'
    BY <1>1, <1>2, <1>3, <1>4, <1>5 DEF Known
  <1> QED
    BY <1>7, <1>8, <1>9, <1>10, <1>11 DEF AInv

----------------------------------------------------------------------------
(* Start and end of the process                                             *)

LEMMA ResolveKnows ==
    ASSUME IInv, AInv, Resolve PROVE AInv'
  <1>1. PICK token \in {ResolveRefreshToken, Configured} :
          \/ /\ token = None
             /\ thread' = [thread EXCEPT ![Main] = Idle]
             /\ UNCHANGED client
          \/ token # None /\ \E c \in Clients : New(Main, c, token)
    BY DEF Resolve
  <1>2. /\ Main \in Actors /\ Main \notin Callers /\ Main \notin Callbacks
        /\ thread[Main] # Idle /\ UNCHANGED <<tesla, history>>
    BY Constants DEF Resolve, Idle
  <1>3. CASE thread' = [thread EXCEPT ![Main] = Idle] /\ UNCHANGED client
    <2>1. /\ thread'[Main] = Idle /\ \A b \in Actors \ {Main} : thread'[b] = thread[b]
          /\ active' = active /\ crowded' = crowded /\ floor' = floor
          /\ issued' = issued /\ grant' = grant /\ refreshToken' = refreshToken
      BY <1>2, <1>3 DEF client, tesla, history, IInv, TypeOK
    <2>2. Known(Main)'
      BY <2>1 DEF Known, Idle
    <2> QED
      BY <1>2, <2>1, <2>2, Quiet
  <1>4. CASE \E c \in Clients : New(Main, c, token)
    <2>1. PICK c \in Clients : New(Main, c, token)
      BY <1>4
    <2>2. token \in 0 .. MaxTokens
      BY Constants DEF ResolveRefreshToken, IInv, TypeOK, Token, None
    <2> QED
      BY <1>2, <2>1, <2>2, NewKnows
  <1> QED
    BY <1>1, <1>3, <1>4

LEMMA CrashKnows ==
    ASSUME IInv, AInv, Crash PROVE AInv'
  <1>1. /\ active' = Unavailable /\ floor' = None /\ issued' = issued /\ grant' = grant
        /\ thread' = Starting
    BY DEF Crash, tesla
  <1>2. /\ Main \in Actors /\ Callbacks \subseteq Actors /\ Main \notin Callbacks
    BY Constants
  <1>3. \A b \in Actors : /\ thread'[b].step \in {"idle", "resolve"}
                          /\ thread'[b].mode = "request"
                          /\ b # Main => thread'[b] = Idle
    BY <1>1 DEF Starting, Idle
  <1>4. Lineage'
    BY <1>1, Types DEF AInv, Lineage, None
  <1>5. Overlaps'
    BY <1>1, <1>2, <1>3 DEF Overlaps
  <1>6. ActivationHolds'
    BY <1>1 DEF ActivationHolds
  <1>7. \A b \in Actors : Known(b)'
    BY <1>2, <1>3 DEF Known
  <1> QED
    BY <1>4, <1>5, <1>6, <1>7 DEF AInv

LEMMA InitialKnows == Init => AInv
  <1> SUFFICES ASSUME Init PROVE AInv
    OBVIOUS
  <1>1. /\ Main \in Actors /\ Callbacks \subseteq Actors /\ Main \notin Callbacks
        /\ MaxTokens \in Nat
    BY Constants
  <1>2. \A b \in Actors : /\ thread[b].step \in {"idle", "resolve"}
                          /\ thread[b].mode = "request"
                          /\ b # Main => thread[b] = Idle
    BY DEF Init, Starting, Idle
  <1>3. Lineage /\ Overlaps /\ ActivationHolds
    BY <1>1, <1>2 DEF Init, Lineage, Overlaps, ActivationHolds, None
  <1>4. \A b \in Actors : Known(b)
    BY <1>1, <1>2 DEF Known
  <1> QED
    BY <1>3, <1>4 DEF AInv

----------------------------------------------------------------------------
(* The theorem                                                              *)

LEMMA StepKnows == IInv /\ AInv /\ [Next]_vars => AInv'
  <1> SUFFICES ASSUME IInv, AInv, [Next]_vars PROVE AInv'
    OBVIOUS
  <1>1. ASSUME NEW a \in Actors, Lock(a) \/ Refresh(a) \/ Promote(a) PROVE AInv'
    <2>1. CASE Refused(a) \/ AnswerLost(a)
      BY <2>1, FailKnows DEF Refused, AnswerLost, tesla
    <2>2. CASE Store(a) /\ thread[a].new = thread[a].old
      BY <2>2, ReturnKnows DEF Store, tesla
    <2>3. CASE Store(a) /\ thread[a].new # thread[a].old
      BY <2>3, StoreGoesOnKnows
    <2> QED
      BY <1>1, <2>1, <2>2, <2>3, LockKnows, RotatedKnows, KeptKnows, PersistKnows,
         PromoteKnows DEF Refresh
  <1>2. ASSUME NEW a \in Callers, BeginRequest(a) \/ Send(a) PROVE AInv'
    BY <1>2, BeginRequestKnows, SendKnows
  <1>3. ASSUME NEW a \in Callbacks,
               handleOAuthCallback(a) \/ WriteFile(a) \/ Activate(a)
        PROVE  AInv'
    <2>1. CASE handleOAuthCallback(a) \/ WriteFile(a)
      BY <2>1, CallbackKnows, WriteFileKnows
    <2>2. CASE Activate(a) /\ active # Unavailable
      BY <2>2, ActivateSetsKnows
    <2>3. CASE Activate(a) /\ active = Unavailable
      <3>1. PICK c \in Clients : New(a, c, thread[a].old)
        BY <2>3 DEF Activate
      <3>2. /\ a \in Actors /\ a \notin Callers /\ thread[a] # Idle
            /\ UNCHANGED <<tesla, history>>
        BY <2>3, Constants, TokensAssumption DEF Activate, Idle
      <3>3. thread[a].old \in 0 .. MaxTokens
        BY <3>2, Types
      <3> QED
        BY <3>1, <3>2, <3>3, NewKnows
    <2> QED
      BY <1>3, <2>1, <2>2, <2>3
  <1>4. CASE UNCHANGED vars \/ \E c \in Clients : Expire(c)
    BY <1>4
       DEF Expire, vars, client, tesla, history, AInv, Lineage, Overlaps, Known,
           ActivationHolds
  <1> QED
    BY <1>1, <1>2, <1>3, <1>4, ResolveKnows, CrashKnows DEF Next

\* handleOAuthCallback's answer: once a callback that overlaps no other has
\* activated a grant, no refresh, retry or later callback takes the client
\* back to an older one.
THEOREM ActivationsHold == Spec => []ActivationHolds
  <1>1. AInv => ActivationHolds
    BY DEF AInv
  <1> QED
    BY Invariance, InitialKnows, StepKnows, <1>1, PTL DEF Spec
=============================================================================
