---------------------- MODULE TelegramServices_proofs -----------------------
(* Proofs about what the bot keeps of tenants and of communities: which tenant an      *)
(* update is of, for any tokens and number of updates; the sliding windows of an       *)
(* adapter, for any members, chats, spans, dates and order of updates; and what the    *)
(* safety policy recommends, for any values of the features of a media message.        *)
EXTENDS TenantUpdates, TelegramWindows, SafetyPolicy, Functions,
        FiniteSetTheorems, SequenceTheorems, WellFoundedInduction, TLAPS

(***************************************************************************)
(* TenantUpdates                                                           *)
(***************************************************************************)

USE DEF NoToken, Ciphertext, TenantId, EncryptionKey

LEMMA NoUpdateIs ==
  /\ NoUpdate \in UpdateInHand
  /\ NoUpdate.at = "none" /\ NoUpdate.n = 0 /\ NoUpdate.came = NoToken
  /\ NoUpdate.bot = NoToken
<1>1. 0 \in 0..MaxUpdate
  BY UpdateAssumption
<1> QED BY <1>1 DEF NoUpdate, UpdateInHand

\* Updates are numbered.
LEMMA NumberIs == ASSUME NEW a \in UpdateInHand PROVE a.n \in 0..MaxUpdate /\ a.n \in Nat
<1>1. a.n \in 0..MaxUpdate
  BY DEF UpdateInHand
<1> QED BY <1>1, UpdateAssumption

LEMMA NumbersAre ==
  ASSUME TenantInv
  PROVE  processed \in Nat /\ \A v \in Slot : inHand[v].n \in Nat
<1>1. processed \in Nat
  BY UpdateAssumption DEF TenantInv, TenantTypeOK
<1>2. \A v \in Slot : inHand[v] \in UpdateInHand
  BY DEF TenantInv, TenantTypeOK
<1> QED BY <1>1, <1>2, NumberIs

LEMMA NoUpdateInv == TenantTypeOK => HandInv(NoUpdate)
<1>1. TenantTypeOK => 0 <= processed
  BY UpdateAssumption DEF TenantTypeOK
<1> QED BY <1>1, NoUpdateIs DEF HandInv

LEMMA TenantInitInv == TenantInit => TenantInv
<1> SUFFICES ASSUME TenantInit PROVE TenantInv
  OBVIOUS
<1>1. tokenRows \in [TenantId -> TokenRow \cup {NoTokenRow}]
  <2>1. [token : Token, key : {"plain"}] \subseteq TokenRow
    BY DEF TokenRow
  <2> QED BY <2>1 DEF TenantInit
<1>2. /\ processed = 0 /\ processed \in 0..MaxUpdate
      /\ storedTokens \in 0..MaxChangesToRows /\ away \in 0..MaxChangesToRows
  BY UpdateAssumption DEF TenantInit
<1>3. inHand \in [Slot -> UpdateInHand] /\ \A u \in Slot : inHand[u] = NoUpdate
  BY NoUpdateIs DEF TenantInit
<1>4. /\ sessionRow \in [TenantId -> [n : 0..MaxUpdate, enforced : BOOLEAN]]
      /\ newestEnded \in [TenantId -> 0..processed]
      /\ \A t \in TenantId : sessionRow[t].n = 0 /\ newestEnded[t] = 0
  BY UpdateAssumption, <1>2 DEF TenantInit
<1>5. TenantTypeOK
  BY <1>1, <1>2, <1>3, <1>4 DEF TenantInit, TenantTypeOK
<1>6. HandInv(NoUpdate)
  BY <1>5, NoUpdateInv
<1>7. SessionIsOfTheLast
  BY <1>4 DEF SessionIsOfTheLast
<1> QED BY <1>3, <1>5, <1>6, <1>7 DEF TenantInv, TenantInit

\* A step of one update that leaves the tables and the sessions alone.
LEMMA HandStep ==
  ASSUME TenantInv, NEW u \in Slot, NEW b \in UpdateInHand, HandInv(b),
         inHand' = [inHand EXCEPT ![u] = b],
         UNCHANGED <<tokenRows, keyInUse, plaintextAllowed, rowsThere, sessionRow, processed,
                     storedTokens, away, newestEnded>>
  PROVE  TenantInv'
<1>1. \A v \in Slot : inHand'[v] = IF v = u THEN b ELSE inHand[v]
  BY DEF TenantInv, TenantTypeOK
<1>2. TenantTypeOK'
  BY DEF TenantInv, TenantTypeOK
<1>3. ASSUME NEW v \in Slot PROVE HandInv(inHand[v])'
  <2>1. HandInv(inHand'[v])
    BY <1>1 DEF TenantInv
  <2> QED BY <2>1 DEF HandInv, OfItsBot, Candidate, Decrypts, AsStored
<1>4. SessionIsOfTheLast'
  BY DEF TenantInv, SessionIsOfTheLast
<1> QED BY <1>2, <1>3, <1>4 DEF TenantInv

LEMMA ByTokenInv == ASSUME TenantInv, NEW u \in Slot, WebhookByToken(u) PROVE TenantInv'
<1>1. PICK k \in Token :
        inHand' = [inHand EXCEPT ![u] = [NoUpdate EXCEPT !.at = "resolve", !.came = k]]
  BY DEF WebhookByToken
<1>2. PICK b : b = [NoUpdate EXCEPT !.at = "resolve", !.came = k]
  OBVIOUS
<1>3. b \in UpdateInHand /\ b.at = "resolve" /\ b.n = 0 /\ b.bot = NoToken
  BY <1>2, NoUpdateIs DEF UpdateInHand
<1>4. HandInv(b)
  <2>1. 0 <= processed
    BY UpdateAssumption DEF TenantInv, TenantTypeOK
  <2> QED BY <1>3, <2>1 DEF HandInv
<1> QED BY <1>1, <1>2, <1>3, <1>4, HandStep DEF WebhookByToken

LEMMA ResolveTenantInv == ASSUME TenantInv, NEW u \in Slot, ResolveTenant(u) PROVE TenantInv'
<1>1. inHand[u] \in UpdateInHand /\ HandInv(inHand[u]) /\ inHand[u].at = "resolve"
      /\ UNCHANGED <<tokenRows, keyInUse, plaintextAllowed, rowsThere, sessionRow, processed,
                     storedTokens, away, newestEnded>>
  BY DEF TenantInv, TenantTypeOK, ResolveTenant
<1>2. CASE inHand' = [inHand EXCEPT ![u] = NoUpdate]
  <2>1. HandInv(NoUpdate)
    BY NoUpdateInv DEF TenantInv
  <2> QED BY <1>1, <1>2, <2>1, NoUpdateIs, HandStep
<1>3. ASSUME NEW t \in TenantId,
             inHand' = [inHand EXCEPT ![u].at = "process", ![u].tenant = t],
             \/ t = "default" /\ inHand[u].came = EnvToken
             \/ /\ rowsThere /\ tokenRows[t] # NoTokenRow
                /\ Candidate(tokenRows[t]) = inHand[u].came
      PROVE  TenantInv'
  <2>1. PICK b : b = [inHand[u] EXCEPT !.at = "process", !.tenant = t]
    OBVIOUS
  <2>2. /\ b \in UpdateInHand /\ b.at = "process" /\ b.tenant = t
        /\ b.n = inHand[u].n /\ b.came = inHand[u].came /\ b.bot = inHand[u].bot
    BY <1>1, <2>1 DEF UpdateInHand
  <2>3. HandInv(b)
    BY <1>1, <1>3, <2>2 DEF HandInv, OfItsBot
  <2>4. inHand' = [inHand EXCEPT ![u] = b]
    BY <1>3, <2>1
  <2> QED BY <1>1, <2>2, <2>3, <2>4, HandStep
<1>4. \/ inHand' = [inHand EXCEPT ![u] = NoUpdate]
      \/ \E t \in TenantId :
           /\ inHand' = [inHand EXCEPT ![u].at = "process", ![u].tenant = t]
           /\ \/ t = "default" /\ inHand[u].came = EnvToken
              \/ /\ rowsThere /\ tokenRows[t] # NoTokenRow
                 /\ Candidate(tokenRows[t]) = inHand[u].came
  BY DEF ResolveTenant
<1> QED BY <1>2, <1>3, <1>4

\* The token an action is sent with.
LEMMA TokenForIs ==
  ASSUME TenantInv, NEW t \in TenantId
  PROVE  /\ TokenFor(t) \in Token \cup {NoToken, Ciphertext}
         /\ TokenFor(t) = Ciphertext => plaintextAllowed
         /\ rowsThere /\ tokenRows[t] # NoTokenRow =>
              TokenFor(t) \in {NoToken, Candidate(tokenRows[t])}
<1>1. CASE ~rowsThere \/ tokenRows[t] = NoTokenRow
  <2>1. TokenFor(t) = EnvToken
    BY <1>1 DEF TokenFor
  <2> QED BY <1>1, <2>1, TokenAssumption
<1>2. CASE rowsThere /\ tokenRows[t] # NoTokenRow
  <2>1. tokenRows[t].token \in Token
    BY <1>2 DEF TenantInv, TenantTypeOK, TokenRow
  <2>2. CASE Decrypts(tokenRows[t])
    <3>1. TokenFor(t) = tokenRows[t].token /\ Candidate(tokenRows[t]) = tokenRows[t].token
      BY <1>2, <2>2 DEF TokenFor, Candidate
    <3> QED BY <2>1, <3>1, TokenAssumption
  <2>3. CASE ~Decrypts(tokenRows[t])
    <3>1. /\ TokenFor(t) = IF plaintextAllowed THEN AsStored(tokenRows[t]) ELSE NoToken
          /\ Candidate(tokenRows[t]) = AsStored(tokenRows[t])
      BY <1>2, <2>3 DEF TokenFor, Candidate
    <3>2. AsStored(tokenRows[t]) \in Token \cup {Ciphertext}
      BY <2>1 DEF AsStored
    <3> QED BY <3>1, <3>2
  <2> QED BY <2>2, <2>3
<1> QED BY <1>1, <1>2

LEMMA ResolveBotInv == ASSUME TenantInv, NEW u \in Slot, ResolveBotToken(u) PROVE TenantInv'
<1>1. /\ inHand[u] \in UpdateInHand /\ HandInv(inHand[u]) /\ inHand[u].at = "token"
      /\ UNCHANGED <<tokenRows, keyInUse, plaintextAllowed, rowsThere, sessionRow, processed,
                     storedTokens, away, newestEnded>>
  BY DEF TenantInv, TenantTypeOK, ResolveBotToken
<1>2. inHand[u].tenant \in TenantId /\ inHand[u].acts
  BY <1>1 DEF HandInv
<1>3. PICK bot : bot = TokenFor(inHand[u].tenant)
  OBVIOUS
<1>4. PICK at : at = IF bot = NoToken THEN "done" ELSE "post"
  OBVIOUS
<1>5. PICK b : b = [inHand[u] EXCEPT !.at = at, !.bot = bot]
  OBVIOUS
<1>6. inHand' = [inHand EXCEPT ![u] = b]
  BY <1>3, <1>4, <1>5 DEF ResolveBotToken
<1>7. bot \in Token \cup {NoToken, Ciphertext} /\ (bot = Ciphertext => plaintextAllowed)
  BY <1>2, <1>3, TokenForIs
<1>8. /\ b \in UpdateInHand /\ b.at = at /\ b.bot = bot /\ b.tenant = inHand[u].tenant
      /\ b.n = inHand[u].n /\ b.came = inHand[u].came /\ b.moved = inHand[u].moved
      /\ b.acts = inHand[u].acts
  <2>1. at \in {"post", "done"}
    BY <1>4
  <2> QED BY <1>1, <1>5, <1>7, <2>1 DEF UpdateInHand
<1>9. ASSUME at = "post", b.came # NoToken, ~b.moved
      PROVE  b.bot = b.came \/ (b.tenant = "default" /\ b.came = EnvToken)
  <2>1. OfItsBot(inHand[u]) /\ bot # NoToken
    BY <1>1, <1>4, <1>8, <1>9 DEF HandInv
  <2> QED BY <1>2, <1>3, <1>8, <2>1, TokenForIs DEF OfItsBot
<1>10. HandInv(b)
  BY <1>1, <1>2, <1>4, <1>7, <1>8, <1>9 DEF HandInv
<1> QED BY <1>1, <1>6, <1>8, <1>10, HandStep

LEMMA PostInv == ASSUME TenantInv, NEW u \in Slot, PostAction(u) PROVE TenantInv'
<1>1. /\ inHand[u] \in UpdateInHand /\ HandInv(inHand[u]) /\ inHand[u].at = "post"
      /\ UNCHANGED <<tokenRows, keyInUse, plaintextAllowed, rowsThere, sessionRow, processed,
                     storedTokens, away, newestEnded>>
  BY DEF TenantInv, TenantTypeOK, PostAction
<1>2. PICK b : b = [inHand[u] EXCEPT !.at = "done", !.bot = NoToken, !.came = NoToken,
                                     !.moved = FALSE]
  OBVIOUS
<1>3. inHand' = [inHand EXCEPT ![u] = b]
  BY <1>2 DEF PostAction
<1>4. /\ b \in UpdateInHand /\ b.at = "done" /\ b.bot = NoToken /\ b.came = NoToken
      /\ b.tenant = inHand[u].tenant /\ b.n = inHand[u].n /\ b.acts = inHand[u].acts
  BY <1>1, <1>2 DEF UpdateInHand
<1>5. HandInv(b)
  BY <1>1, <1>4 DEF HandInv
<1> QED BY <1>1, <1>3, <1>4, <1>5, HandStep

\* The end of an update: its session row is at least as new, unless it was acted on.
LEMMA EndStep ==
  ASSUME TenantInv, NEW u \in Slot, NEW t \in TenantId, NEW n \in 0..MaxUpdate,
         NEW enforced \in BOOLEAN, EndUpdate(u, t, n, enforced),
         processed' \in 0..MaxUpdate, processed' >= processed, processed' >= n,
         n <= processed => enforced = TRUE,
         UNCHANGED <<tokenRows, keyInUse, plaintextAllowed, rowsThere, storedTokens, away>>
  PROVE  TenantInv'
<1>1. /\ inHand' = [inHand EXCEPT ![u] = NoUpdate]
      /\ \A v \in Slot : inHand'[v] = IF v = u THEN NoUpdate ELSE inHand[v]
      /\ inHand' \in [Slot -> UpdateInHand]
  BY NoUpdateIs DEF EndUpdate, TenantInv, TenantTypeOK
<1>2. PICK r : r = [n |-> n, enforced |-> enforced]
  OBVIOUS
<1>3. r \in [n : 0..MaxUpdate, enforced : BOOLEAN] /\ r.n = n /\ r.enforced = enforced
  BY <1>2
<1>4. sessionRow' = IF rowsThere THEN [sessionRow EXCEPT ![t] = r] ELSE sessionRow
  BY <1>2 DEF EndUpdate
<1>5. sessionRow' \in [TenantId -> [n : 0..MaxUpdate, enforced : BOOLEAN]]
  BY <1>3, <1>4 DEF TenantInv, TenantTypeOK
<1>6. /\ newestEnded' \in [TenantId -> 0..processed']
      /\ \A s \in TenantId : newestEnded'[s] =
           IF s = t THEN IF n > newestEnded[t] THEN n ELSE newestEnded[t] ELSE newestEnded[s]
  <2>1. /\ newestEnded' = [newestEnded EXCEPT ![t] = IF n > newestEnded[t] THEN n
                                                     ELSE newestEnded[t]]
        /\ newestEnded \in [TenantId -> 0..processed] /\ processed \in Nat
    BY UpdateAssumption DEF EndUpdate, TenantInv, TenantTypeOK
  <2> QED BY <2>1, UpdateAssumption
<1>7. TenantTypeOK'
  BY <1>1, <1>5, <1>6 DEF TenantInv, TenantTypeOK
<1>8. ASSUME NEW v \in Slot PROVE HandInv(inHand[v])'
  <2>1. HandInv(inHand'[v])
    BY <1>1, NoUpdateInv DEF TenantInv
  <2>2. inHand'[v].n <= processed => inHand'[v].n <= processed'
    <3>1. inHand'[v].n \in Nat
      BY <1>1, NumberIs
    <3>2. processed \in Nat
      BY NumbersAre
    <3>3. processed' \in Nat
      BY UpdateAssumption
    <3> QED BY <3>1, <3>2, <3>3
  <2> QED BY <2>1, <2>2 DEF HandInv, OfItsBot, Candidate, Decrypts, AsStored
<1>9. SessionIsOfTheLast'
  <2> SUFFICES ASSUME away = 0, NEW s \in TenantId, sessionRow'[s].n < newestEnded'[s]
      PROVE  sessionRow'[s].enforced
    BY DEF SessionIsOfTheLast
  <2>1. CASE s = t
    <3>1. sessionRow'[s] = r
      BY <1>4, <2>1 DEF TenantInv, TenantTypeOK
    <3>2. newestEnded[t] \in 0..processed /\ processed \in Nat
      BY UpdateAssumption DEF TenantInv, TenantTypeOK
    <3>3. n > processed => n > newestEnded[t]
      BY <3>2
    <3> QED BY <1>3, <1>6, <2>1, <3>1, <3>2, <3>3
  <2>2. CASE s # t
    <3>1. sessionRow'[s] = sessionRow[s] /\ newestEnded'[s] = newestEnded[s]
      BY <1>4, <1>6, <2>2 DEF TenantInv, TenantTypeOK
    <3> QED BY <3>1 DEF TenantInv, SessionIsOfTheLast
  <2> QED BY <2>1, <2>2
<1> QED BY <1>7, <1>8, <1>9 DEF TenantInv

\* An update whose tenant is known, before it is processed.
ToProcess(a) ==
  /\ HandInv(a)
  /\ a.tenant \in TenantId
  /\ a.came # NoToken /\ ~a.moved => OfItsBot(a)

LEMMA ProcessInv ==
  ASSUME TenantInv, NEW u \in Slot, NEW from \in UpdateInHand, Process(u, from),
         ToProcess(from)
  PROVE  TenantInv'
<1>1. /\ processed \in Nat /\ processed' = processed + 1 /\ processed' \in 0..MaxUpdate
      /\ UNCHANGED <<tokenRows, keyInUse, plaintextAllowed, rowsThere, storedTokens, away>>
  BY UpdateAssumption DEF TenantInv, TenantTypeOK, Process
<1>2. CASE EndUpdate(u, from.tenant, processed', FALSE)
  <2>1. from.tenant \in TenantId
    BY DEF ToProcess
  <2>2. processed' >= processed /\ processed' >= processed' /\ ~(processed' <= processed)
    BY <1>1
  <2> QED BY <1>1, <1>2, <2>1, <2>2, EndStep
<1>3. CASE /\ inHand' = [inHand EXCEPT ![u] =
                [from EXCEPT !.at = "token", !.n = processed', !.acts = TRUE]]
           /\ UNCHANGED <<sessionRow, newestEnded>>
  <2>1. PICK b : b = [from EXCEPT !.at = "token", !.n = processed', !.acts = TRUE]
    OBVIOUS
  <2>2. /\ b \in UpdateInHand /\ b.at = "token" /\ b.n = processed' /\ b.acts
        /\ b.tenant = from.tenant /\ b.came = from.came /\ b.bot = from.bot
        /\ b.moved = from.moved
    BY <1>1, <2>1 DEF UpdateInHand
  <2>3. /\ \A v \in Slot : inHand'[v] = IF v = u THEN b ELSE inHand[v]
        /\ inHand' \in [Slot -> UpdateInHand]
    BY <1>3, <2>1, <2>2 DEF TenantInv, TenantTypeOK
  <2>4. TenantTypeOK'
    <3>1. newestEnded' \in [TenantId -> 0..processed']
      <4>1. 0..processed \subseteq 0..processed'
        BY <1>1
      <4> QED BY <1>3, <4>1 DEF TenantInv, TenantTypeOK
    <3> QED BY <1>1, <1>3, <2>3, <3>1 DEF TenantInv, TenantTypeOK
  <2>5. ASSUME NEW v \in Slot PROVE HandInv(inHand[v])'
    <3>1. CASE v = u
      <4>1. processed' <= processed'
        BY <1>1
      <4>2. /\ inHand'[v] = b /\ (b.came # NoToken /\ ~b.moved => OfItsBot(b))
        BY <2>2, <2>3, <3>1 DEF OfItsBot, ToProcess
      <4>3. b.tenant \in TenantId /\ (b.bot = Ciphertext => plaintextAllowed)
        BY <2>2 DEF ToProcess, HandInv
      <4> QED BY <1>1, <2>2, <4>1, <4>2, <4>3
          DEF HandInv, OfItsBot, Candidate, Decrypts, AsStored
    <3>2. CASE v # u
      <4>1. inHand'[v] = inHand[v] /\ HandInv(inHand[v]) /\ inHand[v].n \in Nat
        BY <2>3, <3>2, NumbersAre DEF TenantInv
      <4>2. inHand[v].n <= processed
        BY <4>1 DEF HandInv
      <4>3. inHand[v].n <= processed'
        BY <1>1, <4>1, <4>2
      <4> QED BY <4>3, <1>1, <4>1, <4>2 DEF HandInv, OfItsBot, Candidate, Decrypts, AsStored
    <3> QED BY <3>1, <3>2
  <2>6. SessionIsOfTheLast'
    BY <1>1, <1>3 DEF TenantInv, SessionIsOfTheLast
  <2> QED BY <1>1, <2>4, <2>5, <2>6 DEF TenantInv
<1> QED BY <1>2, <1>3 DEF Process

LEMMA ForTenantInv ==
  ASSUME TenantInv, NEW u \in Slot, WebhookForTenant(u) PROVE TenantInv'
<1>1. PICK t \in TenantId : Process(u, [NoUpdate EXCEPT !.tenant = t])
  BY DEF WebhookForTenant
<1>2. PICK from : from = [NoUpdate EXCEPT !.tenant = t]
  OBVIOUS
<1>3. /\ from \in UpdateInHand /\ from.tenant = t /\ from.came = NoToken
      /\ from.bot = NoToken /\ from.at = "none" /\ from.n = 0
  BY <1>2, NoUpdateIs DEF UpdateInHand
<1>4. ToProcess(from)
  <2>1. 0 <= processed
    BY NumbersAre
  <2> QED BY <1>3, <2>1 DEF ToProcess, HandInv
<1> QED BY <1>1, <1>2, <1>3, <1>4, ProcessInv

LEMMA ProcessUpdateInv ==
  ASSUME TenantInv, NEW u \in Slot, ProcessUpdate(u) PROVE TenantInv'
<1>1. /\ inHand[u] \in UpdateInHand /\ HandInv(inHand[u]) /\ inHand[u].at = "process"
      /\ Process(u, inHand[u])
  BY DEF TenantInv, TenantTypeOK, ProcessUpdate
<1>2. ToProcess(inHand[u])
  BY <1>1 DEF HandInv, ToProcess
<1> QED BY <1>1, <1>2, ProcessInv

LEMMA FinishInv == ASSUME TenantInv, NEW u \in Slot, FinishUpdate(u) PROVE TenantInv'
<1>1. /\ inHand[u] \in UpdateInHand /\ HandInv(inHand[u]) /\ inHand[u].at = "done"
      /\ EndUpdate(u, inHand[u].tenant, inHand[u].n, inHand[u].acts)
      /\ UNCHANGED <<tokenRows, keyInUse, plaintextAllowed, rowsThere, processed, storedTokens,
                     away>>
  BY DEF TenantInv, TenantTypeOK, FinishUpdate
<1>2. /\ inHand[u].tenant \in TenantId /\ inHand[u].acts /\ inHand[u].n <= processed
      /\ inHand[u].n \in 0..MaxUpdate /\ inHand[u].acts \in BOOLEAN
      /\ processed \in 0..MaxUpdate
  BY <1>1 DEF HandInv, UpdateInHand, TenantInv, TenantTypeOK
<1>3. processed >= processed /\ processed >= inHand[u].n
  BY <1>2, UpdateAssumption
<1> QED BY <1>1, <1>2, <1>3, EndStep

\* What changes under an update that came by a token is noted.
LEMMA MovedIs ==
  ASSUME TenantInv, NEW tenants, inHand' = Moved(tenants), NEW u \in Slot
  PROVE  /\ inHand' \in [Slot -> UpdateInHand]
         /\ inHand'[u].at = inHand[u].at /\ inHand'[u].n = inHand[u].n
         /\ inHand'[u].came = inHand[u].came /\ inHand'[u].tenant = inHand[u].tenant
         /\ inHand'[u].bot = inHand[u].bot /\ inHand'[u].acts = inHand[u].acts
         /\ inHand[u].moved => inHand'[u].moved
         /\ inHand[u].came # NoToken /\ inHand[u].tenant \in tenants => inHand'[u].moved
<1>1. ASSUME NEW v \in Slot
      PROVE  /\ inHand'[v] \in UpdateInHand
             /\ inHand'[v].at = inHand[v].at /\ inHand'[v].n = inHand[v].n
             /\ inHand'[v].came = inHand[v].came /\ inHand'[v].tenant = inHand[v].tenant
             /\ inHand'[v].bot = inHand[v].bot /\ inHand'[v].acts = inHand[v].acts
             /\ inHand[v].moved => inHand'[v].moved
             /\ inHand[v].came # NoToken /\ inHand[v].tenant \in tenants => inHand'[v].moved
  <2>1. PICK a : a = inHand[v]
    OBVIOUS
  <2>2. a \in UpdateInHand
    BY <2>1 DEF TenantInv, TenantTypeOK
  <2>3. PICK b : b = [a EXCEPT !.moved = TRUE]
    OBVIOUS
  <2>4. /\ b \in UpdateInHand /\ b.at = a.at /\ b.n = a.n /\ b.came = a.came
        /\ b.tenant = a.tenant /\ b.bot = a.bot /\ b.acts = a.acts /\ b.moved
    BY <2>2, <2>3 DEF UpdateInHand
  <2>5. inHand'[v] = IF a.came # NoToken /\ a.tenant \in tenants \cup {"none"} THEN b ELSE a
    BY <2>1, <2>3 DEF Moved
  <2> QED BY <2>1, <2>2, <2>4, <2>5
<1>2. inHand' \in [Slot -> UpdateInHand]
  BY <1>1 DEF Moved
<1> QED BY <1>1, <1>2

LEMMA StoreTokenInv == TenantInv /\ StoreBotToken => TenantInv'
<1> SUFFICES ASSUME TenantInv, StoreBotToken PROVE TenantInv'
  OBVIOUS
<1>1. PICK t \in TenantId, k \in Token :
        /\ tokenRows' = [tokenRows EXCEPT ![t] = [token |-> k, key |-> keyInUse]]
        /\ inHand' = Moved({t})
  BY DEF StoreBotToken
<1>2. tokenRows' \in [TenantId -> TokenRow \cup {NoTokenRow}]
  <2>1. [token |-> k, key |-> keyInUse] \in TokenRow
    BY DEF TokenRow, TenantInv, TenantTypeOK
  <2> QED BY <1>1, <2>1 DEF TenantInv, TenantTypeOK
<1>3. /\ storedTokens' \in 0..MaxChangesToRows
      /\ UNCHANGED <<keyInUse, plaintextAllowed, rowsThere, sessionRow, processed, away,
                     newestEnded>>
  BY UpdateAssumption DEF StoreBotToken, TenantInv, TenantTypeOK
<1>4. inHand' \in [Slot -> UpdateInHand]
  BY <1>1, MovedIs DEF TenantInv, TenantTypeOK, Moved
<1>5. TenantTypeOK'
  BY <1>2, <1>3, <1>4 DEF TenantInv, TenantTypeOK
<1>6. ASSUME NEW v \in Slot PROVE HandInv(inHand[v])'
  <2>1. HandInv(inHand[v])
    BY DEF TenantInv
  <2>2. /\ inHand'[v].at = inHand[v].at /\ inHand'[v].n = inHand[v].n
        /\ inHand'[v].came = inHand[v].came /\ inHand'[v].tenant = inHand[v].tenant
        /\ inHand'[v].bot = inHand[v].bot /\ inHand'[v].acts = inHand[v].acts
        /\ inHand[v].moved => inHand'[v].moved
        /\ inHand[v].came # NoToken /\ inHand[v].tenant = t => inHand'[v].moved
    BY <1>1, MovedIs
  <2>3. inHand[v].tenant \in TenantId /\ inHand[v].tenant # t =>
          tokenRows'[inHand[v].tenant] = tokenRows[inHand[v].tenant]
    BY <1>1 DEF TenantInv, TenantTypeOK
  <2> QED BY <1>3, <2>1, <2>2, <2>3 DEF HandInv, OfItsBot, Candidate, Decrypts, AsStored
<1>7. SessionIsOfTheLast'
  BY <1>3 DEF TenantInv, SessionIsOfTheLast
<1> QED BY <1>3, <1>5, <1>6, <1>7 DEF TenantInv

LEMMA RestartInv == TenantInv /\ RestartWithKey => TenantInv'
<1> SUFFICES ASSUME TenantInv, RestartWithKey PROVE TenantInv'
  OBVIOUS
<1>1. TenantTypeOK' /\ \A v \in Slot : inHand'[v] = NoUpdate
  BY NoUpdateIs DEF TenantInv, TenantTypeOK, RestartWithKey
<1>2. ASSUME NEW v \in Slot PROVE HandInv(inHand[v])'
  <2>1. HandInv(NoUpdate) /\ inHand'[v] = NoUpdate
    BY <1>1, NoUpdateInv DEF TenantInv
  <2> QED BY <2>1, NoUpdateIs DEF HandInv, RestartWithKey
<1>3. SessionIsOfTheLast' /\ (away' = 0 => rowsThere')
  BY DEF TenantInv, SessionIsOfTheLast, RestartWithKey
<1> QED BY <1>1, <1>2, <1>3 DEF TenantInv

LEMMA RowsMoveInv == TenantInv /\ RowsMove => TenantInv'
<1> SUFFICES ASSUME TenantInv, RowsMove PROVE TenantInv'
  OBVIOUS
<1>1. /\ away' \in 0..MaxChangesToRows /\ (away' = 0 => away = 0 /\ ~rowsThere)
      /\ inHand' = Moved(TenantId) /\ rowsThere' \in BOOLEAN
      /\ UNCHANGED <<tokenRows, keyInUse, plaintextAllowed, sessionRow, processed, storedTokens,
                     newestEnded>>
  BY UpdateAssumption DEF RowsMove, TenantInv, TenantTypeOK
<1>2. TenantTypeOK'
  <2>1. inHand' \in [Slot -> UpdateInHand]
    BY <1>1, MovedIs DEF TenantInv, TenantTypeOK, Moved
  <2> QED BY <1>1, <2>1 DEF TenantInv, TenantTypeOK
<1>3. ASSUME NEW v \in Slot PROVE HandInv(inHand[v])'
  <2>1. HandInv(inHand[v])
    BY DEF TenantInv
  <2>2. /\ inHand'[v].at = inHand[v].at /\ inHand'[v].n = inHand[v].n
        /\ inHand'[v].came = inHand[v].came /\ inHand'[v].tenant = inHand[v].tenant
        /\ inHand'[v].bot = inHand[v].bot /\ inHand'[v].acts = inHand[v].acts
        /\ inHand[v].moved => inHand'[v].moved
        /\ inHand[v].came # NoToken /\ inHand[v].tenant \in TenantId => inHand'[v].moved
    BY <1>1, MovedIs
  <2> QED BY <1>1, <2>1, <2>2 DEF HandInv
<1>4. away' # 0
  BY <1>1 DEF TenantInv
<1>5. SessionIsOfTheLast'
  BY <1>4 DEF SessionIsOfTheLast
<1> QED BY <1>2, <1>3, <1>4, <1>5 DEF TenantInv

LEMMA TenantStepInv == TenantInv /\ [TenantNext]_tenantVars => TenantInv'
<1> SUFFICES ASSUME TenantInv, [TenantNext]_tenantVars PROVE TenantInv'
  OBVIOUS
<1>1. CASE UNCHANGED tenantVars
  BY <1>1 DEF tenantVars, TenantInv, TenantTypeOK, HandInv, OfItsBot, Candidate, Decrypts,
     AsStored, SessionIsOfTheLast
<1>2. CASE TenantNext
  BY <1>2, StoreTokenInv, ForTenantInv, ByTokenInv, ResolveTenantInv, ProcessUpdateInv,
     ResolveBotInv, PostInv, FinishInv, RestartInv, RowsMoveInv DEF TenantNext
<1> QED BY <1>1, <1>2

\* TenantInv holds whatever updates, tokens, keys and outages come.
THEOREM TenantInvariant == TenantSpec => []TenantInv
BY TenantInitInv, TenantStepInv, PTL DEF TenantSpec

\* Bots that share the service act as themselves, send no ciphertext, and the session
\* row of a tenant has its last update, or one that was acted on.
THEOREM BotsAreApart == TenantSpec => []TenantsAreApart
<1>1. TenantInv => TenantsAreApart
  BY DEF TenantInv, HandInv, TenantsAreApart, ActsAsItsBot, CiphertextIsNoToken
<1> QED BY <1>1, TenantInvariant, PTL

HIDE DEF NoToken, Ciphertext, TenantId, EncryptionKey

(***************************************************************************)
(* TelegramWindows: a window and the updates it is of                      *)
(***************************************************************************)

Entry == [at : Int, by : Member]
UpdateKind == {"join", "other"} \cup PostKind
UpdateRecord == [kind : UpdateKind, who : Member, chat : Chat, at : Date]

\* f says which updates the entries of window w are: of those M that are counted there,
\* all but some that lie more than the span before another update.
IsWindow(f, w, log, M, span) ==
  /\ f \in [1..Len(w) -> M]
  /\ \A i, j \in 1..Len(w) : i < j => f[i] < f[j]
  /\ \A i \in 1..Len(w) : w[i].at = log[f[i]].at /\ w[i].by = log[f[i]].who
  /\ \A m \in M : (\A i \in 1..Len(w) : f[i] # m) =>
       \E t \in 1..Len(log) : log[m].at < log[t].at - span

WindowOf(w, log, M, span) == \E f : IsWindow(f, w, log, M, span)

\* A window begins with an entry that is not older.
Fresh(w, from) == Len(w) # 0 => w[1].at >= from

LEMMA LeastOfNaturals ==
  ASSUME NEW T \in SUBSET Nat, T # {}
  PROVE  \E k \in T : \A l \in T : k <= l
<1>1. PICK k \in T : \A x \in Nat : <<x, k>> \in OpToRel(<, Nat) => x \notin T
  BY NatLessThanWellFounded, WFMin
<1>2. \A x \in Nat : x < k => x \notin T
  BY <1>1 DEF OpToRel
<1> QED
  BY <1>2

LEMMA LogFacts ==
  ASSUME NEW log \in Seq(UpdateRecord), NEW i \in 1..Len(log)
  PROVE  /\ log[i] \in UpdateRecord /\ log[i].at \in Int /\ log[i].at \in Date
         /\ log[i].who \in Member /\ log[i].chat \in Chat /\ log[i].kind \in UpdateKind
<1>1. log[i] \in UpdateRecord
  OBVIOUS
<1> QED
  BY <1>1, WindowsAssumption DEF UpdateRecord, Date

LEMMA GrownLog ==
  ASSUME NEW log \in Seq(UpdateRecord), NEW e \in UpdateRecord, NEW new, new = Append(log, e)
  PROVE  /\ new \in Seq(UpdateRecord) /\ Len(new) = Len(log) + 1 /\ new[Len(log) + 1] = e
         /\ \A i \in 1..Len(log) : new[i] = log[i]
         /\ Len(log) \in Nat /\ DOMAIN new = 1..(Len(log) + 1) /\ DOMAIN log = 1..Len(log)
  OBVIOUS

\* popleft while the first is older: a number of entries go, all of them older.
LEMMA PrunedFacts ==
  ASSUME NEW w \in Seq(Entry), NEW from \in Int, NEW p, p = Pruned(w, from)
  PROVE  /\ p \in Seq(Entry)
         /\ \E k \in 0..Len(w) : /\ Len(p) = Len(w) - k
                                 /\ \A i \in 1..(Len(w) - k) : p[i] = w[i + k]
                                 /\ \A i \in 1..k : w[i].at < from
                                 /\ k < Len(w) => w[k + 1].at >= from
<1>1. PICK n \in Nat : n = Len(w) /\ DOMAIN w = 1..n
  OBVIOUS
<1>2. \A i \in 1..n : w[i].at \in Int
  <2>1. \A i \in 1..n : w[i] \in Entry
    BY <1>1
  <2> QED
    BY <2>1 DEF Entry
<1>3. PICK kept : kept = {i \in DOMAIN w : w[i].at >= from}
  OBVIOUS
<1>4. p = IF kept = {} THEN <<>>
          ELSE SubSeq(w, CHOOSE i \in kept : \A j \in kept : i <= j, Len(w))
  BY <1>3 DEF Pruned
<1>5. CASE kept = {}
  <2>1. p = <<>>
    BY <1>4, <1>5
  <2>2. \A i \in 1..n : w[i].at < from
    BY <1>1, <1>2, <1>3, <1>5
  <2>3. /\ n \in 0..n /\ Len(p) = n - n /\ (\A i \in 1..(n - n) : p[i] = w[i + n])
    BY <2>1
  <2>4. p \in Seq(Entry)
    BY <2>1
  <2> QED
    BY <1>1, <2>2, <2>3, <2>4
<1>6. CASE kept # {}
  <2>1. kept \subseteq Nat
    BY <1>1, <1>3
  <2>2. \E i \in kept : \A j \in kept : i <= j
    BY <1>6, <2>1, LeastOfNaturals
  <2>3. PICK m : m = CHOOSE i \in kept : \A j \in kept : i <= j
    OBVIOUS
  <2>4. m \in kept /\ \A j \in kept : m <= j
    BY <2>2, <2>3
  <2>5. m \in 1..n /\ w[m].at >= from
    BY <1>1, <1>3, <2>4
  <2>6. p = SubSeq(w, m, n)
    BY <1>1, <1>4, <1>6, <2>3
  <2>7. /\ p \in Seq(Entry) /\ Len(p) = n - m + 1
        /\ \A i \in 1..(n - m + 1) : p[i] = w[m + i - 1]
    BY <1>1, <2>5, <2>6, SubSeqProperties
  <2>8. \A i \in 1..(m - 1) : w[i].at < from
    <3> SUFFICES ASSUME NEW i \in 1..(m - 1) PROVE w[i].at < from
      OBVIOUS
    <3>1. i \in 1..n /\ ~ (m <= i)
      BY <2>5
    <3>2. i \notin kept
      BY <2>4, <3>1
    <3> QED
      BY <1>1, <1>2, <1>3, <3>1, <3>2
  <2>9. PICK k \in 0..n : k = m - 1
    BY <2>5
  <2>10. Len(p) = n - k /\ m = k + 1
    BY <2>5, <2>7, <2>9
  <2>11. \A i \in 1..(n - k) : p[i] = w[i + k]
    <3> SUFFICES ASSUME NEW i \in 1..(n - k) PROVE p[i] = w[i + k]
      OBVIOUS
    <3>1. i \in 1..(n - m + 1) /\ m + i - 1 = i + k
      BY <2>5, <2>9
    <3> QED
      BY <2>7, <3>1
  <2>12. (\A i \in 1..k : w[i].at < from) /\ w[k + 1].at >= from
    BY <2>5, <2>8, <2>9, <2>10
  <2> QED
    BY <1>1, <2>7, <2>10, <2>11, <2>12
<1> QED
  BY <1>5, <1>6

LEMMA Pruning ==
  ASSUME NEW log \in Seq(UpdateRecord), NEW w \in Seq(Entry), NEW M \in SUBSET (1..Len(log)),
         NEW span \in Nat, NEW from \in Int, NEW t \in 1..Len(log), from <= log[t].at - span,
         WindowOf(w, log, M, span), NEW p, p = Pruned(w, from)
  PROVE  p \in Seq(Entry) /\ WindowOf(p, log, M, span) /\ Fresh(p, from)
<1>1. PICK f : IsWindow(f, w, log, M, span)
  BY DEF WindowOf
<1>2. PICK n \in Nat : n = Len(w)
  OBVIOUS
<1>3. /\ f \in [1..n -> M]
      /\ \A i, j \in 1..n : i < j => f[i] < f[j]
      /\ \A i \in 1..n : w[i].at = log[f[i]].at /\ w[i].by = log[f[i]].who
      /\ \A m \in M : (\A i \in 1..n : f[i] # m) =>
           \E s \in 1..Len(log) : log[m].at < log[s].at - span
  BY <1>1, <1>2 DEF IsWindow
<1>4. PICK k \in 0..n : /\ Len(p) = n - k
                        /\ \A i \in 1..(n - k) : p[i] = w[i + k]
                        /\ \A i \in 1..k : w[i].at < from
                        /\ k < n => w[k + 1].at >= from
  BY <1>2, PrunedFacts
<1>5. p \in Seq(Entry)
  BY PrunedFacts
<1>6. PICK g : g = [i \in 1..(n - k) |-> f[i + k]]
  OBVIOUS
<1>7. \A i \in 1..(n - k) : i + k \in 1..n
  BY <1>4
<1>8. g \in [1..(n - k) -> M]
  BY <1>3, <1>6, <1>7
<1>9. \A i, j \in 1..(n - k) : i < j => g[i] < g[j]
  <2> SUFFICES ASSUME NEW i \in 1..(n - k), NEW j \in 1..(n - k), i < j PROVE g[i] < g[j]
    OBVIOUS
  <2>1. i + k < j + k
    OBVIOUS
  <2> QED
    BY <1>3, <1>6, <1>7, <2>1
<1>10. \A i \in 1..(n - k) : p[i].at = log[g[i]].at /\ p[i].by = log[g[i]].who
  BY <1>3, <1>4, <1>6, <1>7
<1>11. ASSUME NEW m \in M, \A i \in 1..(n - k) : g[i] # m
       PROVE  \E s \in 1..Len(log) : log[m].at < log[s].at - span
  <2>1. CASE \A i \in 1..n : f[i] # m
    BY <1>3, <2>1
  <2>2. CASE \E i \in 1..n : f[i] = m
    <3>1. PICK i \in 1..n : f[i] = m
      BY <2>2
    <3>2. i <= k
      <4> SUFFICES ASSUME i > k PROVE FALSE
        BY <1>4
      <4>1. i - k \in 1..(n - k) /\ i - k + k = i
        BY <1>4
      <4>2. g[i - k] = f[i]
        BY <1>6, <4>1
      <4> QED
        BY <1>11, <3>1, <4>1, <4>2
    <3>3. w[i].at < from
      BY <1>4, <3>2
    <3>4. log[m].at = w[i].at
      BY <1>3, <3>1
    <3>5. log[m].at \in Int /\ log[t].at \in Int
      BY LogFacts
    <3>6. log[m].at < log[t].at - span
      BY <3>3, <3>4, <3>5
    <3> QED
      BY <3>6
  <2> QED
    BY <2>1, <2>2
<1>12. WindowOf(p, log, M, span)
  <2>1. IsWindow(g, p, log, M, span)
    BY <1>4, <1>8, <1>9, <1>10, <1>11 DEF IsWindow
  <2> QED
    BY <2>1 DEF WindowOf
<1>13. Fresh(p, from)
  <2> SUFFICES ASSUME Len(p) # 0 PROVE p[1].at >= from
    BY DEF Fresh
  <2>1. k < n /\ 1 \in 1..(n - k)
    BY <1>4
  <2> QED
    BY <1>4, <2>1
<1> QED
  BY <1>5, <1>12, <1>13

LEMMA Carried ==
  ASSUME NEW log \in Seq(UpdateRecord), NEW e \in UpdateRecord, NEW new, new = Append(log, e),
         NEW w, NEW M \in SUBSET (1..Len(log)), NEW span, WindowOf(w, log, M, span)
  PROVE  WindowOf(w, new, M, span)
<1>1. PICK f : IsWindow(f, w, log, M, span)
  BY DEF WindowOf
<1>2. \A i \in 1..Len(log) : new[i] = log[i] /\ i \in 1..Len(new)
  BY GrownLog
<1>3. IsWindow(f, w, new, M, span)
  BY <1>1, <1>2 DEF IsWindow
<1> QED
  BY <1>3 DEF WindowOf

LEMMA Adding ==
  ASSUME NEW log \in Seq(UpdateRecord), NEW w \in Seq(Entry), NEW M \in SUBSET (1..Len(log)),
         NEW span, WindowOf(w, log, M, span),
         NEW n \in 1..Len(log), \A m \in M : m < n,
         NEW entry \in Entry, entry.at = log[n].at, entry.by = log[n].who,
         NEW grown, grown = Append(w, entry)
  PROVE  grown \in Seq(Entry) /\ WindowOf(grown, log, M \cup {n}, span)
<1>1. PICK f : IsWindow(f, w, log, M, span)
  BY DEF WindowOf
<1>2. PICK l \in Nat : l = Len(w)
  OBVIOUS
<1>3. /\ f \in [1..l -> M]
      /\ \A i, j \in 1..l : i < j => f[i] < f[j]
      /\ \A i \in 1..l : w[i].at = log[f[i]].at /\ w[i].by = log[f[i]].who
      /\ \A m \in M : (\A i \in 1..l : f[i] # m) =>
           \E s \in 1..Len(log) : log[m].at < log[s].at - span
  BY <1>1, <1>2 DEF IsWindow
<1>4. /\ grown \in Seq(Entry) /\ Len(grown) = l + 1 /\ grown[l + 1] = entry
      /\ \A i \in 1..l : grown[i] = w[i]
  BY <1>2
<1>5. PICK g : g = [i \in 1..(l + 1) |-> IF i = l + 1 THEN n ELSE f[i]]
  OBVIOUS
<1>6. g[l + 1] = n /\ \A i \in 1..l : g[i] = f[i]
  BY <1>5
<1>7. g \in [1..(l + 1) -> M \cup {n}]
  BY <1>3, <1>5
<1>8. \A i \in 1..(l + 1) : i \in 1..l \/ i = l + 1
  OBVIOUS
<1>9. \A i, j \in 1..(l + 1) : i < j => g[i] < g[j]
  <2> SUFFICES ASSUME NEW i \in 1..(l + 1), NEW j \in 1..(l + 1), i < j PROVE g[i] < g[j]
    OBVIOUS
  <2>1. i \in 1..l
    OBVIOUS
  <2>2. CASE j \in 1..l
    BY <1>3, <1>6, <2>1, <2>2
  <2>3. CASE j = l + 1
    <3>1. f[i] \in M
      BY <1>3, <2>1
    <3> QED
      BY <1>6, <2>1, <2>3, <3>1
  <2> QED
    BY <1>8, <2>2, <2>3
<1>10. \A i \in 1..(l + 1) : grown[i].at = log[g[i]].at /\ grown[i].by = log[g[i]].who
  BY <1>3, <1>4, <1>6, <1>8
<1>11. \A m \in M \cup {n} : (\A i \in 1..(l + 1) : g[i] # m) =>
         \E s \in 1..Len(log) : log[m].at < log[s].at - span
  <2> SUFFICES ASSUME NEW m \in M \cup {n}, \A i \in 1..(l + 1) : g[i] # m
               PROVE  \E s \in 1..Len(log) : log[m].at < log[s].at - span
    OBVIOUS
  <2>1. l + 1 \in 1..(l + 1) /\ \A i \in 1..l : i \in 1..(l + 1)
    OBVIOUS
  <2>2. m # n /\ \A i \in 1..l : f[i] # m
    BY <1>6, <2>1
  <2> QED
    BY <1>3, <2>2
<1>12. IsWindow(g, grown, log, M \cup {n}, span)
  BY <1>4, <1>7, <1>9, <1>10, <1>11 DEF IsWindow
<1> QED
  BY <1>4, <1>12 DEF WindowOf

\* Dates that never go back from one update to the next never go back at all.
LEMMA OrderedPairs ==
  ASSUME NEW log \in Seq(UpdateRecord),
         \A k \in 1..(Len(log) - 1) : log[k].at <= log[k + 1].at,
         NEW i \in 1..Len(log), NEW j \in 1..Len(log), i <= j
  PROVE  log[i].at <= log[j].at
<1> SUFFICES ASSUME ~ (log[i].at <= log[j].at) PROVE FALSE
  OBVIOUS
<1>1. PICK T : T = {k \in 1..Len(log) : i <= k /\ ~ (log[i].at <= log[k].at)}
  OBVIOUS
<1>2. T # {} /\ T \subseteq Nat
  BY <1>1
<1>3. PICK k \in T : \A l \in T : k <= l
  BY <1>2, LeastOfNaturals
<1>4. k \in 1..Len(log) /\ i <= k /\ ~ (log[i].at <= log[k].at)
  BY <1>1, <1>3
<1>5. k # i
  BY <1>4, LogFacts
<1>6. k - 1 \in 1..(Len(log) - 1) /\ k - 1 \in 1..Len(log) /\ i <= k - 1 /\ k - 1 + 1 = k
  BY <1>4, <1>5
<1>7. k - 1 \notin T
  BY <1>3, <1>6
<1>8. log[i].at <= log[k - 1].at
  BY <1>1, <1>6, <1>7
<1>9. log[k - 1].at <= log[k].at
  BY <1>6
<1>10. log[i].at \in Int /\ log[k - 1].at \in Int /\ log[k].at \in Int
  BY <1>4, <1>6, LogFacts
<1> QED
  BY <1>4, <1>8, <1>9, <1>10

\* Whom a window's entries are of.
By(w) == {w[i].by : i \in 1..Len(w)}

\* Which of the updates M are within a window, and who sent those of M.
Since(log, M, from) == {m \in M : log[m].at >= from}
Senders(log, M) == {log[m].who : m \in M}

InOrder(log) == \A k \in 1..(Len(log) - 1) : log[k].at <= log[k + 1].at
LastIsNewest(log) == \A i \in 1..Len(log) : log[i].at <= log[Len(log)].at

CountsAtLeast(log, w, N) == Cardinality(N) <= Len(w) /\ \A m \in N : log[m].who \in By(w)
CountsExactly(log, w, N) ==
  Cardinality(N) = Len(w) /\ \A b \in By(w) : \E m \in N : b = log[m].who

\* When the last update is the newest, a window has what lies in its span before it; and
\* when the dates are in order and the window begins there, nothing else.
LEMMA Counting ==
  ASSUME NEW log \in Seq(UpdateRecord), Len(log) # 0,
         NEW w \in Seq(Entry), NEW M \in SUBSET (1..Len(log)), NEW span \in Nat,
         WindowOf(w, log, M, span),
         NEW from, from = log[Len(log)].at - span
  PROVE  /\ LastIsNewest(log) => CountsAtLeast(log, w, Since(log, M, from))
         /\ Fresh(w, from) /\ InOrder(log) =>
              LastIsNewest(log) /\ CountsExactly(log, w, Since(log, M, from))
<1> DEFINE N == Since(log, M, from)
<1>0. \A m : m \in N <=> m \in M /\ log[m].at >= from
  BY DEF Since
<1> HIDE DEF N
<1>1. PICK f : IsWindow(f, w, log, M, span)
  BY DEF WindowOf
<1>2. PICK l \in Nat : l = Len(w)
  OBVIOUS
<1>3. /\ f \in [1..l -> M]
      /\ \A i, j \in 1..l : i < j => f[i] < f[j]
      /\ \A i \in 1..l : w[i].at = log[f[i]].at /\ w[i].by = log[f[i]].who
      /\ \A m \in M : (\A i \in 1..l : f[i] # m) =>
           \E s \in 1..Len(log) : log[m].at < log[s].at - span
  BY <1>1, <1>2 DEF IsWindow
<1>4. PICK n \in Nat : n = Len(log) /\ n \in 1..Len(log)
  OBVIOUS
<1>5. \A i \in 1..n : log[i].at \in Int
  BY <1>4, LogFacts
<1>6. PICK R : R = {f[i] : i \in 1..l}
  OBVIOUS
<1>7. R \subseteq M /\ \A i \in 1..l : f[i] \in 1..n
  BY <1>3, <1>4, <1>6
<1>8. IsFiniteSet(R) /\ Cardinality(R) = l
  <2>1. \A i, j \in 1..l : f[i] = f[j] => i = j
    <3> SUFFICES ASSUME NEW i \in 1..l, NEW j \in 1..l, f[i] = f[j], i # j PROVE FALSE
      OBVIOUS
    <3>1. i < j \/ j < i
      OBVIOUS
    <3>2. f[i] < f[j] \/ f[j] < f[i]
      BY <1>3, <3>1
    <3>3. f[i] \in Int /\ f[j] \in Int
      BY <1>7
    <3> QED
      BY <3>2, <3>3
  <2>2. f \in Injection(1..l, R) /\ f \in Surjection(1..l, R)
    BY <1>3, <1>6, <2>1 DEF Injection, IsInjective, Surjection
  <2>3. IsFiniteSet(1..l) /\ Cardinality(1..l) = IF 1 > l THEN 0 ELSE l - 1 + 1
    <3>1. 1 \in Int /\ l \in Int
      OBVIOUS
    <3> QED
      BY <3>1, FS_Interval
  <2>4. Cardinality(1..l) = l
    BY <2>3
  <2> QED
    BY <2>2, <2>3, <2>4, FS_Surjection
<1>9. ASSUME LastIsNewest(log)
      PROVE  N \subseteq R
  <2> SUFFICES ASSUME NEW m \in N, m \notin R PROVE FALSE
    OBVIOUS
  <2>1. m \in M /\ m \in 1..n /\ log[m].at >= from
    BY <1>0, <1>4
  <2>2. PICK s \in 1..n : log[m].at < log[s].at - span
    BY <1>3, <1>4, <1>6, <2>1, SMTT(20)
  <2>3. log[s].at <= log[n].at
    BY <1>4, <1>9 DEF LastIsNewest
  <2>4. log[s].at \in Int /\ log[n].at \in Int /\ log[m].at \in Int /\ from = log[n].at - span
    BY <1>4, <1>5, <2>1
  <2>5. PICK a \in Int, b \in Int, d \in Int : a = log[m].at /\ b = log[s].at /\ d = log[n].at
    BY <2>4
  <2>6. a >= d - span /\ a < b - span /\ b <= d
    BY <2>1, <2>2, <2>3, <2>4, <2>5
  <2> QED
    BY <2>6
<1>10. ASSUME LastIsNewest(log)
       PROVE  Cardinality(N) <= Len(w) /\ \A m \in N : log[m].who \in By(w)
  <2>1. N \subseteq R
    BY <1>9, <1>10
  <2>2. Cardinality(N) <= l
    BY <1>8, <2>1, FS_Subset
  <2>3. ASSUME NEW m \in N PROVE log[m].who \in By(w)
    <3>1. PICK i \in 1..l : f[i] = m
      BY <1>6, <2>1
    <3> QED
      BY <1>2, <1>3, <3>1 DEF By
  <2> QED
    BY <1>2, <2>2, <2>3
<1>11. ASSUME Fresh(w, from), InOrder(log)
       PROVE  LastIsNewest(log) /\ N = R
  <2>1. LastIsNewest(log)
    <3> SUFFICES ASSUME NEW i \in 1..Len(log) PROVE log[i].at <= log[Len(log)].at
      BY DEF LastIsNewest
    <3>1. Len(log) \in 1..Len(log) /\ i <= Len(log)
      BY <1>4
    <3> QED
      BY <1>11, <3>1, OrderedPairs DEF InOrder
  <2>2. N \subseteq R
    BY <1>9, <2>1
  <2>3. ASSUME NEW i \in 1..l PROVE f[i] \in N
    <3>1. 1 \in 1..l /\ w[1].at >= from
      BY <1>2, <1>11 DEF Fresh
    <3>2. f[1] <= f[i]
      <4>1. CASE i = 1
        BY <1>7, <4>1
      <4>2. CASE i # 1
        <5>1. 1 < i
          BY <4>2
        <5>2. f[1] < f[i] /\ f[1] \in Int /\ f[i] \in Int
          BY <1>3, <1>7, <3>1, <5>1
        <5> QED
          BY <5>2
      <4> QED
        BY <4>1, <4>2
    <3>3. log[f[1]].at <= log[f[i]].at
      BY <1>4, <1>7, <1>11, <3>1, <3>2, OrderedPairs DEF InOrder
    <3>4. log[f[1]].at \in Int /\ log[f[i]].at \in Int /\ log[f[1]].at >= from /\ from \in Int
      <4>1. log[f[1]].at \in Int /\ log[f[i]].at \in Int /\ log[n].at \in Int
        BY <1>4, <1>5, <1>7, <3>1
      <4>2. log[f[1]].at = w[1].at
        BY <1>3, <3>1
      <4>3. from = log[n].at - span
        BY <1>4
      <4> QED
        BY <3>1, <4>1, <4>2, <4>3
    <3>5. log[f[i]].at >= from
      BY <3>3, <3>4
    <3> QED
      BY <1>0, <1>3, <3>5
  <2> QED
    BY <1>6, <2>1, <2>2, <2>3
<1>12. ASSUME Fresh(w, from), InOrder(log)
       PROVE  LastIsNewest(log) /\ Cardinality(N) = Len(w) /\ \A b \in By(w) : \E m \in N : b = log[m].who
  <2>1. LastIsNewest(log) /\ N = R
    BY <1>11, <1>12
  <2>2. ASSUME NEW b \in By(w) PROVE \E m \in N : b = log[m].who
    <3>1. PICK i \in 1..l : b = w[i].by
      BY <1>2 DEF By
    <3> QED
      BY <1>3, <1>6, <2>1, <3>1
  <2> QED
    BY <1>2, <1>8, <2>1, <2>2
<1> QED
  BY <1>10, <1>12 DEF N, CountsAtLeast, CountsExactly

LEMMA FiniteBy == ASSUME NEW w \in Seq(Entry) PROVE IsFiniteSet(By(w))
<1>1. PICK l \in Nat : l = Len(w)
  OBVIOUS
<1>2. PICK g : g = [i \in 1..l |-> w[i].by]
  OBVIOUS
<1>3. g \in Surjection(1..l, By(w))
  BY <1>1, <1>2 DEF Surjection, By
<1>4. IsFiniteSet(1..l)
  BY FS_Interval
<1> QED
  BY <1>3, <1>4, FS_Surjection

\* Members who sent some of a log's updates are finitely many.
LEMMA FiniteSenders ==
  ASSUME NEW log \in Seq(UpdateRecord), NEW M \in SUBSET (1..Len(log))
  PROVE  IsFiniteSet({log[m].who : m \in M})
<1>1. IsFiniteSet(1..Len(log))
  BY FS_Interval
<1>2. IsFiniteSet(M)
  BY <1>1, FS_Subset
<1>3. PICK T : T = {log[m].who : m \in M}
  OBVIOUS
<1>4. PICK g : g = [m \in M |-> log[m].who]
  OBVIOUS
<1>5. g \in Surjection(M, T)
  BY <1>3, <1>4 DEF Surjection
<1> QED
  BY <1>2, <1>3, <1>5, FS_Surjection
\* The updates of these kinds of a chat, the posts of a member, and those at a place.
InChat(log, kinds, c) == {i \in 1..Len(log) : log[i].kind \in kinds /\ log[i].chat = c}
OfMember(log, u) == {i \in 1..Len(log) : log[i].kind \in PostKind /\ log[i].who = u}
AtPlace(log, kinds, p) ==
  {i \in 1..Len(log) : log[i].kind \in kinds /\ log[i].who = p[1] /\ log[i].chat = p[2]}

LEMMA InChatGrown ==
  ASSUME NEW log \in Seq(UpdateRecord), NEW e \in UpdateRecord, NEW kinds, NEW c
  PROVE  InChat(Append(log, e), kinds, c) =
            IF e.kind \in kinds /\ e.chat = c THEN InChat(log, kinds, c) \cup {Len(log) + 1} ELSE InChat(log, kinds, c)
<1>1. PICK l \in Nat : l = Len(log)
  OBVIOUS
<1> DEFINE new == Append(log, e)
<1>2. /\ Len(new) = l + 1 /\ new[l + 1] = e /\ Len(log) + 1 = l + 1
      /\ \A i \in 1..l : new[i] = log[i]
  BY <1>1, GrownLog
<1>3. \A i : i \in 1..(l + 1) <=> i \in 1..l \/ i = l + 1
  BY <1>1
<1>4. \A i \in 1..l : i # l + 1
  BY <1>1
<1> HIDE DEF new
<1> QED
  BY <1>1, <1>2, <1>3, <1>4 DEF InChat, new

LEMMA OfMemberGrown ==
  ASSUME NEW log \in Seq(UpdateRecord), NEW e \in UpdateRecord, NEW u
  PROVE  OfMember(Append(log, e), u) =
            IF e.kind \in PostKind /\ e.who = u THEN OfMember(log, u) \cup {Len(log) + 1} ELSE OfMember(log, u)
<1>1. PICK l \in Nat : l = Len(log)
  OBVIOUS
<1> DEFINE new == Append(log, e)
<1>2. /\ Len(new) = l + 1 /\ new[l + 1] = e /\ Len(log) + 1 = l + 1
      /\ \A i \in 1..l : new[i] = log[i]
  BY <1>1, GrownLog
<1>3. \A i : i \in 1..(l + 1) <=> i \in 1..l \/ i = l + 1
  BY <1>1
<1>4. \A i \in 1..l : i # l + 1
  BY <1>1
<1> HIDE DEF new, PostKind
<1> QED
  BY <1>1, <1>2, <1>3, <1>4 DEF OfMember, new

LEMMA AtPlaceGrown ==
  ASSUME NEW log \in Seq(UpdateRecord), NEW e \in UpdateRecord, NEW kinds, NEW p
  PROVE  AtPlace(Append(log, e), kinds, p) =
            IF e.kind \in kinds /\ e.who = p[1] /\ e.chat = p[2] THEN AtPlace(log, kinds, p) \cup {Len(log) + 1} ELSE AtPlace(log, kinds, p)
<1>1. PICK l \in Nat : l = Len(log)
  OBVIOUS
<1> DEFINE new == Append(log, e)
<1>2. /\ Len(new) = l + 1 /\ new[l + 1] = e /\ Len(log) + 1 = l + 1
      /\ \A i \in 1..l : new[i] = log[i]
  BY <1>1, GrownLog
<1>3. \A i : i \in 1..(l + 1) <=> i \in 1..l \/ i = l + 1
  BY <1>1
<1>4. \A i \in 1..l : i # l + 1
  BY <1>1
<1> HIDE DEF new
<1> QED
  BY <1>1, <1>2, <1>3, <1>4 DEF AtPlace, new

LEMMA SetsInLog ==
  ASSUME NEW log \in Seq(UpdateRecord)
  PROVE  /\ \A kinds, c : InChat(log, kinds, c) \in SUBSET (1..Len(log))
         /\ \A u : OfMember(log, u) \in SUBSET (1..Len(log))
         /\ \A kinds, p : AtPlace(log, kinds, p) \in SUBSET (1..Len(log))
  BY DEF InChat, OfMember, AtPlace

\* A window an update's entry is added to, then cut back.
LEMMA Recorded ==
  ASSUME NEW log \in Seq(UpdateRecord), NEW e \in UpdateRecord,
         NEW w \in Seq(Entry), NEW M \in SUBSET (1..Len(log)), NEW span \in Nat,
         WindowOf(w, Append(log, e), M, span), NEW entry, entry = [at |-> e.at, by |-> e.who],
         NEW from \in Int, from <= e.at - span
  PROVE  /\ Pruned(Append(w, entry), from) \in Seq(Entry)
         /\ WindowOf(Pruned(Append(w, entry), from), Append(log, e), M \cup {Len(log) + 1}, span)
         /\ Fresh(Pruned(Append(w, entry), from), from)
<1>0. PICK new, p : new = Append(log, e) /\ p = Pruned(Append(w, entry), from)
  OBVIOUS
<1>1. PICK n \in Nat : n = Len(log) + 1
  OBVIOUS
<1>2. /\ new \in Seq(UpdateRecord) /\ Len(new) = n /\ new[n] = e /\ n \in 1..Len(new)
      /\ Len(log) = n - 1
  BY <1>0, <1>1, GrownLog
<1>3. M \in SUBSET (1..Len(new)) /\ (\A m \in M : m < n) /\ M \cup {n} \in SUBSET (1..Len(new))
  <2>1. \A m \in M : m \in 1..(n - 1)
    BY <1>2
  <2>2. \A m \in 1..(n - 1) : m \in 1..n /\ m < n
    OBVIOUS
  <2>3. \A m \in M : m \in 1..Len(new) /\ m < n
    BY <1>2, <2>1, <2>2
  <2> QED
    BY <1>2, <2>3
<1>4. entry \in Entry /\ entry.at = new[n].at /\ entry.by = new[n].who
  BY <1>2, WindowsAssumption DEF Entry, UpdateRecord, Date
<1>5. PICK grown : grown = Append(w, entry)
  OBVIOUS
<1>6. grown \in Seq(Entry) /\ WindowOf(grown, new, M \cup {n}, span)
  BY <1>0, <1>2, <1>3, <1>4, <1>5, Adding
<1>7. PICK K : K = M \cup {n} /\ K \in SUBSET (1..Len(new)) /\ WindowOf(grown, new, K, span)
  BY <1>3, <1>6
<1>8. p \in Seq(Entry) /\ WindowOf(p, new, K, span) /\ Fresh(p, from)
  BY <1>0, <1>2, <1>5, <1>6, <1>7, Pruning
<1> QED
  BY <1>0, <1>1, <1>7, <1>8

\* A window that is only cut back at an update.
LEMMA Passed ==
  ASSUME NEW log \in Seq(UpdateRecord), NEW e \in UpdateRecord,
         NEW w \in Seq(Entry), NEW M \in SUBSET (1..Len(log)), NEW span \in Nat,
         WindowOf(w, log, M, span), NEW from \in Int, from <= e.at - span
  PROVE  /\ Pruned(w, from) \in Seq(Entry)
         /\ WindowOf(Pruned(w, from), Append(log, e), M, span)
         /\ Fresh(Pruned(w, from), from)
<1>0. PICK new, p : new = Append(log, e) /\ p = Pruned(w, from)
  OBVIOUS
<1>1. PICK n \in Nat : n = Len(log) + 1
  OBVIOUS
<1>2. /\ new \in Seq(UpdateRecord) /\ Len(new) = n /\ new[n] = e /\ n \in 1..Len(new)
      /\ Len(log) = n - 1
  BY <1>0, <1>1, GrownLog
<1>3. M \in SUBSET (1..Len(new))
  BY <1>2
<1>4. WindowOf(w, new, M, span)
  BY <1>0, Carried
<1> QED
  BY <1>0, <1>2, <1>3, <1>4, Pruning

Others(log, M, u) == Cardinality(Senders(log, M) \ {u})

LEMMA PeersCounted ==
  ASSUME NEW log \in Seq(UpdateRecord), Len(log) # 0,
         NEW w \in Seq(Entry), NEW M \in SUBSET (1..Len(log)), NEW span \in Nat,
         WindowOf(w, log, M, span), NEW u,
         NEW from, from = log[Len(log)].at - span, Fresh(w, from)
  PROVE  /\ Peers(w, u) \in Nat
         /\ LastIsNewest(log) =>
              Others(log, Since(log, M, from), u) <= Peers(w, u)
         /\ InOrder(log) =>
              LastIsNewest(log) /\ Peers(w, u) <= Others(log, Since(log, M, from), u)
<1>0. PICK near : near = Senders(log, Since(log, M, from)) \ {u}
  OBVIOUS
<1>1. PICK N : N = Since(log, M, from)
  OBVIOUS
<1>2. PICK B : B = By(w) \ {u}
  OBVIOUS
<1>3. IsFiniteSet(B) /\ Peers(w, u) = Cardinality(B)
  <2>1. IsFiniteSet(By(w))
    BY FiniteBy
  <2>2. B \subseteq By(w)
    BY <1>2
  <2>3. DOMAIN w = 1..Len(w)
    OBVIOUS
  <2> QED
    BY <1>2, <2>1, <2>2, <2>3, FS_Subset DEF Peers, By
<1>4. Cardinality(B) \in Nat
  BY <1>3, FS_CardinalityType
<1>5. ASSUME LastIsNewest(log) PROVE Cardinality(near) <= Peers(w, u)
  <2>1. \A m \in N : log[m].who \in By(w)
    BY <1>1, <1>5, Counting DEF CountsAtLeast
  <2>2. near \subseteq B
    BY <1>0, <1>1, <1>2, <2>1 DEF Senders
  <2> QED
    BY <1>3, <2>2, FS_Subset
<1>6. ASSUME InOrder(log) PROVE LastIsNewest(log) /\ Cardinality(near) = Peers(w, u)
  <2>1. LastIsNewest(log) /\ \A b \in By(w) : \E m \in N : b = log[m].who
    <3>1. Fresh(w, from) /\ InOrder(log)
      BY <1>6
    <3>2. LastIsNewest(log) /\ CountsExactly(log, w, Since(log, M, from))
      BY <3>1, Counting
    <3> QED
      BY <1>1, <3>2 DEF CountsExactly
  <2>2. \A m \in N : log[m].who \in By(w)
    BY <1>1, <2>1, Counting DEF CountsAtLeast
  <2>3. near = B
    BY <1>0, <1>1, <1>2, <2>1, <2>2 DEF Senders
  <2> QED
    BY <1>3, <2>1, <2>3
<1> QED
  BY <1>0, <1>3, <1>4, <1>5, <1>6 DEF Others

LEMMA PeersBounded ==
  ASSUME NEW log \in Seq(UpdateRecord), NEW w \in Seq(Entry), NEW K \in SUBSET (1..Len(log)),
         NEW M \in SUBSET K, NEW span, WindowOf(w, log, M, span), NEW u,
         NEW others, others = Senders(log, K) \ {u}
  PROVE  Peers(w, u) <= Cardinality(others) /\ Cardinality(others) \in Nat
<1>1. IsFiniteSet(Senders(log, K))
  BY FiniteSenders DEF Senders
<1>2. IsFiniteSet(others)
  BY <1>1, FS_Subset
<1>3. PICK B : B = By(w) \ {u}
  OBVIOUS
<1>4. B \subseteq others
  <2>1. PICK f : IsWindow(f, w, log, M, span)
    BY DEF WindowOf
  <2>2. \A i \in 1..Len(w) : f[i] \in K /\ w[i].by = log[f[i]].who
    BY <2>1 DEF IsWindow
  <2>3. \A b \in By(w) : \E m \in K : b = log[m].who
    BY <2>2 DEF By
  <2> QED
    BY <1>3, <2>3 DEF Senders
<1>5. Peers(w, u) = Cardinality(B)
  <2>1. DOMAIN w = 1..Len(w)
    OBVIOUS
  <2> QED
    BY <1>3, <2>1 DEF Peers, By
<1> QED
  BY <1>2, <1>4, <1>5, FS_Subset, FS_CardinalityType
\* The posts a first action is sought among: those after every join there.
Posts(log, a, p) ==
  {i \in AtPlace(log, {"media"} \cup {a}, p) : \A j \in AtPlace(log, {"join"}, p) : j < i}

LatencySince(joined, t) == IF t > joined THEN t - joined ELSE 0

\* v is what is kept of the first action of this kind, joined of the last join.
FirstKept(log, a, p, joined, v) ==
  IF AtPlace(log, {"join"}, p) = {} \/ Posts(log, a, p) = {} THEN v = Never
  ELSE \E i \in Posts(log, a, p) : /\ \A j \in Posts(log, a, p) : i <= j
                                   /\ v = LatencySince(joined, log[i].at)

LEMMA FirstAfterJoin ==
  ASSUME NEW log \in Seq(UpdateRecord), NEW e \in UpdateRecord, NEW new, new = Append(log, e),
         NEW a \in PostKind, NEW p, NEW joined, e.kind = "join", e.who = p[1], e.chat = p[2]
  PROVE  AtPlace(new, {"join"}, p) # {} /\ FirstKept(new, a, p, joined, Never)
<1>1. PICK n \in Nat : n = Len(log) + 1
  OBVIOUS
<1>2. n \in AtPlace(new, {"join"}, p)
  BY <1>1, AtPlaceGrown
<1>3. AtPlace(new, {"media"} \cup {a}, p) = AtPlace(log, {"media"} \cup {a}, p)
  <2>1. "join" \notin {"media"} \cup {a}
    BY DEF PostKind
  <2> QED
    BY <1>1, <2>1, AtPlaceGrown
<1>4. \A i \in AtPlace(log, {"media"} \cup {a}, p) : i \in 1..(n - 1)
  BY <1>1, SetsInLog
<1>5. Posts(new, a, p) = {}
  <2> SUFFICES ASSUME NEW i \in Posts(new, a, p) PROVE FALSE
    OBVIOUS
  <2>1. n < i /\ i \in 1..(n - 1)
    BY <1>2, <1>3, <1>4 DEF Posts
  <2> QED
    BY <2>1
<1> QED
  BY <1>2, <1>5 DEF FirstKept

LEMMA FirstElsewhere ==
  ASSUME NEW log \in Seq(UpdateRecord), NEW e \in UpdateRecord,
         NEW a, NEW p, NEW joined, NEW v, FirstKept(log, a, p, joined, v),
         ~ (e.kind \in {"join", "media", a} /\ e.who = p[1] /\ e.chat = p[2])
  PROVE  /\ AtPlace(Append(log, e), {"join"}, p) = AtPlace(log, {"join"}, p)
         /\ FirstKept(Append(log, e), a, p, joined, v)
<1>0. PICK new : new = Append(log, e)
  OBVIOUS
<1>1. PICK n \in Nat : n = Len(log) + 1
  OBVIOUS
<1>2. AtPlace(new, {"join"}, p) = AtPlace(log, {"join"}, p)
  BY <1>0, <1>1, AtPlaceGrown
<1>3. AtPlace(new, {"media"} \cup {a}, p) = AtPlace(log, {"media"} \cup {a}, p)
  BY <1>0, <1>1, AtPlaceGrown
<1>4. Posts(new, a, p) = Posts(log, a, p)
  BY <1>2, <1>3 DEF Posts
<1>5. \A i \in Posts(log, a, p) : new[i] = log[i]
  <2>1. \A i \in Posts(log, a, p) : i \in 1..Len(log)
    BY SetsInLog DEF Posts
  <2> QED
    BY <1>0, <2>1, GrownLog
<1> QED
  BY <1>0, <1>2, <1>4, <1>5 DEF FirstKept

AfterPost(joined, v, t) == IF joined # Never /\ v = Never THEN LatencySince(joined, t) ELSE v

LEMMA FirstAtPost ==
  ASSUME NEW log \in Seq(UpdateRecord), NEW e \in UpdateRecord,
         NEW a \in PostKind, NEW p, NEW joined \in Int, NEW v, FirstKept(log, a, p, joined, v),
         joined = Never <=> AtPlace(log, {"join"}, p) = {},
         e.kind \in {"media"} \cup {a}, e.who = p[1], e.chat = p[2]
  PROVE  /\ AtPlace(Append(log, e), {"join"}, p) = AtPlace(log, {"join"}, p)
         /\ FirstKept(Append(log, e), a, p, joined, AfterPost(joined, v, e.at))
<1>0. PICK new, kept : new = Append(log, e) /\ kept = AfterPost(joined, v, e.at)
  OBVIOUS
<1> SUFFICES AtPlace(new, {"join"}, p) = AtPlace(log, {"join"}, p) /\ FirstKept(new, a, p, joined, kept)
  BY <1>0
<1>a. kept = IF joined # Never /\ v = Never THEN LatencySince(joined, e.at) ELSE v
  BY <1>0 DEF AfterPost
<1> DEFINE before == Posts(log, a, p)
           joins == AtPlace(log, {"join"}, p)
<1>1. PICK n \in Nat : n = Len(log) + 1
  OBVIOUS
<1>2. AtPlace(new, {"join"}, p) = joins
  <2>1. e.kind # "join"
    BY DEF PostKind
  <2> QED
    BY <1>1, <2>1, <1>0, AtPlaceGrown
<1>3. AtPlace(new, {"media"} \cup {a}, p) = AtPlace(log, {"media"} \cup {a}, p) \cup {n}
  BY <1>1, <1>0, AtPlaceGrown
<1>4. joins \in SUBSET (1..(n - 1)) /\ before \in SUBSET (1..(n - 1))
  BY <1>1, SetsInLog DEF Posts
<1>5. \A j \in joins : j < n
  BY <1>4
<1>6. Posts(new, a, p) = before \cup {n}
  BY <1>2, <1>3, <1>5 DEF Posts
<1>7. new[n] = e /\ \A i \in before : new[i] = log[i] /\ i < n /\ i \in Int
  BY <1>1, <1>4, <1>0, GrownLog
<1>8. \A i \in before : log[i].at \in Int
  BY <1>1, <1>4, LogFacts
<1>9. CASE joins = {}
  <2>1. v = Never /\ kept = Never
    BY <1>a, <1>9 DEF FirstKept
  <2> QED
    BY <1>2, <1>9, <2>1 DEF FirstKept
<1>10. CASE joins # {} /\ before = {}
  <2>1. v = Never /\ kept = LatencySince(joined, e.at)
    BY <1>a, <1>10 DEF FirstKept
  <2>2. Posts(new, a, p) = {n} /\ n <= n
    BY <1>6, <1>10
  <2> QED
    BY <1>2, <1>7, <1>10, <2>1, <2>2 DEF FirstKept
<1>11. CASE joins # {} /\ before # {}
  <2>1. PICK i \in before : (\A j \in before : i <= j) /\ v = LatencySince(joined, log[i].at)
    BY <1>11 DEF FirstKept
  <2>2. v # Never
    BY <1>8, <2>1 DEF LatencySince, Never
  <2>3. kept = v
    BY <1>a, <2>2
  <2>4. i \in Posts(new, a, p) /\ \A j \in Posts(new, a, p) : i <= j
    BY <1>6, <1>7, <2>1
  <2> HIDE DEF before, joins
  <2>5. kept = LatencySince(joined, new[i].at)
    BY <1>7, <2>1, <2>3
  <2>6. AtPlace(new, {"join"}, p) # {} /\ Posts(new, a, p) # {}
    BY <1>2, <1>11, <2>4
  <2> QED
    BY <1>2, <2>4, <2>5, <2>6 DEF FirstKept, joins
<1> QED
  BY <1>9, <1>10, <1>11
(***************************************************************************)
(* The inductive invariant                                                 *)
(***************************************************************************)
\* CountsCover and PeersAreDistinct of a log and of what was made of its last update.
Covers(log, made) ==
  LET last == log[Len(log)]
      joined == Cardinality(Since(log, InChat(log, {"join"}, last.chat), last.at - Minute))
      sent == Cardinality(Since(log, OfMember(log, last.who), last.at - Minute))
      near == Cardinality(Senders(log, Since(log, InChat(log, PostKind, last.chat),
                                             last.at - Soon)) \ {last.who})
  IN log # <<>> /\ made # NoEvent /\ LastIsNewest(log) =>
       /\ made.joined >= joined /\ (InOrder(log) => made.joined = joined)
       /\ last.kind \in PostKind =>
            /\ made.messages >= sent /\ (InOrder(log) => made.messages = sent)
            /\ made.peers >= near /\ (InOrder(log) => made.peers = near)

Distinct(log, made) ==
  LET last == log[Len(log)]
      others(kinds) == Cardinality(Senders(log, InChat(log, kinds, last.chat)) \ {last.who})
  IN log # <<>> => made.peers <= others(PostKind) /\ made.mediaPeers <= others({"media"})

WindowTypes ==
  /\ joinedAt \in [Place -> Int]
  /\ first \in [PostKind -> [Place -> Int]]
  /\ chatJoins \in [Chat -> Seq(Entry)]
  /\ chatMessages \in [Chat -> Seq(Entry)]
  /\ chatMedia \in [Chat -> Seq(Entry)]
  /\ userMessages \in [Member -> Seq(Entry)]
  /\ updates \in Seq(UpdateRecord)

ChatWindows(log, W, kinds, span) ==
  \A c \in Chat : WindowOf(W[c], log, InChat(log, kinds, c), span)
MemberWindows(log, W) == \A u \in Member : WindowOf(W[u], log, OfMember(log, u), Minute)
FirstInv(log, joined, kept) ==
  \A p \in Place : /\ joined[p] = Never <=> AtPlace(log, {"join"}, p) = {}
                   /\ \A a \in PostKind : FirstKept(log, a, p, joined[p], kept[a][p])

WindowsInv ==
  /\ WindowTypes
  /\ ChatWindows(updates, chatJoins, {"join"}, Minute)
  /\ ChatWindows(updates, chatMessages, PostKind, Soon)
  /\ ChatWindows(updates, chatMedia, {"media"}, 0)
  /\ MemberWindows(updates, userMessages)
  /\ FirstInv(updates, joinedAt, first)
  /\ Covers(updates, event)
  /\ Distinct(updates, event)

\* Every window is empty, and of no update.
LEMMA EmptyWindow ==
  ASSUME NEW log, log = <<>>
  PROVE  /\ \A M, span : M \subseteq 1..Len(log) => WindowOf(<<>>, log, M, span)
         /\ log \in Seq(UpdateRecord) /\ Len(log) = 0
<1>1. log \in Seq(UpdateRecord) /\ Len(log) = 0
  OBVIOUS
<1>2. PICK f : f = [i \in 1..0 |-> i]
  OBVIOUS
<1>3. ASSUME NEW M, NEW span, M \subseteq 1..Len(log) PROVE WindowOf(<<>>, log, M, span)
  <2>1. M = {} /\ Len(<<>>) = 0 /\ 1..0 = {}
    BY <1>1, <1>3
  <2>2. f \in [1..0 -> M]
    BY <1>2, <2>1
  <2> QED
    BY <2>1, <2>2 DEF WindowOf, IsWindow
<1> QED
  BY <1>1, <1>3

LEMMA EmptyWindows ==
  ASSUME NEW log, log = <<>>, NEW M \in SUBSET (1..Len(log)), NEW span
  PROVE  WindowOf(<<>>, log, M, span)
  BY EmptyWindow

LEMMA StartsInv ==
  ASSUME NEW log, log = <<>>,
         NEW joins, joins = [c \in Chat |-> <<>>],
         NEW sent, sent = [u \in Member |-> <<>>],
         NEW joined, joined = [p \in Place |-> Never],
         NEW kept, kept = [a \in PostKind |-> [p \in Place |-> Never]]
  PROVE  /\ joined \in [Place -> Int] /\ kept \in [PostKind -> [Place -> Int]]
         /\ joins \in [Chat -> Seq(Entry)] /\ sent \in [Member -> Seq(Entry)]
         /\ log \in Seq(UpdateRecord)
         /\ ChatWindows(log, joins, {"join"}, Minute) /\ ChatWindows(log, joins, PostKind, Soon)
         /\ ChatWindows(log, joins, {"media"}, 0)
         /\ MemberWindows(log, sent) /\ FirstInv(log, joined, kept)
<1>1. log \in Seq(UpdateRecord) /\ Len(log) = 0
  BY EmptyWindow
<1>2. /\ \A c \in Chat : joins[c] = <<>>
      /\ \A u \in Member : sent[u] = <<>>
      /\ \A p \in Place : joined[p] = Never /\ \A a \in PostKind : kept[a][p] = Never
  OBVIOUS
<1>3. /\ joined \in [Place -> Int] /\ kept \in [PostKind -> [Place -> Int]]
      /\ joins \in [Chat -> Seq(Entry)] /\ sent \in [Member -> Seq(Entry)]
  <2>1. Never \in Int /\ <<>> \in Seq(Entry)
    BY DEF Never
  <2>2. joined \in [Place -> Int] /\ joins \in [Chat -> Seq(Entry)] /\ sent \in [Member -> Seq(Entry)]
    BY <2>1
  <2>3. kept \in [PostKind -> [Place -> Int]]
    BY <2>1
  <2> QED
    BY <2>2, <2>3
<1>4. /\ ChatWindows(log, joins, {"join"}, Minute) /\ ChatWindows(log, joins, PostKind, Soon)
      /\ ChatWindows(log, joins, {"media"}, 0) /\ MemberWindows(log, sent)
  <2>1. ASSUME NEW c \in Chat, NEW kinds, NEW span PROVE WindowOf(joins[c], log, InChat(log, kinds, c), span)
    <3>1. InChat(log, kinds, c) \in SUBSET (1..Len(log))
      BY <1>1, SetsInLog
    <3> QED
      BY <1>2, <3>1, EmptyWindows
  <2>2. ASSUME NEW u \in Member PROVE WindowOf(sent[u], log, OfMember(log, u), Minute)
    <3>1. OfMember(log, u) \in SUBSET (1..Len(log))
      BY <1>1, SetsInLog
    <3> QED
      BY <1>2, <3>1, EmptyWindows
  <2> QED
    BY <2>1, <2>2 DEF ChatWindows, MemberWindows
<1>5. FirstInv(log, joined, kept)
  <2>1. ASSUME NEW p \in Place PROVE AtPlace(log, {"join"}, p) = {}
    BY <1>1 DEF AtPlace
  <2> QED
    BY <1>2, <2>1 DEF FirstInv, FirstKept
<1> QED
  BY <1>1, <1>3, <1>4, <1>5

LEMMA WindowsStart ==
  /\ WindowsInit => WindowsInv
  /\ NewAdapter => WindowsInv'
<1>1. \A made : Covers(<<>>, made) /\ Distinct(<<>>, made)
  BY DEF Covers, Distinct
<1>2. ASSUME WindowsInit PROVE WindowsInv
  <2>1. PICK log, joins, sent, joined, kept :
          /\ log = updates /\ joins = chatJoins /\ sent = userMessages
          /\ joined = joinedAt /\ kept = first
    OBVIOUS
  <2>2. /\ log = <<>> /\ joins = [c \in Chat |-> <<>>] /\ sent = [u \in Member |-> <<>>]
        /\ joined = [p \in Place |-> Never]
        /\ kept = [a \in PostKind |-> [p \in Place |-> Never]]
        /\ chatMessages = joins /\ chatMedia = joins
    BY <1>2, <2>1 DEF WindowsInit
  <2>3. /\ joined \in [Place -> Int] /\ kept \in [PostKind -> [Place -> Int]]
        /\ joins \in [Chat -> Seq(Entry)] /\ sent \in [Member -> Seq(Entry)]
        /\ log \in Seq(UpdateRecord)
        /\ ChatWindows(log, joins, {"join"}, Minute) /\ ChatWindows(log, joins, PostKind, Soon)
         /\ ChatWindows(log, joins, {"media"}, 0)
        /\ MemberWindows(log, sent) /\ FirstInv(log, joined, kept)
    BY <2>2, StartsInv
  <2> QED
    BY <1>1, <2>1, <2>2, <2>3 DEF WindowsInv, WindowTypes
<1>3. ASSUME NewAdapter PROVE WindowsInv'
  <2>1. PICK log, joins, sent, joined, kept :
          /\ log = updates' /\ joins = chatJoins' /\ sent = userMessages'
          /\ joined = joinedAt' /\ kept = first'
    OBVIOUS
  <2>2. /\ log = <<>> /\ joins = [c \in Chat |-> <<>>] /\ sent = [u \in Member |-> <<>>]
        /\ joined = [p \in Place |-> Never]
        /\ kept = [a \in PostKind |-> [p \in Place |-> Never]]
        /\ chatMessages' = joins /\ chatMedia' = joins
    BY <1>3, <2>1 DEF NewAdapter
  <2>3. /\ joined \in [Place -> Int] /\ kept \in [PostKind -> [Place -> Int]]
        /\ joins \in [Chat -> Seq(Entry)] /\ sent \in [Member -> Seq(Entry)]
        /\ log \in Seq(UpdateRecord)
        /\ ChatWindows(log, joins, {"join"}, Minute) /\ ChatWindows(log, joins, PostKind, Soon)
         /\ ChatWindows(log, joins, {"media"}, 0)
        /\ MemberWindows(log, sent) /\ FirstInv(log, joined, kept)
    BY <2>2, StartsInv
  <2> QED
    BY <1>1, <2>1, <2>2, <2>3 DEF WindowsInv, WindowTypes
<1> QED
  BY <1>2, <1>3

\* What the invariant says is what the property says.
LEMMA InvIsTrue == WindowsInv => WindowsAreTrue
<1> SUFFICES ASSUME WindowsInv PROVE WindowsAreTrue
  OBVIOUS
<1>1. PICK log, made : log = updates /\ made = event
  OBVIOUS
<1>2. log \in Seq(UpdateRecord) /\ Covers(log, made) /\ Distinct(log, made)
  BY <1>1 DEF WindowsInv, WindowTypes
<1>3. DOMAIN log = 1..Len(log) /\ Last = log[Len(log)]
  BY <1>1, <1>2 DEF Last
<1>4. (Newest <=> LastIsNewest(log)) /\ (Ordered <=> InOrder(log))
  BY <1>1, <1>3 DEF Newest, Ordered, LastIsNewest, InOrder
<1>5. {i \in Within({"join"}, Minute) : updates[i].chat = Last.chat}
        = Since(log, InChat(log, {"join"}, Last.chat), Last.at - Minute)
  BY <1>1, <1>3 DEF Within, Since, InChat
<1>6. {i \in Within(PostKind, Minute) : updates[i].who = Last.who}
        = Since(log, OfMember(log, Last.who), Last.at - Minute)
  BY <1>1, <1>3 DEF Within, Since, OfMember
<1>7. {j \in Within(PostKind, Soon) : updates[j].chat = Last.chat}
        = Since(log, InChat(log, PostKind, Last.chat), Last.at - Soon)
  BY <1>1, <1>3 DEF Within, Since, InChat
<1>8. {updates[i].who : i \in {j \in Within(PostKind, Soon) : updates[j].chat = Last.chat}}
        = Senders(log, Since(log, InChat(log, PostKind, Last.chat), Last.at - Soon))
  BY <1>1, <1>7 DEF Senders
<1>9. CountsCover
  BY <1>1, <1>2, <1>3, <1>4, <1>5, <1>6, <1>8 DEF CountsCover, Covers
<1>10. PeersAreDistinct
  <2>1. ASSUME NEW kinds
        PROVE  {updates[i].who : i \in {j \in DOMAIN updates : updates[j].kind \in kinds
                                                              /\ updates[j].chat = Last.chat}}
                 = Senders(log, InChat(log, kinds, Last.chat))
    BY <1>1, <1>3 DEF Senders, InChat
  <2> QED
    BY <1>1, <1>2, <1>3, <2>1 DEF PeersAreDistinct, Distinct
<1>11. FirstActionIsFirst
  <2> SUFFICES ASSUME NEW p \in Place, NEW a \in PostKind
               PROVE  LET of(kinds) == {i \in DOMAIN updates : <<updates[i].who, updates[i].chat>> = p
                                                                 /\ updates[i].kind \in kinds}
                          posts == {i \in of({"media"} \cup {a}) : \A j \in of({"join"}) : j < i}
                      IN IF of({"join"}) = {} \/ posts = {} THEN first[a][p] = Never
                         ELSE LET i == CHOOSE i \in posts : \A j \in posts : i <= j
                              IN first[a][p] = Latency(p, updates[i].at)
    BY DEF FirstActionIsFirst
  <2> DEFINE of(kinds) == {i \in DOMAIN updates : <<updates[i].who, updates[i].chat>> = p
                                                    /\ updates[i].kind \in kinds}
             posts == {i \in of({"media"} \cup {a}) : \A j \in of({"join"}) : j < i}
  <2>1. ASSUME NEW x, NEW y PROVE <<x, y>> = p <=> x = p[1] /\ y = p[2]
    BY DEF Place
  <2>2. ASSUME NEW kinds PROVE of(kinds) = AtPlace(log, kinds, p)
    BY <1>1, <1>3, <2>1 DEF AtPlace
  <2>3. posts = Posts(log, a, p)
    BY <2>2 DEF Posts
  <2>4. FirstKept(log, a, p, joinedAt[p], first[a][p])
    BY <1>1 DEF WindowsInv, FirstInv
  <2>5. of({"join"}) = AtPlace(log, {"join"}, p)
    BY <2>2
  <2> HIDE DEF of, posts
  <2>6. CASE of({"join"}) = {} \/ posts = {}
    <3>1. first[a][p] = Never
      BY <2>3, <2>4, <2>5, <2>6 DEF FirstKept
    <3> QED
      BY <2>6, <3>1 DEF of, posts
  <2>7. CASE ~ (of({"join"}) = {} \/ posts = {})
    <3>1. PICK i \in posts : /\ \A j \in posts : i <= j
                             /\ first[a][p] = LatencySince(joinedAt[p], log[i].at)
      BY <2>3, <2>4, <2>5, <2>7 DEF FirstKept
    <3>2. posts \subseteq Int
      BY <1>2, <2>3, SetsInLog DEF Posts
    <3>3. PICK k : k = CHOOSE l \in posts : \A j \in posts : l <= j
      OBVIOUS
    <3>4. k \in posts /\ \A j \in posts : k <= j
      BY <3>1, <3>3
    <3>5. k = i
      BY <3>1, <3>2, <3>4
    <3>6. first[a][p] = Latency(p, updates[k].at)
      BY <1>1, <3>1, <3>5 DEF Latency, LatencySince
    <3> QED
      BY <2>7, <3>3, <3>6 DEF of, posts
  <2> QED
    BY <2>6, <2>7
<1> QED
  BY <1>9, <1>10, <1>11 DEF WindowsAreTrue
(***************************************************************************)
(* What an update does to each window                                      *)
(***************************************************************************)
LEMMA RecordFacts ==
  ASSUME NEW e \in UpdateRecord
  PROVE  /\ e.kind \in UpdateKind /\ e.who \in Member /\ e.chat \in Chat
         /\ e.at \in Int /\ e.at \in Date
         /\ e.at - Minute \in Int /\ e.at - Soon \in Int /\ e.at - MediaSoon \in Int
         /\ e.at - Minute <= e.at - Soon /\ e.at - Minute <= e.at - 0 /\ e.at - MediaSoon <= e.at - 0
         /\ e.at - Minute <= e.at - Minute /\ e.at - Soon <= e.at - Soon
         /\ Minute \in Nat /\ Soon \in Nat /\ 0 \in Nat
<1>1. e.kind \in UpdateKind /\ e.who \in Member /\ e.chat \in Chat /\ e.at \in Date
  BY DEF UpdateRecord
<1>2. PICK t \in Int : t = e.at
  BY <1>1, WindowsAssumption DEF Date
<1> QED
  BY <1>1, <1>2, WindowsAssumption

\* What a window becomes when an update is counted there.
EntryOf(e) == [at |-> e.at, by |-> e.who]
AfterJoins(W, e) ==
  [W EXCEPT ![e.chat] = Pruned(IF e.kind = "join" THEN Append(@, EntryOf(e)) ELSE @, e.at - Minute)]
AfterPosts(W, e, soon, from) ==
  [W EXCEPT ![e.chat] = Pruned(Append(Pruned(W[e.chat], soon), EntryOf(e)), from)]
AfterCut(W, e, soon) == [W EXCEPT ![e.chat] = Pruned(W[e.chat], soon)]
AfterSent(W, e) == [W EXCEPT ![e.who] = Pruned(Append(@, EntryOf(e)), e.at - Minute)]

LEMMA ChatWindowStep ==
  ASSUME NEW log \in Seq(UpdateRecord), NEW e \in UpdateRecord,
         NEW W, NEW kinds, NEW span, ChatWindows(log, W, kinds, span),
         NEW after, \A d \in Chat \ {e.chat} : after[d] = W[d],
         WindowOf(after[e.chat], Append(log, e), InChat(Append(log, e), kinds, e.chat), span)
  PROVE  ChatWindows(Append(log, e), after, kinds, span)
<1>1. PICK new : new = Append(log, e)
  OBVIOUS
<1>2. ASSUME NEW d \in Chat PROVE WindowOf(after[d], new, InChat(new, kinds, d), span)
  <2>1. CASE d = e.chat
    BY <1>1, <2>1
  <2>2. CASE d # e.chat
    <3>1. InChat(new, kinds, d) = InChat(log, kinds, d) /\ after[d] = W[d]
      BY <1>1, <2>2, InChatGrown
    <3>2. PICK K \in SUBSET (1..Len(log)) : K = InChat(log, kinds, d)
      BY SetsInLog
    <3>3. WindowOf(W[d], log, K, span)
      BY <3>2 DEF ChatWindows
    <3>4. WindowOf(W[d], new, K, span)
      BY <1>1, <3>3, Carried
    <3> QED
      BY <3>1, <3>2, <3>4
  <2> QED
    BY <2>1, <2>2
<1> QED
  BY <1>1, <1>2 DEF ChatWindows

\* An update of another kind leaves a window as it was.
LEMMA ChatWindowSame ==
  ASSUME NEW log \in Seq(UpdateRecord), NEW e \in UpdateRecord, NEW new, new = Append(log, e),
         NEW W, NEW kinds, NEW span, ChatWindows(log, W, kinds, span), e.kind \notin kinds
  PROVE  ChatWindows(new, W, kinds, span)
<1> SUFFICES ASSUME NEW d \in Chat PROVE WindowOf(W[d], new, InChat(new, kinds, d), span)
  BY DEF ChatWindows
<1>1. InChat(new, kinds, d) = InChat(log, kinds, d)
  BY InChatGrown
<1>2. PICK K \in SUBSET (1..Len(log)) : K = InChat(log, kinds, d)
  BY SetsInLog
<1>3. WindowOf(W[d], log, K, span)
  BY <1>2 DEF ChatWindows
<1>4. WindowOf(W[d], new, K, span)
  BY <1>3, Carried
<1> QED
  BY <1>1, <1>2, <1>4

LEMMA JoinsStep ==
  ASSUME NEW log \in Seq(UpdateRecord), NEW e \in UpdateRecord,
         NEW joins \in [Chat -> Seq(Entry)], ChatWindows(log, joins, {"join"}, Minute)
  PROVE  /\ AfterJoins(joins, e) \in [Chat -> Seq(Entry)]
         /\ ChatWindows(Append(log, e), AfterJoins(joins, e), {"join"}, Minute)
         /\ Fresh(AfterJoins(joins, e)[e.chat], e.at - Minute)
<1> SUFFICES ASSUME NEW new, new = Append(log, e), NEW entry, entry = EntryOf(e),
                    NEW after, after = AfterJoins(joins, e)
             PROVE  /\ after \in [Chat -> Seq(Entry)] /\ ChatWindows(new, after, {"join"}, Minute)
                    /\ Fresh(after[e.chat], e.at - Minute)
  OBVIOUS
<1>1. PICK c \in Chat : c = e.chat
  BY RecordFacts
<1>2. PICK w \in Seq(Entry) : w = joins[c]
  OBVIOUS
<1>3. PICK M \in SUBSET (1..Len(log)) : M = InChat(log, {"join"}, c)
  BY SetsInLog
<1>4. WindowOf(w, log, M, Minute) /\ Minute \in Nat
  BY <1>1, <1>2, <1>3, RecordFacts DEF ChatWindows
<1>5. WindowOf(w, new, M, Minute)
  BY <1>4, Carried
<1>6. PICK from \in Int : from = e.at - Minute /\ from <= e.at - Minute
  BY RecordFacts
<1>7. PICK p : p = Pruned(IF e.kind = "join" THEN Append(w, entry) ELSE w, from)
  OBVIOUS
<1>8. after = [joins EXCEPT ![e.chat] = p]
  BY <1>1, <1>2, <1>6, <1>7 DEF AfterJoins
<1>9. p \in Seq(Entry) /\ WindowOf(p, new, InChat(new, {"join"}, c), Minute) /\ Fresh(p, from)
  <2>1. CASE e.kind = "join"
    <3>1. p = Pruned(Append(w, entry), from)
      BY <1>7, <2>1
    <3>2. p \in Seq(Entry) /\ WindowOf(p, new, M \cup {Len(log) + 1}, Minute) /\ Fresh(p, from)
      BY <1>4, <1>5, <1>6, <3>1, Recorded DEF EntryOf
    <3>3. InChat(new, {"join"}, c) = M \cup {Len(log) + 1}
      BY <1>1, <1>3, <2>1, InChatGrown
    <3> QED
      BY <3>2, <3>3
  <2>2. CASE e.kind # "join"
    <3>1. p = Pruned(w, from)
      BY <1>7, <2>2
    <3>2. p \in Seq(Entry) /\ WindowOf(p, new, M, Minute) /\ Fresh(p, from)
      BY <1>4, <1>6, <3>1, Passed
    <3>3. InChat(new, {"join"}, c) = M
      BY <1>1, <1>3, <2>2, InChatGrown
    <3> QED
      BY <3>2, <3>3
  <2> QED
    BY <2>1, <2>2
<1>10. /\ after \in [Chat -> Seq(Entry)] /\ after[c] = p
       /\ \A d \in Chat \ {c} : after[d] = joins[d]
  BY <1>1, <1>8, <1>9
<1>11. ChatWindows(new, after, {"join"}, Minute)
  BY <1>1, <1>9, <1>10, ChatWindowStep
<1> QED
  BY <1>1, <1>6, <1>9, <1>10, <1>11

\* A post is added to a chat's window, when it is of the kinds counted there, after those
\* before it are cut back.
LEMMA PostsStep ==
  ASSUME NEW log \in Seq(UpdateRecord), NEW e \in UpdateRecord,
         NEW W \in [Chat -> Seq(Entry)], NEW kinds, NEW span \in Nat, ChatWindows(log, W, kinds, span),
         e.kind \in kinds, NEW soon \in Int, NEW from \in Int, soon <= e.at - span, from <= e.at - span
  PROVE  /\ AfterPosts(W, e, soon, from) \in [Chat -> Seq(Entry)]
         /\ ChatWindows(Append(log, e), AfterPosts(W, e, soon, from), kinds, span)
         /\ Pruned(W[e.chat], soon) \in Seq(Entry) /\ Fresh(Pruned(W[e.chat], soon), soon)
         /\ WindowOf(Pruned(W[e.chat], soon), Append(log, e), InChat(log, kinds, e.chat), span)
<1> SUFFICES ASSUME NEW new, new = Append(log, e), NEW entry, entry = EntryOf(e),
                    NEW mates, mates = Pruned(W[e.chat], soon),
                    NEW after, after = AfterPosts(W, e, soon, from)
             PROVE  /\ after \in [Chat -> Seq(Entry)] /\ ChatWindows(new, after, kinds, span)
                    /\ mates \in Seq(Entry) /\ Fresh(mates, soon)
                    /\ WindowOf(mates, new, InChat(log, kinds, e.chat), span)
  OBVIOUS
<1>1. PICK c \in Chat : c = e.chat
  BY RecordFacts
<1>2. PICK w \in Seq(Entry) : w = W[c]
  OBVIOUS
<1>3. PICK M \in SUBSET (1..Len(log)) : M = InChat(log, kinds, c)
  BY SetsInLog
<1>4. WindowOf(w, log, M, span)
  BY <1>1, <1>2, <1>3 DEF ChatWindows
<1>5. mates = Pruned(w, soon)
  BY <1>1, <1>2
<1>6. mates \in Seq(Entry) /\ WindowOf(mates, new, M, span) /\ Fresh(mates, soon)
  BY <1>4, <1>5, Passed
<1>7. PICK p : p = Pruned(Append(mates, entry), from)
  OBVIOUS
<1>8. p \in Seq(Entry) /\ WindowOf(p, new, M \cup {Len(log) + 1}, span)
  BY <1>6, <1>7, Recorded DEF EntryOf
<1>9. InChat(new, kinds, c) = M \cup {Len(log) + 1}
  BY <1>1, <1>3, InChatGrown
<1>10. /\ after \in [Chat -> Seq(Entry)] /\ after[c] = p
       /\ \A d \in Chat \ {c} : after[d] = W[d]
  BY <1>1, <1>7, <1>8 DEF AfterPosts
<1>11. ChatWindows(new, after, kinds, span)
  BY <1>1, <1>8, <1>9, <1>10, ChatWindowStep
<1> QED
  BY <1>1, <1>3, <1>6, <1>10, <1>11

\* A post that is not of those kinds only cuts the window back.
LEMMA CutStep ==
  ASSUME NEW log \in Seq(UpdateRecord), NEW e \in UpdateRecord,
         NEW W \in [Chat -> Seq(Entry)], NEW kinds, NEW span \in Nat, ChatWindows(log, W, kinds, span),
         e.kind \notin kinds, NEW soon \in Int, soon <= e.at - span
  PROVE  /\ AfterCut(W, e, soon) \in [Chat -> Seq(Entry)]
         /\ ChatWindows(Append(log, e), AfterCut(W, e, soon), kinds, span)
         /\ Pruned(W[e.chat], soon) \in Seq(Entry)
         /\ WindowOf(Pruned(W[e.chat], soon), Append(log, e), InChat(log, kinds, e.chat), span)
<1> SUFFICES ASSUME NEW new, new = Append(log, e), NEW after, after = AfterCut(W, e, soon)
             PROVE  /\ after \in [Chat -> Seq(Entry)] /\ ChatWindows(new, after, kinds, span)
                    /\ Pruned(W[e.chat], soon) \in Seq(Entry)
                    /\ WindowOf(Pruned(W[e.chat], soon), new, InChat(log, kinds, e.chat), span)
  OBVIOUS
<1>1. PICK c \in Chat : c = e.chat
  BY RecordFacts
<1>2. PICK w \in Seq(Entry) : w = W[c]
  OBVIOUS
<1>3. PICK M \in SUBSET (1..Len(log)) : M = InChat(log, kinds, c)
  BY SetsInLog
<1>4. WindowOf(w, log, M, span)
  BY <1>1, <1>2, <1>3 DEF ChatWindows
<1>5. PICK p : p = Pruned(w, soon)
  OBVIOUS
<1>6. p \in Seq(Entry) /\ WindowOf(p, new, M, span)
  BY <1>4, <1>5, Passed
<1>7. InChat(new, kinds, c) = M
  BY <1>1, <1>3, InChatGrown
<1>8. after = [W EXCEPT ![e.chat] = p] /\ after[e.chat] = p
  BY <1>1, <1>2, <1>5 DEF AfterCut
<1>9. /\ after \in [Chat -> Seq(Entry)] /\ after[c] = p
      /\ \A d \in Chat \ {c} : after[d] = W[d]
  BY <1>1, <1>6, <1>8
<1>10. ChatWindows(new, after, kinds, span)
  BY <1>1, <1>6, <1>7, <1>9, ChatWindowStep
<1> QED
  BY <1>1, <1>2, <1>3, <1>5, <1>6, <1>9, <1>10

LEMMA SentStep ==
  ASSUME NEW log \in Seq(UpdateRecord), NEW e \in UpdateRecord,
         NEW W \in [Member -> Seq(Entry)], MemberWindows(log, W), e.kind \in PostKind
  PROVE  /\ AfterSent(W, e) \in [Member -> Seq(Entry)] /\ MemberWindows(Append(log, e), AfterSent(W, e))
         /\ Fresh(AfterSent(W, e)[e.who], e.at - Minute)
<1> SUFFICES ASSUME NEW new, new = Append(log, e), NEW entry, entry = EntryOf(e),
                    NEW after, after = AfterSent(W, e)
             PROVE  /\ after \in [Member -> Seq(Entry)] /\ MemberWindows(new, after)
                    /\ Fresh(after[e.who], e.at - Minute)
  OBVIOUS
<1>1. PICK c \in Member : c = e.who
  BY RecordFacts
<1>2. PICK w \in Seq(Entry) : w = W[c]
  OBVIOUS
<1>3. PICK M \in SUBSET (1..Len(log)) : M = OfMember(log, c)
  BY SetsInLog
<1>4. WindowOf(w, log, M, Minute) /\ Minute \in Nat
  BY <1>1, <1>2, <1>3, RecordFacts DEF MemberWindows
<1>5. WindowOf(w, new, M, Minute)
  BY <1>4, Carried
<1>6. PICK from \in Int : from = e.at - Minute /\ from <= e.at - Minute
  BY RecordFacts
<1>7. PICK p : p = Pruned(Append(w, entry), from)
  OBVIOUS
<1>8. p \in Seq(Entry) /\ WindowOf(p, new, M \cup {Len(log) + 1}, Minute) /\ Fresh(p, from)
  BY <1>4, <1>5, <1>6, <1>7, Recorded DEF EntryOf
<1>9. OfMember(new, c) = M \cup {Len(log) + 1}
  BY <1>1, <1>3, OfMemberGrown
<1>10. after = [W EXCEPT ![e.who] = p]
  BY <1>1, <1>2, <1>6, <1>7 DEF AfterSent
<1>11. /\ after \in [Member -> Seq(Entry)] /\ after[c] = p
       /\ \A d \in Member \ {c} : after[d] = W[d]
  BY <1>1, <1>8, <1>10
<1>12. ASSUME NEW d \in Member PROVE WindowOf(after[d], new, OfMember(new, d), Minute)
  <2>1. CASE d = c
    BY <1>8, <1>9, <1>11, <2>1
  <2>2. CASE d # c
    <3>1. OfMember(new, d) = OfMember(log, d) /\ after[d] = W[d]
      BY <1>1, <1>11, <2>2, OfMemberGrown
    <3>2. PICK K \in SUBSET (1..Len(log)) : K = OfMember(log, d)
      BY SetsInLog
    <3>3. WindowOf(W[d], log, K, Minute)
      BY <3>2 DEF MemberWindows
    <3>4. WindowOf(W[d], new, K, Minute)
      BY <3>3, Carried
    <3> QED
      BY <3>1, <3>2, <3>4
  <2> QED
    BY <2>1, <2>2
<1> QED
  BY <1>1, <1>6, <1>8, <1>11, <1>12 DEF MemberWindows

LEMMA SentSame ==
  ASSUME NEW log \in Seq(UpdateRecord), NEW e \in UpdateRecord, NEW new, new = Append(log, e),
         NEW W, MemberWindows(log, W), e.kind \notin PostKind
  PROVE  MemberWindows(new, W)
<1> SUFFICES ASSUME NEW d \in Member PROVE WindowOf(W[d], new, OfMember(new, d), Minute)
  BY DEF MemberWindows
<1>1. OfMember(new, d) = OfMember(log, d)
  BY OfMemberGrown
<1>2. PICK K \in SUBSET (1..Len(log)) : K = OfMember(log, d)
  BY SetsInLog
<1>3. WindowOf(W[d], log, K, Minute)
  BY <1>2 DEF MemberWindows
<1>4. WindowOf(W[d], new, K, Minute)
  BY <1>3, Carried
<1> QED
  BY <1>1, <1>2, <1>4
\* What an event says of the join window, of the member's own, and of those who posted
\* with him.
LEMMA JoinedCounted ==
  ASSUME NEW log \in Seq(UpdateRecord), NEW e \in UpdateRecord, NEW new, new = Append(log, e),
         NEW w \in Seq(Entry), NEW M \in SUBSET (1..Len(new)), WindowOf(w, new, M, Minute),
         Fresh(w, e.at - Minute)
  PROVE  /\ LastIsNewest(new) => Len(w) >= Cardinality(Since(new, M, e.at - Minute))
         /\ InOrder(new) => Len(w) = Cardinality(Since(new, M, e.at - Minute))
<1>1. new \in Seq(UpdateRecord) /\ Len(new) # 0 /\ new[Len(new)] = e
  BY GrownLog
<1>2. PICK from : from = e.at - Minute /\ from = new[Len(new)].at - Minute
  BY <1>1
<1>3. Minute \in Nat
  BY WindowsAssumption
<1>4. /\ LastIsNewest(new) => CountsAtLeast(new, w, Since(new, M, from))
      /\ InOrder(new) => CountsExactly(new, w, Since(new, M, from))
  BY <1>1, <1>2, <1>3, Counting
<1>5. Len(w) \in Nat /\ (InOrder(new) => Cardinality(Since(new, M, from)) = Len(w))
  BY <1>4 DEF CountsExactly
<1>6. LastIsNewest(new) => Cardinality(Since(new, M, from)) <= Len(w)
  BY <1>4 DEF CountsAtLeast
<1> QED
  BY <1>2, <1>5, <1>6

LEMMA NearCounted ==
  ASSUME NEW log \in Seq(UpdateRecord), NEW e \in UpdateRecord, NEW new, new = Append(log, e),
         NEW mates \in Seq(Entry), WindowOf(mates, new, InChat(log, PostKind, e.chat), Soon),
         Fresh(mates, e.at - Soon), NEW near,
         near = Cardinality(Senders(new, Since(new, InChat(new, PostKind, e.chat), e.at - Soon)) \ {e.who})
  PROVE  /\ LastIsNewest(new) => Peers(mates, e.who) >= near
         /\ InOrder(new) => Peers(mates, e.who) = near
<1>1. /\ new \in Seq(UpdateRecord) /\ Len(new) # 0 /\ new[Len(new)] = e
      /\ Len(new) = Len(log) + 1
  BY GrownLog
<1>2. PICK from : from = e.at - Soon /\ from = new[Len(new)].at - Soon
  BY <1>1
<1>3. PICK M : M = InChat(log, PostKind, e.chat) /\ M \in SUBSET (1..Len(log))
  BY SetsInLog
<1>4. M \in SUBSET (1..Len(new)) /\ Soon \in Nat
  BY <1>1, <1>3, WindowsAssumption
<1>5. PICK n : n = Len(log) + 1
  OBVIOUS
<1>6. PICK K : K = InChat(new, PostKind, e.chat) /\ (K = M \/ K = M \cup {n})
  BY <1>3, <1>5, InChatGrown
<1>7. Senders(new, Since(new, K, from)) \ {e.who} = Senders(new, Since(new, M, from)) \ {e.who}
  BY <1>1, <1>5, <1>6 DEF Senders, Since
<1>8. PICK others : others = Senders(new, Since(new, M, from)) \ {e.who} /\ near = Cardinality(others)
  BY <1>2, <1>6, <1>7
<1>9. /\ Peers(mates, e.who) \in Nat
      /\ LastIsNewest(new) => Cardinality(others) <= Peers(mates, e.who)
      /\ InOrder(new) => LastIsNewest(new) /\ Peers(mates, e.who) <= Cardinality(others)
  <2>1. WindowOf(mates, new, M, Soon) /\ Fresh(mates, from)
    BY <1>2, <1>3
  <2>2. PICK u, span : u = e.who /\ span = Soon
    OBVIOUS
  <2>3. span \in Nat /\ WindowOf(mates, new, M, span) /\ from = new[Len(new)].at - span
    BY <1>2, <1>4, <2>1, <2>2
  <2>4. /\ Peers(mates, u) \in Nat
        /\ LastIsNewest(new) => Others(new, Since(new, M, from), u) <= Peers(mates, u)
        /\ InOrder(new) => LastIsNewest(new) /\ Peers(mates, u) <= Others(new, Since(new, M, from), u)
    <3>1. new \in Seq(UpdateRecord) /\ Len(new) # 0 /\ M \in SUBSET (1..Len(new)) /\ Fresh(mates, from)
      BY <1>1, <1>4, <2>1
    <3>2. Peers(mates, u) \in Nat
      BY <2>3, <3>1, PeersCounted
    <3>3. ASSUME LastIsNewest(new) PROVE Others(new, Since(new, M, from), u) <= Peers(mates, u)
      BY <2>3, <3>1, <3>3, PeersCounted
    <3>4. ASSUME InOrder(new)
          PROVE  LastIsNewest(new) /\ Peers(mates, u) <= Others(new, Since(new, M, from), u)
      BY <2>3, <3>1, <3>4, PeersCounted
    <3> QED
      BY <3>2, <3>3, <3>4
  <2> QED
    BY <1>8, <2>2, <2>4 DEF Others
<1>10. IsFiniteSet(others)
  <2>1. Since(new, M, from) \in SUBSET (1..Len(new))
    BY <1>4 DEF Since
  <2>2. IsFiniteSet(Senders(new, Since(new, M, from)))
    BY <1>1, <2>1, FiniteSenders DEF Senders
  <2> QED
    BY <1>8, <2>2, FS_Subset
<1>11. near \in Nat
  BY <1>8, <1>10, FS_CardinalityType
<1> QED
  BY <1>8, <1>9, <1>11

LEMMA CoversMember ==
  ASSUME NEW log \in Seq(UpdateRecord), NEW e \in UpdateRecord, NEW new, new = Append(log, e),
         e.kind \notin PostKind, NEW w \in Seq(Entry),
         WindowOf(w, new, InChat(new, {"join"}, e.chat), Minute), Fresh(w, e.at - Minute),
         NEW made, made.joined = Len(w)
  PROVE  Covers(new, made)
<1>1. new \in Seq(UpdateRecord) /\ new[Len(new)] = e
  BY GrownLog
<1>2. PICK M : M = InChat(new, {"join"}, e.chat) /\ M \in SUBSET (1..Len(new))
  BY <1>1, SetsInLog
<1>3. /\ LastIsNewest(new) => Len(w) >= Cardinality(Since(new, M, e.at - Minute))
      /\ InOrder(new) => Len(w) = Cardinality(Since(new, M, e.at - Minute))
  BY <1>2, JoinedCounted
<1> HIDE DEF PostKind
<1> QED
  BY <1>1, <1>2, <1>3 DEF Covers

LEMMA CoversMessage ==
  ASSUME NEW log \in Seq(UpdateRecord), NEW e \in UpdateRecord, NEW new, new = Append(log, e),
         NEW w \in Seq(Entry),
         WindowOf(w, new, InChat(new, {"join"}, e.chat), Minute), Fresh(w, e.at - Minute),
         NEW s \in Seq(Entry),
         WindowOf(s, new, OfMember(new, e.who), Minute), Fresh(s, e.at - Minute),
         NEW mates \in Seq(Entry), WindowOf(mates, new, InChat(log, PostKind, e.chat), Soon),
         Fresh(mates, e.at - Soon),
         NEW made, made.joined = Len(w), made.messages = Len(s), made.peers = Peers(mates, e.who)
  PROVE  Covers(new, made)
<1>1. new \in Seq(UpdateRecord) /\ new[Len(new)] = e
  BY GrownLog
<1>2. PICK M : M = InChat(new, {"join"}, e.chat) /\ M \in SUBSET (1..Len(new))
  BY <1>1, SetsInLog
<1>3. /\ LastIsNewest(new) => Len(w) >= Cardinality(Since(new, M, e.at - Minute))
      /\ InOrder(new) => Len(w) = Cardinality(Since(new, M, e.at - Minute))
  BY <1>2, JoinedCounted
<1>4. PICK N : N = OfMember(new, e.who) /\ N \in SUBSET (1..Len(new))
  BY <1>1, SetsInLog
<1>5. /\ LastIsNewest(new) => Len(s) >= Cardinality(Since(new, N, e.at - Minute))
      /\ InOrder(new) => Len(s) = Cardinality(Since(new, N, e.at - Minute))
  BY <1>4, JoinedCounted
<1>6. PICK near :
        near = Cardinality(Senders(new, Since(new, InChat(new, PostKind, e.chat), e.at - Soon)) \ {e.who})
  OBVIOUS
<1>7. /\ LastIsNewest(new) => Peers(mates, e.who) >= near
      /\ InOrder(new) => Peers(mates, e.who) = near
  BY <1>6, NearCounted
<1> HIDE DEF PostKind
<1> QED
  BY <1>1, <1>2, <1>3, <1>4, <1>5, <1>6, <1>7 DEF Covers

\* An event that tells of no peers, or of those of a window.
LEMMA DistinctNone ==
  ASSUME NEW log \in Seq(UpdateRecord), NEW kinds, NEW c, NEW u
  PROVE  /\ Cardinality(Senders(log, InChat(log, kinds, c)) \ {u}) \in Nat
         /\ 0 <= Cardinality(Senders(log, InChat(log, kinds, c)) \ {u})
<1>1. PICK M \in SUBSET (1..Len(log)) : M = InChat(log, kinds, c)
  BY SetsInLog
<1>2. IsFiniteSet(Senders(log, M))
  BY FiniteSenders DEF Senders
<1>3. PICK others : others = Senders(log, M) \ {u}
  OBVIOUS
<1>4. Cardinality(others) \in Nat
  BY <1>2, <1>3, FS_Subset, FS_CardinalityType
<1> QED
  BY <1>1, <1>3, <1>4

LEMMA DistinctPeers ==
  ASSUME NEW log \in Seq(UpdateRecord), NEW e \in UpdateRecord, NEW new, new = Append(log, e),
         NEW w \in Seq(Entry), NEW kinds, NEW span,
         WindowOf(w, new, InChat(log, kinds, e.chat), span)
  PROVE  Peers(w, e.who) <= Cardinality(Senders(new, InChat(new, kinds, e.chat)) \ {e.who})
<1>1. new \in Seq(UpdateRecord)
  BY GrownLog
<1>2. PICK K \in SUBSET (1..Len(new)) : K = InChat(new, kinds, e.chat)
  BY <1>1, SetsInLog
<1>3. PICK M \in SUBSET K : M = InChat(log, kinds, e.chat)
  <2>1. InChat(log, kinds, e.chat) \subseteq InChat(new, kinds, e.chat)
    BY InChatGrown
  <2> QED
    BY <1>2, <2>1
<1>4. PICK others : others = Senders(new, K) \ {e.who}
  OBVIOUS
<1>5. Peers(w, e.who) <= Cardinality(others)
  BY <1>1, <1>3, <1>4, PeersBounded
<1> QED
  BY <1>2, <1>4, <1>5
\* What an update does to what is kept of first actions: a join at its place forgets them,
\* a post of the kind may be the first, and nothing else matters.
JoinedAfter(joined, e) == [joined EXCEPT ![<<e.who, e.chat>>] = e.at]
KeptAfterJoin(kept, e) == [a \in PostKind |-> [kept[a] EXCEPT ![<<e.who, e.chat>>] = Never]]
KeptAfterPost(kept, joined, e, kinds) ==
  LET q == <<e.who, e.chat>> IN
  [a \in PostKind |->
     IF a \in kinds /\ joined[q] # Never /\ kept[a][q] = Never
     THEN [kept[a] EXCEPT ![q] = LatencySince(joined[q], e.at)] ELSE kept[a]]

LEMMA FirstStepJoin ==
  ASSUME NEW log \in Seq(UpdateRecord), NEW e \in UpdateRecord,
         e.kind = "join", NEW joined \in [Place -> Int], NEW kept \in [PostKind -> [Place -> Int]],
         FirstInv(log, joined, kept)
  PROVE  /\ JoinedAfter(joined, e) \in [Place -> Int]
         /\ KeptAfterJoin(kept, e) \in [PostKind -> [Place -> Int]]
         /\ FirstInv(Append(log, e), JoinedAfter(joined, e), KeptAfterJoin(kept, e))
<1> SUFFICES ASSUME NEW new, new = Append(log, e), NEW joined2, joined2 = JoinedAfter(joined, e),
                    NEW kept2, kept2 = KeptAfterJoin(kept, e)
             PROVE  /\ joined2 \in [Place -> Int] /\ kept2 \in [PostKind -> [Place -> Int]]
                    /\ FirstInv(new, joined2, kept2)
  OBVIOUS
<1>0. PICK q : q = <<e.who, e.chat>>
  OBVIOUS
<1>1. q \in Place /\ q = <<e.who, e.chat>> /\ e.who = q[1] /\ e.chat = q[2]
  BY <1>0, RecordFacts DEF Place
<1>2. e.at \in Int /\ Never \in Int /\ e.at # Never
  BY RecordFacts DEF Date, Never
<1>3. joined2 \in [Place -> Int] /\ joined2[q] = e.at /\ \A p \in Place \ {q} : joined2[p] = joined[p]
  BY <1>1, <1>2 DEF JoinedAfter
<1>4. ASSUME NEW a \in PostKind
      PROVE  /\ kept2[a] \in [Place -> Int] /\ kept2[a][q] = Never
             /\ \A p \in Place \ {q} : kept2[a][p] = kept[a][p]
  <2>1. kept2[a] = [kept[a] EXCEPT ![q] = Never] /\ kept[a] \in [Place -> Int]
    BY <1>1 DEF KeptAfterJoin
  <2> QED
    BY <1>1, <1>2, <2>1
<1>5. kept2 \in [PostKind -> [Place -> Int]]
  <2>1. kept2 = [a \in PostKind |-> kept2[a]]
    BY DEF KeptAfterJoin
  <2> QED
    BY <1>4, <2>1
<1>6. ASSUME NEW p \in Place
      PROVE  /\ joined2[p] = Never <=> AtPlace(new, {"join"}, p) = {}
             /\ \A a \in PostKind : FirstKept(new, a, p, joined2[p], kept2[a][p])
  <2>1. CASE p = q
    <3>1. ASSUME NEW a \in PostKind
          PROVE  AtPlace(new, {"join"}, q) # {} /\ FirstKept(new, a, q, joined2[q], Never)
      BY <1>1, FirstAfterJoin
    <3>2. "message" \in PostKind
      BY DEF PostKind
    <3> QED
      BY <1>2, <1>3, <1>4, <2>1, <3>1, <3>2
  <2>2. CASE p # q
    <3>1. ~ (e.who = p[1] /\ e.chat = p[2])
      BY <1>1, <2>2 DEF Place
    <3>2. PICK j \in Int : j = joined[p] /\ j = joined2[p]
      BY <1>3, <2>2
    <3>3. ASSUME NEW a \in PostKind
          PROVE  /\ AtPlace(new, {"join"}, p) = AtPlace(log, {"join"}, p)
                 /\ FirstKept(new, a, p, j, kept2[a][p])
      <4>1. PICK v : v = kept[a][p] /\ v = kept2[a][p]
        BY <1>4, <2>2
      <4>2. FirstKept(log, a, p, j, v)
        BY <3>2, <4>1 DEF FirstInv
      <4>3. /\ AtPlace(new, {"join"}, p) = AtPlace(log, {"join"}, p)
            /\ FirstKept(new, a, p, j, v)
        BY <3>1, <4>2, FirstElsewhere
      <4> QED
        BY <4>1, <4>3
    <3>4. joined[p] = Never <=> AtPlace(log, {"join"}, p) = {}
      BY DEF FirstInv
    <3>5. "message" \in PostKind
      BY DEF PostKind
    <3> QED
      BY <3>2, <3>3, <3>4, <3>5
  <2> QED
    BY <2>1, <2>2
<1> QED
  BY <1>3, <1>5, <1>6 DEF FirstInv

LEMMA FirstStepOther ==
  ASSUME NEW log \in Seq(UpdateRecord), NEW e \in UpdateRecord, NEW new, new = Append(log, e),
         e.kind = "other", NEW joined, NEW kept, FirstInv(log, joined, kept)
  PROVE  FirstInv(new, joined, kept)
<1> SUFFICES ASSUME NEW p \in Place
             PROVE  /\ joined[p] = Never <=> AtPlace(new, {"join"}, p) = {}
                    /\ \A a \in PostKind : FirstKept(new, a, p, joined[p], kept[a][p])
  BY DEF FirstInv
<1>1. PICK j : j = joined[p]
  OBVIOUS
<1>2. ASSUME NEW a \in PostKind
      PROVE  /\ AtPlace(new, {"join"}, p) = AtPlace(log, {"join"}, p)
             /\ FirstKept(new, a, p, j, kept[a][p])
  <2>1. PICK v : v = kept[a][p] /\ FirstKept(log, a, p, j, v)
    BY <1>1 DEF FirstInv
  <2>2. e.kind \notin {"join", "media", a}
    BY DEF PostKind
  <2> QED
    BY <2>1, <2>2, FirstElsewhere
<1>3. "message" \in PostKind
  BY DEF PostKind
<1> QED
  BY <1>1, <1>2, <1>3 DEF FirstInv

LEMMA FirstStepPost ==
  ASSUME NEW log \in Seq(UpdateRecord), NEW e \in UpdateRecord,
         NEW kinds \in {{"message"}, PostKind}, e.kind = IF "media" \in kinds THEN "media" ELSE "message",
         NEW joined \in [Place -> Int], NEW kept \in [PostKind -> [Place -> Int]],
         FirstInv(log, joined, kept)
  PROVE  /\ KeptAfterPost(kept, joined, e, kinds) \in [PostKind -> [Place -> Int]]
         /\ FirstInv(Append(log, e), joined, KeptAfterPost(kept, joined, e, kinds))
<1> SUFFICES ASSUME NEW new, new = Append(log, e), NEW q, q = <<e.who, e.chat>>,
                    NEW kept2, kept2 = KeptAfterPost(kept, joined, e, kinds)
             PROVE  kept2 \in [PostKind -> [Place -> Int]] /\ FirstInv(new, joined, kept2)
  OBVIOUS
<1>1. q \in Place /\ e.who = q[1] /\ e.chat = q[2]
  BY RecordFacts DEF Place
<1>2. PICK latency \in Int : latency = LatencySince(joined[q], e.at)
  BY <1>1, RecordFacts DEF LatencySince
<1>3. ASSUME NEW a \in PostKind
      PROVE  /\ kept2[a] \in [Place -> Int]
             /\ kept2[a][q] = IF a \in kinds /\ joined[q] # Never /\ kept[a][q] = Never
                              THEN latency ELSE kept[a][q]
             /\ \A p \in Place \ {q} : kept2[a][p] = kept[a][p]
  <2>1. kept2[a] = IF a \in kinds /\ joined[q] # Never /\ kept[a][q] = Never
                   THEN [kept[a] EXCEPT ![q] = latency] ELSE kept[a]
    BY <1>2 DEF KeptAfterPost
  <2>2. kept[a] \in [Place -> Int]
    OBVIOUS
  <2> QED
    BY <1>1, <2>1, <2>2
<1>4. kept2 \in [PostKind -> [Place -> Int]]
  <2>1. kept2 = [a \in PostKind |-> kept2[a]]
    BY DEF KeptAfterPost
  <2> QED
    BY <1>3, <2>1
<1>5. \A a \in PostKind : a \in kinds <=> e.kind \in {"media"} \cup {a}
  BY DEF PostKind
<1>6. e.kind # "join" /\ "message" \in PostKind
  BY DEF PostKind
<1>7. ASSUME NEW p \in Place, NEW a \in PostKind
      PROVE  /\ AtPlace(new, {"join"}, p) = AtPlace(log, {"join"}, p)
             /\ FirstKept(new, a, p, joined[p], kept2[a][p])
  <2>1. PICK j \in Int : j = joined[p]
    OBVIOUS
  <2>2. PICK v \in Int : v = kept[a][p]
    OBVIOUS
  <2>3. FirstKept(log, a, p, j, v) /\ (j = Never <=> AtPlace(log, {"join"}, p) = {})
    BY <2>1, <2>2 DEF FirstInv
  <2>4. CASE p = q /\ a \in kinds
    <3>1. PICK after : after = AfterPost(j, v, e.at)
      OBVIOUS
    <3>2. e.kind \in {"media"} \cup {a} /\ e.who = p[1] /\ e.chat = p[2]
      BY <1>1, <1>5, <2>4
    <3>3. AtPlace(new, {"join"}, p) = AtPlace(log, {"join"}, p) /\ FirstKept(new, a, p, j, after)
      BY <2>3, <3>1, <3>2, FirstAtPost
    <3>4. kept2[a][p] = after
      BY <1>2, <1>3, <2>1, <2>2, <2>4, <3>1 DEF AfterPost
    <3> QED
      BY <2>1, <3>3, <3>4
  <2>5. CASE ~ (p = q /\ a \in kinds)
    <3>1. kept2[a][p] = v
      BY <1>1, <1>3, <2>2, <2>5
    <3>2. ~ (e.kind \in {"join", "media", a} /\ e.who = p[1] /\ e.chat = p[2])
      <4>1. CASE p # q
        BY <1>1, <4>1 DEF Place
      <4>2. CASE a \notin kinds
        BY <1>5, <1>6, <4>2
      <4> QED
        BY <2>5, <4>1, <4>2
    <3>3. AtPlace(new, {"join"}, p) = AtPlace(log, {"join"}, p) /\ FirstKept(new, a, p, j, v)
      BY <2>3, <3>2, FirstElsewhere
    <3> QED
      BY <2>1, <3>1, <3>3
  <2> QED
    BY <2>4, <2>5
<1>8. ASSUME NEW p \in Place PROVE joined[p] = Never <=> AtPlace(new, {"join"}, p) = {}
  BY <1>6, <1>7 DEF FirstInv
<1> QED
  BY <1>4, <1>7, <1>8 DEF FirstInv
(***************************************************************************)
(* Each action preserves the invariant                                     *)
(***************************************************************************)
LEMMA MemberPreserves ==
  ASSUME WindowsInv, NEW u \in Member, NEW c \in Chat, NEW t \in Date, NEW joins \in BOOLEAN,
         ParseChatMember(u, c, t, joins)
  PROVE  WindowsInv'
<1>1. PICK log, new, e, entry :
        /\ log = updates /\ new = updates' /\ entry = [at |-> t, by |-> u]
        /\ e = [kind |-> IF joins THEN "join" ELSE "other", who |-> u, chat |-> c, at |-> t]
  OBVIOUS
<1>2. /\ log \in Seq(UpdateRecord) /\ e \in UpdateRecord /\ new = Append(log, e)
      /\ e.kind = (IF joins THEN "join" ELSE "other") /\ e.who = u /\ e.chat = c /\ e.at = t
      /\ entry = [at |-> e.at, by |-> e.who] /\ e.kind \notin PostKind
  BY <1>1 DEF WindowsInv, WindowTypes, ParseChatMember, UpdateRecord, UpdateKind, PostKind
<1>3. new \in Seq(UpdateRecord) /\ new[Len(new)] = e
  BY <1>2, GrownLog
<1>4. PICK j1, j2 : j1 = chatJoins /\ j2 = chatJoins'
  OBVIOUS
<1>5. /\ j1 \in [Chat -> Seq(Entry)] /\ ChatWindows(log, j1, {"join"}, Minute)
      /\ j2 = AfterJoins(j1, e)
  <2>1. j1 \in [Chat -> Seq(Entry)] /\ ChatWindows(log, j1, {"join"}, Minute)
    BY <1>1, <1>4 DEF WindowsInv, WindowTypes
  <2>2. j2 = [j1 EXCEPT ![c] = Pruned(IF joins THEN Append(@, entry) ELSE @, t - Minute)]
    BY <1>1, <1>4 DEF ParseChatMember, RecordJoin
  <2> QED
    BY <1>2, <2>1, <2>2 DEF AfterJoins, EntryOf
<1>6. /\ j2 \in [Chat -> Seq(Entry)] /\ ChatWindows(new, j2, {"join"}, Minute)
      /\ Fresh(j2[e.chat], e.at - Minute)
  BY <1>2, <1>5, JoinsStep
<1>7. PICK m, d, s : m = chatMessages /\ d = chatMedia /\ s = userMessages
  OBVIOUS
<1>8. /\ m \in [Chat -> Seq(Entry)] /\ ChatWindows(log, m, PostKind, Soon) /\ chatMessages' = m
      /\ d \in [Chat -> Seq(Entry)] /\ ChatWindows(log, d, {"media"}, 0) /\ chatMedia' = d
      /\ s \in [Member -> Seq(Entry)] /\ MemberWindows(log, s) /\ userMessages' = s
  BY <1>1, <1>7 DEF WindowsInv, WindowTypes, ParseChatMember
<1>9. ChatWindows(new, m, PostKind, Soon)
  BY <1>2, <1>8, ChatWindowSame
<1>10. ChatWindows(new, d, {"media"}, 0)
  <2>1. e.kind \notin {"media"}
    BY <1>2
  <2> QED
    BY <1>2, <1>8, <2>1, ChatWindowSame
<1>11. MemberWindows(new, s)
  BY <1>2, <1>8, SentSame
<1>12. PICK joined, kept, joined2, kept2 :
         joined = joinedAt /\ kept = first /\ joined2 = joinedAt' /\ kept2 = first'
  OBVIOUS
<1>13. joined2 \in [Place -> Int] /\ kept2 \in [PostKind -> [Place -> Int]] /\ FirstInv(new, joined2, kept2)
  <2>1. joined \in [Place -> Int] /\ kept \in [PostKind -> [Place -> Int]] /\ FirstInv(log, joined, kept)
    BY <1>1, <1>12 DEF WindowsInv, WindowTypes
  <2>2. CASE joins
    <3>1. joined2 = JoinedAfter(joined, e) /\ kept2 = KeptAfterJoin(kept, e)
      BY <1>2, <1>12, <2>2 DEF ParseChatMember, RecordJoin, JoinedAfter, KeptAfterJoin
    <3> QED
      BY <1>2, <2>1, <2>2, <3>1, FirstStepJoin
  <2>3. CASE ~ joins
    <3>1. joined2 = joined /\ kept2 = kept
      BY <1>12, <2>3 DEF ParseChatMember
    <3> QED
      BY <1>2, <2>1, <2>3, <3>1, FirstStepOther
  <2> QED
    BY <2>2, <2>3
<1>14. PICK made : made = event'
  OBVIOUS
<1>15. made.joined = Len(j2[e.chat]) /\ made.peers = 0 /\ made.mediaPeers = 0
  BY <1>2, <1>4, <1>14 DEF ParseChatMember, NoEvent
<1>16. Covers(new, made)
  <2>1. PICK w \in Seq(Entry) : w = j2[e.chat]
    BY <1>2, <1>6
  <2>2. WindowOf(w, new, InChat(new, {"join"}, e.chat), Minute)
    BY <1>2, <1>6, <2>1 DEF ChatWindows
  <2> QED
    BY <1>2, <1>6, <1>15, <2>1, <2>2, CoversMember
<1>17. Distinct(new, made)
  <2>1. /\ 0 <= Cardinality(Senders(new, InChat(new, PostKind, e.chat)) \ {e.who})
        /\ 0 <= Cardinality(Senders(new, InChat(new, {"media"}, e.chat)) \ {e.who})
    BY <1>3, DistinctNone
  <2> QED
    BY <1>3, <1>15, <2>1 DEF Distinct
<1> QED
  BY <1>1, <1>3, <1>4, <1>6, <1>8, <1>9, <1>10, <1>11, <1>12, <1>13, <1>14, <1>16, <1>17
     DEF WindowsInv, WindowTypes

LEMMA MessagePreserves ==
  ASSUME WindowsInv, NEW u \in Member, NEW c \in Chat, NEW t \in Date,
         NEW kinds \in {{"message"}, PostKind}, ParseMessage(u, c, t, kinds)
  PROVE  WindowsInv'
<1>1. PICK log, new, e, entry :
        /\ log = updates /\ new = updates' /\ entry = [at |-> t, by |-> u]
        /\ e = [kind |-> IF "media" \in kinds THEN "media" ELSE "message",
                who |-> u, chat |-> c, at |-> t]
  OBVIOUS
<1>2. /\ log \in Seq(UpdateRecord) /\ e \in UpdateRecord /\ new = Append(log, e)
      /\ e.kind = (IF "media" \in kinds THEN "media" ELSE "message")
      /\ e.who = u /\ e.chat = c /\ e.at = t
      /\ entry = [at |-> e.at, by |-> e.who] /\ e.kind \in PostKind /\ e.kind # "join"
  BY <1>1 DEF WindowsInv, WindowTypes, ParseMessage, UpdateRecord, UpdateKind, PostKind
<1>3. new \in Seq(UpdateRecord) /\ new[Len(new)] = e
  BY <1>2, GrownLog
<1>4. PICK j1, j2, m1, m2, d1, d2, s1, s2 :
        /\ j1 = chatJoins /\ j2 = chatJoins' /\ m1 = chatMessages /\ m2 = chatMessages'
        /\ d1 = chatMedia /\ d2 = chatMedia' /\ s1 = userMessages /\ s2 = userMessages'
  OBVIOUS
<1>5. /\ j1 \in [Chat -> Seq(Entry)] /\ ChatWindows(log, j1, {"join"}, Minute)
      /\ m1 \in [Chat -> Seq(Entry)] /\ ChatWindows(log, m1, PostKind, Soon)
      /\ d1 \in [Chat -> Seq(Entry)] /\ ChatWindows(log, d1, {"media"}, 0)
      /\ s1 \in [Member -> Seq(Entry)] /\ MemberWindows(log, s1)
  BY <1>1, <1>4 DEF WindowsInv, WindowTypes
<1>6. PICK mates, mediaMates : /\ mates = Pruned(m1[c], t - Soon)
                               /\ mediaMates = Pruned(d1[c], t - MediaSoon)
  OBVIOUS
<1>7. /\ j2 = [j1 EXCEPT ![c] = Pruned(@, t - Minute)]
      /\ m2 = [m1 EXCEPT ![c] = Pruned(Append(mates, entry), t - Minute)]
      /\ s2 = [s1 EXCEPT ![u] = Pruned(Append(@, entry), t - Minute)]
      /\ d2 = [d1 EXCEPT ![c] = IF "media" \in kinds THEN Pruned(Append(mediaMates, entry), t - Minute)
                                ELSE mediaMates]
  BY <1>1, <1>4, <1>6 DEF ParseMessage
<1>8. /\ j2 \in [Chat -> Seq(Entry)] /\ ChatWindows(new, j2, {"join"}, Minute)
      /\ Fresh(j2[e.chat], e.at - Minute)
  <2>1. j2 = AfterJoins(j1, e)
    BY <1>2, <1>7 DEF AfterJoins
  <2> QED
    BY <1>2, <1>5, <2>1, JoinsStep
<1>9. /\ e.at - Soon \in Int /\ e.at - Soon <= e.at - Soon /\ e.at - Minute \in Int
      /\ e.at - Minute <= e.at - Soon /\ Soon \in Nat /\ 0 \in Nat
      /\ e.at - Minute <= e.at - 0 /\ e.at - MediaSoon \in Int /\ e.at - MediaSoon <= e.at - 0
  BY <1>2, RecordFacts
<1>10. PICK soon \in Int, mediaSoon \in Int, from \in Int :
         soon = e.at - Soon /\ mediaSoon = e.at - MediaSoon /\ from = e.at - Minute
  BY <1>9
<1>11. /\ m2 \in [Chat -> Seq(Entry)] /\ ChatWindows(new, m2, PostKind, Soon)
       /\ mates \in Seq(Entry) /\ Fresh(mates, soon)
       /\ WindowOf(mates, new, InChat(log, PostKind, e.chat), Soon)
  <2>1. /\ mates = Pruned(m1[e.chat], soon)
        /\ m2 = AfterPosts(m1, e, soon, from)
    BY <1>2, <1>6, <1>7, <1>10 DEF AfterPosts, EntryOf
  <2>2. soon <= e.at - Soon /\ from <= e.at - Soon
    BY <1>9, <1>10
  <2> QED
    BY <1>2, <1>5, <1>9, <2>1, <2>2, PostsStep
<1>12. /\ d2 \in [Chat -> Seq(Entry)] /\ ChatWindows(new, d2, {"media"}, 0)
       /\ mediaMates \in Seq(Entry)
       /\ WindowOf(mediaMates, new, InChat(log, {"media"}, e.chat), 0)
  <2>1. mediaMates = Pruned(d1[e.chat], mediaSoon)
    BY <1>2, <1>6, <1>10
  <2>2. mediaSoon <= e.at - 0 /\ from <= e.at - 0
    BY <1>9, <1>10
  <2>3. CASE "media" \in kinds
    <3>1. d2 = AfterPosts(d1, e, mediaSoon, from)
      BY <1>2, <1>7, <1>10, <2>1, <2>3 DEF AfterPosts, EntryOf
    <3>2. e.kind \in {"media"}
      BY <1>2, <2>3
    <3> QED
      BY <1>2, <1>5, <1>9, <2>1, <2>2, <3>1, <3>2, PostsStep
  <2>4. CASE "media" \notin kinds
    <3>1. d2 = AfterCut(d1, e, mediaSoon)
      BY <1>2, <1>7, <2>1, <2>4 DEF AfterCut
    <3>2. e.kind \notin {"media"}
      BY <1>2, <2>4
    <3> QED
      BY <1>2, <1>5, <1>9, <2>1, <2>2, <3>1, <3>2, CutStep
  <2> QED
    BY <2>3, <2>4
<1>13. /\ s2 \in [Member -> Seq(Entry)] /\ MemberWindows(new, s2)
       /\ Fresh(s2[e.who], e.at - Minute)
  <2>1. s2 = AfterSent(s1, e)
    BY <1>2, <1>7 DEF AfterSent, EntryOf
  <2> QED
    BY <1>2, <1>5, <2>1, SentStep
<1>14. PICK joined, kept, kept2 : joined = joinedAt /\ kept = first /\ kept2 = first'
  OBVIOUS
<1>15. /\ joinedAt' = joined /\ joined \in [Place -> Int]
       /\ kept2 \in [PostKind -> [Place -> Int]] /\ FirstInv(new, joined, kept2)
  <2>1. /\ joined \in [Place -> Int] /\ kept \in [PostKind -> [Place -> Int]]
        /\ FirstInv(log, joined, kept) /\ joinedAt' = joined
    BY <1>1, <1>14 DEF WindowsInv, WindowTypes, ParseMessage
  <2>2. kept2 = KeptAfterPost(kept, joined, e, kinds)
    BY <1>2, <1>14 DEF ParseMessage, FirstAction, KeptAfterPost, Latency, LatencySince
  <2> QED
    BY <1>2, <2>1, <2>2, FirstStepPost
<1>16. PICK made : made = event'
  OBVIOUS
<1>17. \/ made = NoEvent
       \/ /\ made.joined = Len(j2[e.chat]) /\ made.messages = Len(s2[e.who])
          /\ made.peers = Peers(mates, e.who)
          /\ made.mediaPeers = IF "media" \in kinds THEN Peers(mediaMates, e.who) ELSE 0
  <2>1. made = NoEvent \/ \E signals : made = [
            joined |-> Len(j2[c]), hops |-> Cardinality(groups[u]), messages |-> Len(s2[u]),
            peers |-> Peers(mates, u), media |-> Len(userMedia'[u]),
            mediaPeers |-> IF "media" \in kinds THEN Peers(mediaMates, u) ELSE 0,
            burst |-> Burst(s2[u], MessageGap), signals |-> signals]
    BY <1>4, <1>6, <1>16 DEF ParseMessage, NoEvent
  <2> QED
    BY <1>2, <2>1
<1>18. PICK joinsHere \in Seq(Entry), sentHere \in Seq(Entry) :
         joinsHere = j2[e.chat] /\ sentHere = s2[e.who]
  BY <1>2, <1>8, <1>13
<1>19. /\ WindowOf(joinsHere, new, InChat(new, {"join"}, e.chat), Minute)
       /\ WindowOf(sentHere, new, OfMember(new, e.who), Minute)
  BY <1>2, <1>8, <1>13, <1>18 DEF ChatWindows, MemberWindows
<1>20. Covers(new, made)
  <2>1. CASE made = NoEvent
    BY <2>1 DEF Covers
  <2>2. CASE made # NoEvent
    <3>1. /\ made.joined = Len(joinsHere) /\ made.messages = Len(sentHere)
          /\ made.peers = Peers(mates, e.who)
      BY <1>17, <1>18, <2>2
    <3>2. /\ Fresh(joinsHere, e.at - Minute) /\ Fresh(sentHere, e.at - Minute)
          /\ Fresh(mates, e.at - Soon)
      BY <1>8, <1>10, <1>11, <1>13, <1>18
    <3> QED
      BY <1>2, <1>11, <1>19, <3>1, <3>2, CoversMessage
  <2> QED
    BY <2>1, <2>2
<1>21. Distinct(new, made)
  <2>1. Peers(mates, e.who) <= Cardinality(Senders(new, InChat(new, PostKind, e.chat)) \ {e.who})
    BY <1>2, <1>11, DistinctPeers
  <2>2. Peers(mediaMates, e.who) <= Cardinality(Senders(new, InChat(new, {"media"}, e.chat)) \ {e.who})
    BY <1>2, <1>12, DistinctPeers
  <2>3. /\ 0 <= Cardinality(Senders(new, InChat(new, PostKind, e.chat)) \ {e.who})
        /\ 0 <= Cardinality(Senders(new, InChat(new, {"media"}, e.chat)) \ {e.who})
    BY <1>3, DistinctNone
  <2>4. /\ made.peers = 0 \/ made.peers = Peers(mates, e.who)
        /\ made.mediaPeers = 0 \/ made.mediaPeers = Peers(mediaMates, e.who)
    BY <1>17 DEF NoEvent
  <2> QED
    BY <1>3, <2>1, <2>2, <2>3, <2>4 DEF Distinct
<1> QED
  BY <1>1, <1>3, <1>4, <1>8, <1>11, <1>12, <1>13, <1>14, <1>15, <1>16, <1>20, <1>21
     DEF WindowsInv, WindowTypes

\* What the windows of joins, of messages and of a member keep is all but what lies beyond
\* them; what is kept of a first action is that of the first post.
THEOREM WindowsInductive == WindowsSpec => []WindowsInv
<1>1. WindowsInit => WindowsInv
  BY WindowsStart
<1>2. WindowsInv /\ [WindowsNext]_windowsVars => WindowsInv'
  <2> SUFFICES ASSUME WindowsInv, [WindowsNext]_windowsVars PROVE WindowsInv'
    OBVIOUS
  <2>1. ASSUME ParseUpdate PROVE WindowsInv'
    BY <2>1, MemberPreserves, MessagePreserves DEF ParseUpdate
  <2>2. ASSUME NewAdapter PROVE WindowsInv'
    BY <2>2, WindowsStart
  <2>3. CASE UNCHANGED windowsVars
    BY <2>3 DEF windowsVars, WindowsInv, WindowTypes
  <2> QED
    BY <2>1, <2>2, <2>3 DEF WindowsNext
<1> QED
  BY <1>1, <1>2, PTL DEF WindowsSpec

\* What the community detectors of TelegramAdapter are told is what happened: _prune keeps
\* what parse_update is to count, however late and however often updates come.
THEOREM WindowsTrue == WindowsSpec => []WindowsAreTrue
<1>1. WindowsInv => WindowsAreTrue
  BY InvIsTrue
<1> QED
  BY <1>1, WindowsInductive, PTL

\* Entries of members S, with the dates Telegram gives.
Dated(S) == Seq([at : Date, by : S])

WindowsTyped ==
  /\ joinedAt \in [Place -> Date \cup {Never}]
  /\ first \in [PostKind -> [Place -> 0..MaxDate \cup {Never}]]
  /\ chatJoins \in [Chat -> Dated(Member)]
  /\ chatMessages \in [Chat -> Dated(Member)]
  /\ chatMedia \in [Chat -> Dated(Member)]
  /\ DOMAIN userMessages = Member /\ DOMAIN userMedia = Member
  /\ \A u \in Member : userMessages[u] \in Dated({u}) /\ userMedia[u] \in Dated({u})
  /\ groups \in [Member -> SUBSET Chat]
  /\ event.signals \subseteq CommunityReason

LEMMA DateIs == ASSUME NEW t \in Date PROVE t \in Int /\ 1 <= t /\ t <= MaxDate
BY WindowsAssumption DEF Date

LEMMA PrunedTyped ==
  ASSUME NEW S, NEW w \in Dated(S), NEW from
  PROVE  Pruned(w, from) \in Dated(S)
<1> DEFINE R == [at : Date, by : S]
           kept == {i \in DOMAIN w : w[i].at >= from}
<1>1. PICK n \in Nat : n = Len(w) /\ DOMAIN w = 1..n
  BY DEF Dated
<1>2. w \in Seq(R)
  BY DEF Dated
<1> HIDE DEF R
<1>3. CASE kept = {}
  BY <1>3 DEF Pruned, Dated
<1>4. CASE kept # {}
  <2>1. kept \subseteq 1..n /\ kept \subseteq Nat
    BY <1>1
  <2>2. \E i \in kept : \A j \in kept : i <= j
    BY <1>4, <2>1, LeastOfNaturals
  <2>3. PICK m : m = CHOOSE i \in kept : \A j \in kept : i <= j
    OBVIOUS
  <2>4. m \in 1..n
    BY <2>1, <2>2, <2>3
  <2>5. Pruned(w, from) = SubSeq(w, m, n)
    BY <1>1, <1>4, <2>3 DEF Pruned
  <2>6. SubSeq(w, m, n) \in Seq(R)
    BY <1>1, <1>2, <2>4, SubSeqProperties
  <2> QED
    BY <2>5, <2>6 DEF Dated, R
<1> QED
  BY <1>3, <1>4

LEMMA AppendTyped ==
  ASSUME NEW S, NEW w \in Dated(S), NEW t \in Date, NEW u \in S
  PROVE  Append(w, [at |-> t, by |-> u]) \in Dated(S)
<1>1. [at |-> t, by |-> u] \in [at : Date, by : S]
  OBVIOUS
<1> QED
  BY <1>1 DEF Dated

LEMMA LatencyTyped ==
  ASSUME WindowsTyped, NEW p \in Place, NEW t \in Date, joinedAt[p] # Never
  PROVE  Latency(p, t) \in 0..MaxDate
<1>1. joinedAt[p] \in Date
  BY DEF WindowsTyped
<1>2. PICK j \in Date : j = joinedAt[p]
  BY <1>1
<1> QED
  BY <1>2, DateIs, WindowsAssumption DEF Latency

LEMMA DetectedTyped == \A e, latency : Detected(e, latency) \subseteq CommunityReason
BY DEF Detected

LEMMA EmptyTyped ==
  /\ [p \in Place |-> Never] \in [Place -> Date \cup {Never}]
  /\ [a \in PostKind |-> [p \in Place |-> Never]] \in [PostKind -> [Place -> 0..MaxDate \cup {Never}]]
  /\ \A S : <<>> \in Dated(S)
  /\ NoEvent.signals = {}
BY DEF Dated, NoEvent

LEMMA MemberTyped ==
  ASSUME WindowsTyped, NEW u \in Member, NEW c \in Chat, NEW t \in Date, NEW joins \in BOOLEAN,
         ParseChatMember(u, c, t, joins)
  PROVE  WindowsTyped'
<1>1. PICK e : /\ event' = [e EXCEPT !.signals = Detected(e, Never)]
               /\ e = [NoEvent EXCEPT !.joined = Len(chatJoins'[c]), !.hops = Cardinality(groups'[u])]
  BY DEF ParseChatMember
<1>2. "signals" \in DOMAIN e
  BY <1>1 DEF NoEvent
<1>3. event'.signals \subseteq CommunityReason
  BY <1>1, <1>2, DetectedTyped
<1>4. PICK w : chatJoins' = [chatJoins EXCEPT ![c] = Pruned(w, t - Minute)] /\ w \in Dated(Member)
  <2>1. chatJoins[c] \in Dated(Member)
    BY DEF WindowsTyped
  <2>2. Append(chatJoins[c], [at |-> t, by |-> u]) \in Dated(Member)
    BY <2>1, AppendTyped
  <2> QED
    BY <2>1, <2>2 DEF ParseChatMember, RecordJoin
<1>5. chatJoins' \in [Chat -> Dated(Member)]
  BY <1>4, PrunedTyped DEF WindowsTyped
<1>6. /\ joinedAt' \in [Place -> Date \cup {Never}]
      /\ first' \in [PostKind -> [Place -> 0..MaxDate \cup {Never}]]
      /\ groups' \in [Member -> SUBSET Chat]
  <2>1. CASE joins
    <3>1. RecordJoin(u, c, t)
      BY <2>1 DEF ParseChatMember
    <3>2. joinedAt' \in [Place -> Date \cup {Never}]
      BY <3>1 DEF RecordJoin, WindowsTyped
    <3>3. groups' \in [Member -> SUBSET Chat]
      BY <3>1 DEF RecordJoin, WindowsTyped
    <3>4. first' \in [PostKind -> [Place -> 0..MaxDate \cup {Never}]]
      BY <3>1 DEF RecordJoin, WindowsTyped
    <3> QED
      BY <3>2, <3>3, <3>4
  <2>2. CASE ~ joins
    BY <2>2 DEF ParseChatMember, WindowsTyped
  <2> QED
    BY <2>1, <2>2
<1> QED
  BY <1>3, <1>5, <1>6 DEF ParseChatMember, WindowsTyped

LEMMA MessageTyped ==
  ASSUME WindowsTyped, NEW u \in Member, NEW c \in Chat, NEW t \in Date,
         NEW kinds \in {{"message"}, PostKind}, ParseMessage(u, c, t, kinds)
  PROVE  WindowsTyped'
<1>1. event'.signals \subseteq CommunityReason
  <2> DEFINE mates == Pruned(chatMessages[c], t - Soon)
             mediaMates == Pruned(chatMedia[c], t - MediaSoon)
             e == [NoEvent EXCEPT
                     !.joined = Len(chatJoins'[c]),
                     !.hops = Cardinality(groups[u]),
                     !.messages = Len(userMessages'[u]),
                     !.burst = Burst(userMessages'[u], MessageGap),
                     !.peers = Peers(mates, u),
                     !.media = Len(userMedia'[u]),
                     !.mediaPeers = IF "media" \in kinds THEN Peers(mediaMates, u) ELSE 0]
  <2>1. \/ event' = [e EXCEPT !.signals = Detected(e, first'["message"][<<u, c>>])]
        \/ event' = NoEvent
    BY DEF ParseMessage
  <2>2. "signals" \in DOMAIN e
    BY DEF NoEvent
  <2> HIDE DEF e
  <2> QED
    BY <2>1, <2>2, DetectedTyped, EmptyTyped
<1>2. /\ chatJoins[c] \in Dated(Member) /\ chatMessages[c] \in Dated(Member)
      /\ chatMedia[c] \in Dated(Member)
      /\ userMessages[u] \in Dated({u}) /\ userMedia[u] \in Dated({u})
  BY DEF WindowsTyped
<1>3. PICK mates, mediaMates, mine, own :
        /\ mates = Pruned(chatMessages[c], t - Soon)
        /\ mediaMates = Pruned(chatMedia[c], t - MediaSoon)
        /\ mine = Append(mates, [at |-> t, by |-> u])
        /\ own = Append(mediaMates, [at |-> t, by |-> u])
  OBVIOUS
<1>4. /\ mates \in Dated(Member) /\ mediaMates \in Dated(Member)
      /\ mine \in Dated(Member) /\ own \in Dated(Member)
  BY <1>2, <1>3, PrunedTyped, AppendTyped
<1>5. chatJoins' \in [Chat -> Dated(Member)]
  BY <1>2, PrunedTyped DEF ParseMessage, WindowsTyped
<1>6. chatMessages' \in [Chat -> Dated(Member)]
  <2>1. chatMessages' = [chatMessages EXCEPT ![c] = Pruned(mine, t - Minute)]
    BY <1>3 DEF ParseMessage
  <2> QED
    BY <1>4, <2>1, PrunedTyped DEF WindowsTyped
<1>7. chatMedia' \in [Chat -> Dated(Member)]
  <2>1. \/ chatMedia' = [chatMedia EXCEPT ![c] = Pruned(own, t - Minute)]
        \/ chatMedia' = [chatMedia EXCEPT ![c] = mediaMates]
    BY <1>3 DEF ParseMessage
  <2>2. Pruned(own, t - Minute) \in Dated(Member)
    BY <1>4, PrunedTyped
  <2> QED
    BY <1>4, <2>1, <2>2 DEF WindowsTyped
<1>8. /\ DOMAIN userMessages' = Member
      /\ \A v \in Member : userMessages'[v] \in Dated({v})
  <2>1. Append(userMessages[u], [at |-> t, by |-> u]) \in Dated({u})
    BY <1>2, AppendTyped
  <2>2. Pruned(Append(userMessages[u], [at |-> t, by |-> u]), t - Minute) \in Dated({u})
    BY <2>1, PrunedTyped
  <2> QED
    BY <2>2 DEF ParseMessage, WindowsTyped
<1>9. /\ DOMAIN userMedia' = Member
      /\ \A v \in Member : userMedia'[v] \in Dated({v})
  <2>1. Append(userMedia[u], [at |-> t, by |-> u]) \in Dated({u})
    BY <1>2, AppendTyped
  <2>2. PICK w \in Dated({u}) : userMedia' = [userMedia EXCEPT ![u] = Pruned(w, t - Minute)]
    BY <1>2, <2>1 DEF ParseMessage
  <2>3. Pruned(w, t - Minute) \in Dated({u})
    BY PrunedTyped
  <2> QED
    BY <2>2, <2>3 DEF WindowsTyped
<1>10. first' \in [PostKind -> [Place -> 0..MaxDate \cup {Never}]]
  <2>1. FirstAction(<<u, c>>, t, kinds) /\ <<u, c>> \in Place
    BY DEF ParseMessage, Place
  <2>2. PICK p \in Place : p = <<u, c>>
    BY <2>1
  <2>3. \A a \in PostKind :
          LET was == first[a]
              l == Latency(p, t)
          IN  first'[a] = was \/ (joinedAt[p] # Never /\ first'[a] = [was EXCEPT ![p] = l])
    BY <2>1, <2>2 DEF FirstAction
  <2>4. \A a \in PostKind : first'[a] \in [Place -> 0..MaxDate \cup {Never}]
    <3> TAKE a \in PostKind
    <3>1. first[a] \in [Place -> 0..MaxDate \cup {Never}]
      BY DEF WindowsTyped
    <3>2. PICK was, l : /\ was = first[a] /\ l = Latency(p, t)
                        /\ first'[a] = was \/ (joinedAt[p] # Never /\ first'[a] = [was EXCEPT ![p] = l])
      BY <2>3
    <3>3. joinedAt[p] # Never => l \in 0..MaxDate
      BY <3>2, LatencyTyped
    <3> QED
      BY <3>1, <3>2, <3>3
  <2>5. first' = [a \in PostKind |-> first'[a]]
    BY <2>1 DEF FirstAction
  <2> QED
    BY <2>4, <2>5
<1> QED
  BY <1>1, <1>5, <1>6, <1>7, <1>8, <1>9, <1>10 DEF ParseMessage, WindowsTyped

\* The windows, times and groups of an adapter keep their types: a member's windows hold
\* his own entries alone, and a latency is within the dates.
THEOREM WindowsKeepTypes == WindowsSpec => []WindowsTypeOK
<1>2. WindowsInit => WindowsTyped
  BY EmptyTyped DEF WindowsInit, WindowsTyped
<1>3. WindowsTyped /\ [WindowsNext]_windowsVars => WindowsTyped'
  <2> SUFFICES ASSUME WindowsTyped, [WindowsNext]_windowsVars PROVE WindowsTyped'
    OBVIOUS
  <2>1. CASE NewAdapter
    BY <2>1, EmptyTyped DEF NewAdapter, WindowsTyped
  <2>2. CASE UNCHANGED windowsVars
    BY <2>2 DEF windowsVars, WindowsTyped
  <2> QED
    BY <2>1, <2>2, MemberTyped, MessageTyped DEF WindowsNext, ParseUpdate
<1>4. WindowsTyped => WindowsTypeOK
  BY DEF WindowsTyped, WindowsTypeOK, Dated
<1> QED
  BY <1>2, <1>3, <1>4, PTL DEF WindowsSpec

(***************************************************************************)
(* SafetyPolicy                                                            *)
(***************************************************************************)

SafetyInv == evidence \in Facts /\ assessed = Escalation(evidence)

\* What the policy's signals of a message are worth, and all the reasons and the score
\* of evaluate_telegram_safety_escalation.
SignalScores(f) == {SignalConfidence(f, r) : r \in PolicySignals(f)}
ReasonsOf(f) ==
  PolicySignals(f) \cup
    (IF f.provider >= 65 THEN {"new_account_high_risk_media_behavior"} ELSE {})
ScoreOf(f) == TopOf(SignalScores(f) \cup {f.provider})

\* g has everything against it that f has.
NoBetter(f, g) ==
  /\ f.latency # Absent => g.latency # Absent /\ g.latency <= f.latency
  /\ f.media <= g.media /\ f.burst <= g.burst /\ f.peers <= g.peers
  /\ f.groups <= g.groups /\ f.provider <= g.provider
  /\ f.young => g.young

LEMMA FactFields ==
  ASSUME NEW f \in Facts
  PROVE  /\ f.latency \in Nat \cup {Absent} /\ f.media \in Nat /\ f.burst \in Nat
         /\ f.peers \in Nat /\ f.groups \in Nat /\ f.young \in BOOLEAN
         /\ f.provider \in 0..100 \cup {Absent} /\ f.sure \in 0..100 \cup {Absent}
         /\ f.referenced \in BOOLEAN
  BY KnownAssumption DEF Facts

LEMMA TopOfIs ==
  ASSUME NEW S \in SUBSET ((0..100) \cup {Absent})
  PROVE  /\ TopOf(S) \in S \cup {0} /\ TopOf(S) \in 0..100
         /\ \A y \in S : TopOf(S) >= y
<1> DEFINE T == {n \in Nat : \A y \in S \cup {0} : n >= y}
<1>1. 100 \in T
  BY DEF Absent
<1>2. PICK k \in T : \A l \in T : k <= l
  BY <1>1, LeastOfNaturals
<1>3. k \in S \cup {0}
  <2> SUFFICES ASSUME k \notin S \cup {0} PROVE FALSE
    OBVIOUS
  <2>1. k - 1 \in Nat
    BY <1>2
  <2>2. \A y \in S \cup {0} : y \in Int /\ k >= y /\ k # y
    BY <1>2 DEF Absent
  <2>3. k - 1 \in T
    BY <2>1, <2>2
  <2> QED
    BY <1>2, <2>3
<1>4. \A y \in S \cup {0} : k >= y
  BY <1>2
<1>5. TopOf(S) \in S \cup {0} /\ \A y \in S \cup {0} : TopOf(S) >= y
  BY <1>3, <1>4 DEF TopOf
<1> HIDE DEF T
<1>6. PICK top : top = TopOf(S)
  OBVIOUS
<1>7. top \in S \cup {0} /\ top >= 0
  BY <1>5, <1>6
<1>8. top \in 0..100
  BY <1>7 DEF Absent
<1> QED
  BY <1>5, <1>6, <1>8

LEMMA SignalFacts ==
  ASSUME NEW f \in Facts
  PROVE  /\ PolicySignals(f) \subseteq SafetyReason
         /\ \A r \in SafetyReason : SignalConfidence(f, r) \in 72..90
         /\ SignalScores(f) \cup {f.provider} \subseteq (0..100) \cup {Absent}
         /\ ScoreOf(f) \in 0..100
         /\ ScoreOf(f) \in SignalScores(f) \cup {f.provider} \cup {0}
         /\ \A y \in SignalScores(f) \cup {f.provider} : ScoreOf(f) >= y
<1>1. PolicySignals(f) \subseteq SafetyReason
  BY DEF PolicySignals, SafetyReason
<1>2. \A r \in SafetyReason : SignalConfidence(f, r) \in 72..90
  BY FactFields DEF SignalConfidence, SafetyReason
<1>3. SignalScores(f) \subseteq 0..100
  BY <1>1, <1>2 DEF SignalScores
<1>4. SignalScores(f) \cup {f.provider} \subseteq (0..100) \cup {Absent}
  BY <1>3, FactFields
<1> QED
  BY <1>1, <1>2, <1>4, TopOfIs DEF ScoreOf

LEMMA WorthMore ==
  ASSUME NEW f \in Facts, NEW g \in Facts, NoBetter(f, g), NEW r \in PolicySignals(f)
  PROVE  r \in PolicySignals(g) /\ SignalConfidence(f, r) <= SignalConfidence(g, r)
<1>1. \A x \in SafetyReason : Holds(f, x) =>
        Holds(g, x) /\ SignalConfidence(f, x) <= SignalConfidence(g, x)
  BY FactFields DEF NoBetter, Holds, SignalConfidence, SafetyReason, Absent
<1>2. r \in PolicySignals(g)
  BY <1>1, FactFields DEF NoBetter, PolicySignals
<1>3. r \in SafetyReason
  BY SignalFacts
<1>4. CASE Holds(f, r)
  BY <1>1, <1>2, <1>3, <1>4
<1>5. CASE ~Holds(f, r)
  <2>1. r = "new_account_high_risk_media_behavior"
    BY <1>5 DEF PolicySignals
  <2> QED
    BY <1>2, <2>1 DEF SignalConfidence
<1> QED
  BY <1>4, <1>5

LEMMA ScoreGrows ==
  ASSUME NEW f \in Facts, NEW g \in Facts, NoBetter(f, g)
  PROVE  ScoreOf(f) <= ScoreOf(g)
<1>1. CASE ScoreOf(f) \in SignalScores(f)
  <2>1. PICK r \in PolicySignals(f) : ScoreOf(f) = SignalConfidence(f, r)
    BY <1>1 DEF SignalScores
  <2>2. SignalConfidence(g, r) \in SignalScores(g) /\ SignalConfidence(f, r) <= SignalConfidence(g, r)
    BY WorthMore DEF SignalScores
  <2>3. SignalConfidence(g, r) \in Int /\ ScoreOf(g) \in Int /\ ScoreOf(g) >= SignalConfidence(g, r)
    BY <2>2, SignalFacts
  <2> QED
    BY <2>1, <2>2, <2>3, SignalFacts
<1>2. CASE ScoreOf(f) = f.provider
  <2>1. f.provider \in Int /\ g.provider \in Int /\ f.provider <= g.provider
    BY FactFields DEF NoBetter, Absent
  <2>2. ScoreOf(g) \in Int /\ ScoreOf(g) >= g.provider
    BY SignalFacts
  <2> QED
    BY <1>2, <2>1, <2>2
<1>3. CASE ScoreOf(f) = 0
  BY <1>3, SignalFacts
<1> QED
  BY <1>1, <1>2, <1>3, SignalFacts

LEMMA ReasonsGrow ==
  ASSUME NEW f \in Facts, NEW g \in Facts, NoBetter(f, g)
  PROVE  /\ ReasonsOf(f) \subseteq ReasonsOf(g) /\ IsFiniteSet(ReasonsOf(g))
         /\ Cardinality(ReasonsOf(f)) \in Nat /\ Cardinality(ReasonsOf(g)) \in Nat
         /\ Cardinality(ReasonsOf(f)) <= Cardinality(ReasonsOf(g))
<1>1. IsFiniteSet(SafetyReason)
  <2>1. SafetyReason =
          ((({"instant_media_post_after_join"} \cup {"media_burst_pattern"})
             \cup {"coordinated_media_distribution_cluster"})
             \cup {"repeat_group_hopping_pattern"})
             \cup {"new_account_high_risk_media_behavior"}
    BY DEF SafetyReason
  <2> QED
    BY <2>1, FS_Singleton, FS_Union
<1>2. ReasonsOf(f) \subseteq ReasonsOf(g)
  BY WorthMore, FactFields DEF ReasonsOf, NoBetter, Absent
<1>3. ReasonsOf(g) \subseteq SafetyReason
  BY SignalFacts DEF ReasonsOf, SafetyReason
<1>4. IsFiniteSet(ReasonsOf(g)) /\ IsFiniteSet(ReasonsOf(f))
  BY <1>1, <1>2, <1>3, FS_Subset
<1> QED
  BY <1>2, <1>4, FS_Subset, FS_CardinalityType

\* evaluate_telegram_safety_escalation.
LEMMA EscalationIs ==
  ASSUME NEW f
  PROVE  Escalation(f) =
           IF ReasonsOf(f) = {}
           THEN [reasons |-> {}, score |-> 0, confidence |-> 0, label |-> "low", action |-> "none"]
           ELSE [reasons |-> ReasonsOf(f), score |-> ScoreOf(f),
                 confidence |-> Confidence(f, ReasonsOf(f)), label |-> RiskLabel(ScoreOf(f)),
                 action |-> RecommendedAction(f.provider, ScoreOf(f), Cardinality(ReasonsOf(f)))]
  BY DEF Escalation, ReasonsOf, ScoreOf, SignalScores

LEMMA ActionIs ==
  ASSUME NEW f
  PROVE  /\ Escalation(f).reasons = ReasonsOf(f)
         /\ ReasonsOf(f) = {} => Escalation(f).action = "none" /\ Escalation(f).label = "low"
         /\ ReasonsOf(f) # {} =>
              /\ Escalation(f).action =
                   RecommendedAction(f.provider, ScoreOf(f), Cardinality(ReasonsOf(f)))
              /\ Escalation(f).label = RiskLabel(ScoreOf(f))
              /\ Escalation(f).confidence = Confidence(f, ReasonsOf(f))
<1>1. CASE ReasonsOf(f) = {}
  BY <1>1, EscalationIs
<1>2. CASE ReasonsOf(f) # {}
  BY <1>2, EscalationIs
<1> QED
  BY <1>1, <1>2

LEMMA SevereAction ==
  ASSUME NEW f \in Facts, NEW g \in Facts, NoBetter(f, g)
  PROVE  LET was == Escalation(f).action is == Escalation(g).action IN
         /\ was = "mandatory_safety_escalation" => is = was
         /\ was = "restrict_sender" => is \in {was, "mandatory_safety_escalation"}
         /\ was # "none" => is # "none"
<1>1. ReasonsOf(f) # {} => ReasonsOf(g) # {}
  BY ReasonsGrow
<1>2. ReasonsOf(f) = {} => Escalation(f).action = "none"
  BY ActionIs
<1>3. CASE ReasonsOf(f) # {}
  <2> DEFINE n == Cardinality(ReasonsOf(f))
             m == Cardinality(ReasonsOf(g))
             s == ScoreOf(f)
             t == ScoreOf(g)
  <2>1. /\ Escalation(f).action = RecommendedAction(f.provider, s, n)
        /\ Escalation(g).action = RecommendedAction(g.provider, t, m)
    BY <1>1, <1>3, ActionIs
  <2>2. n \in Nat /\ m \in Nat /\ n <= m
    BY ReasonsGrow
  <2>3. s \in Int /\ t \in Int /\ s <= t
    BY ScoreGrows, SignalFacts
  <2>4. f.provider \in Int /\ g.provider \in Int /\ f.provider <= g.provider
    BY FactFields DEF NoBetter, Absent
  <2> HIDE DEF n, m, s, t
  <2> QED
    BY <2>1, <2>2, <2>3, <2>4 DEF RecommendedAction
<1> QED
  BY <1>2, <1>3

LEMMA SureOfSignals ==
  ASSUME NEW f \in Facts, NEW r \in PolicySignals(f), SignalConfidence(f, r) >= 80
  PROVE  Confidence(f, ReasonsOf(f)) >= 80
<1> DEFINE S == SignalScores(f) \cup {ProviderConfidence(f)}
           n == Cardinality(ReasonsOf(f))
<1>1. SignalConfidence(f, r) \in 72..90 /\ SignalConfidence(f, r) \in S
  BY SignalFacts DEF SignalScores
<1>2. SignalScores(f) \subseteq 0..100
  BY SignalFacts DEF SignalScores
<1>3. ProviderConfidence(f) \in 0..100
  BY FactFields DEF ProviderConfidence, Absent
<1>4. S \in SUBSET ((0..100) \cup {Absent})
  BY <1>2, <1>3
<1>5. TopOf(S) \in 0..100 /\ TopOf(S) >= SignalConfidence(f, r)
  BY <1>1, <1>4, TopOfIs
<1>6. NoBetter(f, f)
  BY FactFields DEF NoBetter, Absent
<1>7. n \in Nat /\ IsFiniteSet(ReasonsOf(f))
  BY <1>6, ReasonsGrow
<1>8. r \in ReasonsOf(f)
  BY DEF ReasonsOf
<1>9. n # 0
  BY <1>7, <1>8, FS_EmptySet
<1>10. Confidence(f, ReasonsOf(f)) =
         LET bonus == IF f.referenced THEN 4 * (n - 1) ELSE 0
             sum == TopOf(S) + (IF bonus > 12 THEN 12 ELSE bonus)
         IN IF sum > 100 THEN 100 ELSE sum
  BY DEF Confidence, Strongest, Bonus, SignalScores
<1> HIDE DEF S, n
<1> QED
  BY <1>1, <1>5, <1>7, <1>9, <1>10

LEMMA LabelFits ==
  ASSUME NEW f \in Facts, SafetyInv, f = evidence PROVE LabelFitsAction
<1> DEFINE n == Cardinality(ReasonsOf(f))
           s == ScoreOf(f)
<1>1. assessed = Escalation(f)
  BY DEF SafetyInv
<1>2. CASE ReasonsOf(f) = {}
  BY <1>1, <1>2, ActionIs DEF LabelFitsAction
<1>3. CASE ReasonsOf(f) # {}
  <2>1. /\ assessed.action = RecommendedAction(f.provider, s, n) /\ assessed.label = RiskLabel(s)
        /\ assessed.confidence = Confidence(f, ReasonsOf(f)) /\ assessed.reasons # {}
    BY <1>1, <1>3, ActionIs
  <2>2. /\ s \in 0..100 /\ f.provider \in Int /\ s >= f.provider
        /\ s \in SignalScores(f) \/ s = f.provider \/ s = 0
    BY SignalFacts, FactFields DEF Absent
  <2>3. s >= 80 => Confidence(f, ReasonsOf(f)) >= 80 \/ f.provider >= 80
    <3>1. CASE s >= 80 /\ s \in SignalScores(f)
      <4>1. PICK r \in PolicySignals(f) : s = SignalConfidence(f, r)
        BY <3>1 DEF SignalScores
      <4> QED
        BY <3>1, <4>1, SureOfSignals
    <3> QED
      BY <3>1, <2>2
  <2> HIDE DEF s, n
  <2>4. /\ assessed.label = "critical" => s >= 85
        /\ s >= 80 => assessed.label \in {"critical", "high"}
    BY <2>1, <2>2 DEF RiskLabel
  <2>5. /\ s >= 85 => assessed.action = "mandatory_safety_escalation"
        /\ assessed.action \in {"mandatory_safety_escalation", "restrict_sender"} => s >= 80
        /\ assessed.action # "none"
    BY <2>1, <2>2 DEF RecommendedAction
  <2> QED
    BY <2>1, <2>3, <2>4, <2>5 DEF LabelFitsAction
<1> QED
  BY <1>2, <1>3

LEMMA AssessStep ==
  ASSUME SafetyInv, Assess
  PROVE  SafetyInv' /\ NoBetter(evidence, evidence')
<1>a. PICK field \in DOMAIN Known : \E w \in Known[field] :
        /\ WorseThan(field, evidence[field], w)
        /\ evidence' = [evidence EXCEPT ![field] = w]
        /\ assessed' = Escalation(evidence')
  BY DEF Assess
<1>1. PICK w \in Known[field] :
        /\ WorseThan(field, evidence[field], w)
        /\ evidence' = [evidence EXCEPT ![field] = w]
        /\ assessed' = Escalation(evidence')
  BY <1>a
<1>2. evidence \in Facts /\ field \in {"latency", "media", "burst", "peers", "groups", "young", "provider"}
  BY KnownAssumption DEF SafetyInv
<1>3. evidence' \in Facts
  BY <1>1, <1>2 DEF Facts
<1>4. NoBetter(evidence, evidence')
  <2>1. \A x \in DOMAIN evidence \ {field} : evidence'[x] = evidence[x]
    BY <1>1
  <2>2. DOMAIN evidence = {"latency", "media", "burst", "peers", "groups", "young", "provider",
                           "sure", "referenced"}
    BY <1>2 DEF Facts
  <2>3. evidence'[field] = w
    BY <1>1, <1>2, <2>2
  <2> PICK f \in Facts : f = evidence
    BY <1>2
  <2> PICK g \in Facts : g = evidence'
    BY <1>3
  <2>4. \A x \in DOMAIN evidence \ {field} : g[x] = f[x]
    BY <2>1
  <2>5. WorseThan(field, f[field], g[field])
    BY <1>1, <2>3
  <2>6. CASE field = "latency"
    BY <2>2, <2>4, <2>5, <2>6, FactFields DEF NoBetter, WorseThan, Absent
  <2>7. CASE field = "young"
    BY <2>2, <2>4, <2>5, <2>7, FactFields DEF NoBetter, WorseThan, Absent
  <2>8. CASE field \notin {"latency", "young"}
    <3>1. g[field] > f[field]
      BY <2>5, <2>8 DEF WorseThan
    <3> QED
      BY <1>2, <2>2, <2>4, <2>8, <3>1, FactFields, SMTT(20) DEF NoBetter, Absent
  <2> QED
    BY <2>6, <2>7, <2>8
<1> QED
  BY <1>1, <1>3, <1>4 DEF SafetyInv

\* evaluate_telegram_safety_escalation, _recommended_action, risk_label_for_score: for any
\* values of the features and of a provider's risk, one thing more against a sender lets
\* nobody off who was to be restricted or escalated, and label, action and confidence fit.
THEOREM EscalationsFit == SafetySpec => EscalationFits
<1>1. SafetyInit => SafetyInv
  BY DEF SafetyInit, SafetyInv
<1>2. SafetyInv /\ [Assess]_safetyVars => SafetyInv'
  BY AssessStep DEF SafetyInv, safetyVars
<1>3. SafetyInv => LabelFitsAction
  BY LabelFits DEF SafetyInv
<1>4. SafetyInv /\ SafetyInv' /\ [Assess]_safetyVars =>
        [LET was == assessed.action is == assessed'.action IN
         /\ was = "mandatory_safety_escalation" => is = was
         /\ was = "restrict_sender" => is \in {was, "mandatory_safety_escalation"}
         /\ was # "none" => is # "none"]_safetyVars
  <2> SUFFICES ASSUME SafetyInv, SafetyInv', Assess
               PROVE  LET was == assessed.action is == assessed'.action IN
                      /\ was = "mandatory_safety_escalation" => is = was
                      /\ was = "restrict_sender" => is \in {was, "mandatory_safety_escalation"}
                      /\ was # "none" => is # "none"
    BY DEF safetyVars
  <2>1. evidence \in Facts /\ evidence' \in Facts /\ NoBetter(evidence, evidence')
    BY AssessStep DEF SafetyInv
  <2>2. assessed = Escalation(evidence) /\ assessed' = Escalation(evidence')
    BY DEF SafetyInv
  <2> QED
    BY <2>1, <2>2, SevereAction
<1> QED
  BY <1>1, <1>2, <1>3, <1>4, PTL DEF SafetySpec, EscalationFits, SevereStays

\* _assessment_confidence stays within the percent, bonus and all.
LEMMA ConfidenceTyped ==
  ASSUME NEW f \in Facts, ReasonsOf(f) # {}
  PROVE  Confidence(f, ReasonsOf(f)) \in 0..100
<1> DEFINE S == SignalScores(f) \cup {ProviderConfidence(f)}
           n == Cardinality(ReasonsOf(f))
<1>1. SignalScores(f) \subseteq 0..100
  BY SignalFacts DEF SignalScores
<1>2. ProviderConfidence(f) \in 0..100
  BY FactFields DEF ProviderConfidence, Absent
<1>3. S \in SUBSET ((0..100) \cup {Absent})
  BY <1>1, <1>2
<1>4. TopOf(S) \in 0..100
  BY <1>3, TopOfIs
<1>5. NoBetter(f, f)
  BY FactFields DEF NoBetter, Absent
<1>6. n \in Nat /\ IsFiniteSet(ReasonsOf(f))
  BY <1>5, ReasonsGrow
<1>7. n # 0
  BY <1>6, FS_EmptySet
<1>8. Confidence(f, ReasonsOf(f)) =
         LET bonus == IF f.referenced THEN 4 * (n - 1) ELSE 0
             sum == TopOf(S) + (IF bonus > 12 THEN 12 ELSE bonus)
         IN IF sum > 100 THEN 100 ELSE sum
  BY DEF Confidence, Strongest, Bonus, SignalScores
<1> HIDE DEF S, n
<1>9. PICK top \in 0..100 : top = TopOf(S)
  BY <1>4
<1>10. PICK bonus \in Nat : bonus = IF f.referenced THEN 4 * (n - 1) ELSE 0
  BY <1>6, <1>7
<1> QED
  BY <1>8, <1>9, <1>10

LEMMA EscalationTyped ==
  ASSUME NEW f \in Facts
  PROVE  Escalation(f) \in [reasons : SUBSET SafetyReason, score : 0..100, confidence : 0..100,
                            label : SafetyLabel, action : SafetyAction]
<1>1. CASE ReasonsOf(f) = {}
  BY <1>1, EscalationIs DEF SafetyLabel, SafetyAction
<1>2. CASE ReasonsOf(f) # {}
  <2>1. PICK s \in 0..100, c \in 0..100 : s = ScoreOf(f) /\ c = Confidence(f, ReasonsOf(f))
    BY <1>2, ConfidenceTyped, SignalFacts
  <2>2. ReasonsOf(f) \in SUBSET SafetyReason
    BY SignalFacts DEF ReasonsOf, SafetyReason
  <2>3. PICK l \in SafetyLabel : l = RiskLabel(s)
    BY DEF RiskLabel, SafetyLabel
  <2>4. PICK a \in SafetyAction : a = RecommendedAction(f.provider, s, Cardinality(ReasonsOf(f)))
    BY DEF RecommendedAction, SafetyAction
  <2>5. Escalation(f) = [reasons |-> ReasonsOf(f), score |-> s, confidence |-> c, label |-> l,
                         action |-> a]
    BY <1>2, <2>1, <2>3, <2>4, EscalationIs
  <2> QED
    BY <2>1, <2>2, <2>5
<1> QED
  BY <1>1, <1>2

\* What the policy recommends is of its type: score and confidence stay within the percent.
THEOREM SafetyTyped == SafetySpec => []SafetyTypeOK
<1>1. SafetyInit => SafetyInv
  BY DEF SafetyInit, SafetyInv
<1>2. SafetyInv /\ [Assess]_safetyVars => SafetyInv'
  BY AssessStep DEF SafetyInv, safetyVars
<1>3. SafetyInv => SafetyTypeOK
  BY EscalationTyped DEF SafetyInv, SafetyTypeOK
<1> QED
  BY <1>1, <1>2, <1>3, PTL DEF SafetySpec
=============================================================================
