---------------------------- MODULE TenantUpdates ----------------------------
(***************************************************************************)
(* Which tenant an update is for, with which bot its action is taken, and  *)
(* what is kept of it: the token tables and telegram_user_sessions of      *)
(* src/truepresence/adapters/telegram_bot.py.  Updates are coroutines of   *)
(* one process; one gives way where it waits for a thread or for the Bot   *)
(* API, and nowhere else.  What is decided of an update is TelegramGuard's *)
(* subject.                                                                *)
(***************************************************************************)
EXTENDS Integers

CONSTANTS
  Token,
  EnvToken,    \* TELEGRAM_BOT_TOKEN; there is no TELEGRAM_BOT_TOKEN_<tenant>
  Slot,        \* updates in hand at a time
  MaxUpdate,   \* bound on updates processed
  MaxChangesToRows  \* bound on tokens stored and outages of the database

ASSUME TokenAssumption ==
  /\ EnvToken \in Token
  /\ "no token" \notin Token /\ "ciphertext" \notin Token
ASSUME UpdateAssumption == MaxUpdate \in Nat /\ MaxChangesToRows \in Nat

VARIABLES
  tokenRows,      \* telegram_bot_tokens: the token and the key it is encrypted with
  keyInUse,       \* TRUEPRESENCE_ENCRYPTION_KEY
  plaintextAllowed, \* TRUEPRESENCE_ALLOW_PLAINTEXT_TELEGRAM_TOKENS, not in production
  rowsThere,      \* the database is
  sessionRow,     \* tenant -> the last update of a user, and whether it was acted on
  inHand,         \* the updates in hand
  processed,      \* updates processed, which numbers them
  storedTokens, away,   \* how often
  newestEnded     \* history: tenant -> the newest update that is done with

tenantVars == <<tokenRows, keyInUse, plaintextAllowed, rowsThere, sessionRow, inHand, processed,
                storedTokens, away, newestEnded>>

TenantId == {"default", "tenant"}
NoToken == "no token"
Ciphertext == "ciphertext"
EncryptionKey == {"old", "new"}
TokenRow == [token : Token, key : EncryptionKey \cup {"plain"}]
NoTokenRow == [token |-> NoToken, key |-> "plain"]
NoUpdate == [at |-> "none", n |-> 0, came |-> NoToken, tenant |-> "none", bot |-> NoToken,
             moved |-> FALSE, acts |-> FALSE]

\* A table from before tokens were encrypted may have one as it is.
TenantInit ==
  /\ tokenRows \in [TenantId -> {NoTokenRow} \cup [token : Token, key : {"plain"}]]
  /\ tokenRows["default"] = NoTokenRow
  /\ keyInUse = "old"
  /\ plaintextAllowed \in BOOLEAN
  /\ rowsThere = TRUE
  /\ sessionRow = [t \in TenantId |-> [n |-> 0, enforced |-> FALSE]]
  /\ inHand = [u \in Slot |-> NoUpdate]
  /\ processed = 0 /\ storedTokens = 0 /\ away = 0
  /\ newestEnded = [t \in TenantId |-> 0]

\* The updates that something has changed under, whose tenant's row it is.
Moved(tenants) ==
  [u \in Slot |-> IF inHand[u].came # NoToken /\ inHand[u].tenant \in tenants \cup {"none"}
                  THEN [inHand[u] EXCEPT !.moved = TRUE] ELSE inHand[u]]

\* POST /telegram/tokens
StoreBotToken ==
  /\ rowsThere
  /\ storedTokens + away < MaxChangesToRows
  /\ storedTokens' = storedTokens + 1
  /\ \E t \in TenantId, k \in Token :
       /\ tokenRows' = [tokenRows EXCEPT ![t] = [token |-> k, key |-> keyInUse]]
       /\ inHand' = Moved({t})
  /\ UNCHANGED <<keyInUse, plaintextAllowed, rowsThere, sessionRow, processed, away, newestEnded>>

\* decrypt_value, or else the stored value as it is: what is no plain token then is
\* none at all.
Decrypts(row) == row.key = keyInUse
AsStored(row) == IF row.key = "plain" THEN row.token ELSE Ciphertext
Candidate(row) == IF Decrypts(row) THEN row.token ELSE AsStored(row)

\* _resolve_tenant_from_token: a row that matches, in no order, or else the default
\* tenant, or 404.
ResolveTenant(u) ==
  LET came == inHand[u].came
      found == {t \in TenantId : rowsThere /\ tokenRows[t] # NoTokenRow
                                   /\ Candidate(tokenRows[t]) = came}
      tenants == IF found = {} /\ came = EnvToken THEN {"default"} ELSE found
  IN
  /\ inHand[u].at = "resolve"
  /\ IF tenants = {} THEN inHand' = [inHand EXCEPT ![u] = NoUpdate]
     ELSE \E t \in tenants :
            inHand' = [inHand EXCEPT ![u].at = "process", ![u].tenant = t]
  /\ UNCHANGED <<tokenRows, keyInUse, plaintextAllowed, rowsThere, sessionRow, processed,
                 storedTokens, away, newestEnded>>

\* The session as it is written when the update is done with.  Without the database
\* it goes to memory, where it is read only without the database.
EndUpdate(u, t, n, enforced) ==
  /\ sessionRow' = IF rowsThere
                   THEN [sessionRow EXCEPT ![t] = [n |-> n, enforced |-> enforced]]
                   ELSE sessionRow
  /\ newestEnded' = [newestEnded EXCEPT ![t] = IF n > @ THEN n ELSE @]
  /\ inHand' = [inHand EXCEPT ![u] = NoUpdate]

\* process_update: what asks for no action is done with at once.
Process(u, from) ==
  /\ processed < MaxUpdate /\ processed' = processed + 1
  /\ \/ EndUpdate(u, from.tenant, processed', FALSE)
     \/ /\ inHand' = [inHand EXCEPT ![u] =
               [from EXCEPT !.at = "token", !.n = processed', !.acts = TRUE]]
        /\ UNCHANGED <<sessionRow, newestEnded>>
  /\ UNCHANGED <<tokenRows, keyInUse, plaintextAllowed, rowsThere, storedTokens, away>>

\* POST /telegram/webhook names the tenant, ...
WebhookForTenant(u) ==
  /\ inHand[u].at = "none"
  /\ \E t \in TenantId : Process(u, [NoUpdate EXCEPT !.tenant = t])

\* ... POST /telegram/webhook/{bot_token} a bot.
WebhookByToken(u) ==
  /\ inHand[u].at = "none"
  /\ processed < MaxUpdate
  /\ \E k \in Token :
       inHand' = [inHand EXCEPT ![u] = [NoUpdate EXCEPT !.at = "resolve", !.came = k]]
  /\ UNCHANGED <<tokenRows, keyInUse, plaintextAllowed, rowsThere, sessionRow, processed,
                 storedTokens, away, newestEnded>>

ProcessUpdate(u) == inHand[u].at = "process" /\ Process(u, inHand[u])

\* Mutant: a token that cannot be decrypted is replaced by the environment's.
TokenForEnvironment(t) ==
  IF ~rowsThere \/ tokenRows[t] = NoTokenRow \/ ~Decrypts(tokenRows[t]) THEN EnvToken
  ELSE tokenRows[t].token

\* _resolve_token_sync, with one token in the environment for every tenant.
TokenFor(t) ==
  IF ~rowsThere \/ tokenRows[t] = NoTokenRow THEN EnvToken
  ELSE IF Decrypts(tokenRows[t]) THEN tokenRows[t].token
  ELSE IF plaintextAllowed THEN AsStored(tokenRows[t]) ELSE NoToken

\* _execute_action, as far as the token of the bot ...
ResolveBotToken(u) ==
  LET bot == TokenFor(inHand[u].tenant) IN
  /\ inHand[u].at = "token"
  /\ inHand' = [inHand EXCEPT ![u].at = IF bot = NoToken THEN "done" ELSE "post", ![u].bot = bot]
  /\ UNCHANGED <<tokenRows, keyInUse, plaintextAllowed, rowsThere, sessionRow, processed,
                 storedTokens, away, newestEnded>>

\* ... the Bot API, whatever it answers ...
PostAction(u) ==
  /\ inHand[u].at = "post"
  /\ inHand' = [inHand EXCEPT ![u].at = "done", ![u].bot = NoToken,
                               ![u].came = NoToken, ![u].moved = FALSE]
  /\ UNCHANGED <<tokenRows, keyInUse, plaintextAllowed, rowsThere, sessionRow, processed,
                 storedTokens, away, newestEnded>>

\* ... and the session.
FinishUpdate(u) ==
  /\ inHand[u].at = "done"
  /\ EndUpdate(u, inHand[u].tenant, inHand[u].n, inHand[u].acts)
  /\ UNCHANGED <<tokenRows, keyInUse, plaintextAllowed, rowsThere, processed, storedTokens, away>>

\* The service is started again, with another key.
RestartWithKey ==
  /\ keyInUse = "old" /\ keyInUse' = "new"
  /\ inHand' = [u \in Slot |-> NoUpdate]
  /\ UNCHANGED <<tokenRows, plaintextAllowed, rowsThere, sessionRow, processed, storedTokens,
                 away, newestEnded>>

RowsMove ==
  /\ IF rowsThere THEN storedTokens + away < MaxChangesToRows /\ away' = away + 1
     ELSE UNCHANGED away
  /\ rowsThere' = ~rowsThere
  /\ inHand' = Moved(TenantId)
  /\ UNCHANGED <<tokenRows, keyInUse, plaintextAllowed, sessionRow, processed, storedTokens,
                 newestEnded>>

TenantNext ==
  \/ StoreBotToken
  \/ \E u \in Slot : \/ WebhookForTenant(u) \/ WebhookByToken(u) \/ ResolveTenant(u)
                     \/ ProcessUpdate(u) \/ ResolveBotToken(u) \/ PostAction(u)
                     \/ FinishUpdate(u)
  \/ RestartWithKey
  \/ RowsMove

TenantSpec == TenantInit /\ [][TenantNext]_tenantVars

(***************************************************************************)
(* Properties                                                              *)
(***************************************************************************)
UpdateInHand ==
  [at : {"none", "resolve", "process", "token", "post", "done"}, n : 0..MaxUpdate,
   came : Token \cup {NoToken}, tenant : TenantId \cup {"none"},
   bot : Token \cup {NoToken, Ciphertext}, moved : BOOLEAN, acts : BOOLEAN]

TenantTypeOK ==
  /\ tokenRows \in [TenantId -> TokenRow \cup {NoTokenRow}]
  /\ keyInUse \in EncryptionKey
  /\ plaintextAllowed \in BOOLEAN /\ rowsThere \in BOOLEAN
  /\ sessionRow \in [TenantId -> [n : 0..MaxUpdate, enforced : BOOLEAN]]
  /\ inHand \in [Slot -> UpdateInHand]
  /\ processed \in 0..MaxUpdate
  /\ storedTokens \in 0..MaxChangesToRows /\ away \in 0..MaxChangesToRows
  /\ newestEnded \in [TenantId -> 0..processed]

\* _resolve_tenant_from_token and _resolve_token_sync agree: an update that came by a
\* bot's token is acted on as that bot, or not at all, unless the tables or the
\* database changed meanwhile.  The environment's token is the default tenant's even
\* when another is stored for it.
ActsAsItsBot ==
  \A u \in Slot : LET a == inHand[u] IN
    a.at = "post" /\ a.came # NoToken /\ ~a.moved =>
      a.bot = a.came \/ (a.tenant = "default" /\ a.came = EnvToken)

\* "refusing unsafe token fallback": what is stored encrypted is never sent as a token,
\* except where plain tokens are allowed.
CiphertextIsNoToken == \A u \in Slot : inHand[u].bot = Ciphertext => plaintextAllowed

\* telegram_user_sessions: the row has the last event of its user; while the database
\* stays, one that is older was written by an update that waited for the Bot API.
SessionIsOfTheLast ==
  away = 0 => \A t \in TenantId :
    sessionRow[t].n < newestEnded[t] => sessionRow[t].enforced

\* Bots that share the service and its tables do not act, or remember, for one another.
TenantsAreApart == ActsAsItsBot /\ CiphertextIsNoToken /\ SessionIsOfTheLast

(***************************************************************************)
(* The inductive invariant behind it.                                      *)
(***************************************************************************)
\* The tenant of an update that came by a token is the one the token is of.
OfItsBot(a) ==
  \/ a.tenant = "default" /\ a.came = EnvToken
  \/ rowsThere /\ tokenRows[a.tenant] # NoTokenRow /\ Candidate(tokenRows[a.tenant]) = a.came

HandInv(a) ==
  /\ a.n <= processed
  /\ a.at \in {"process", "token", "post", "done"} => a.tenant \in TenantId
  /\ a.at \in {"token", "post", "done"} => a.acts
  /\ a.at \in {"process", "token"} /\ a.came # NoToken /\ ~a.moved => OfItsBot(a)
  /\ a.at = "post" /\ a.came # NoToken /\ ~a.moved =>
       a.bot = a.came \/ (a.tenant = "default" /\ a.came = EnvToken)
  /\ a.bot = Ciphertext => plaintextAllowed

TenantInv ==
  /\ TenantTypeOK
  /\ away = 0 => rowsThere
  /\ \A u \in Slot : HandInv(inHand[u])
  /\ SessionIsOfTheLast
=============================================================================
