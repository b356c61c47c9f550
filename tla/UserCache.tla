------------------------------ MODULE UserCache ------------------------------
(***************************************************************************)
(* The user behind a dashboard token: _load_current_user_record,           *)
(* update_user and deactivate_user of api/auth.py.  The row is in the      *)
(* database, a copy of it for an hour in Redis; every request makes its    *)
(* own connection to Redis, and goes on without when there is none.  As    *)
(* if the line that auth.py lacks before 219, the head of                  *)
(* require_super_admin, were there: without it the module is not imported. *)
(***************************************************************************)
EXTENDS Integers

CONSTANTS
  Reader,     \* requests with the user's token
  MaxAge,     \* ticks a copy lives: the hour
  MaxChanges, \* bound on changes of the row
  MaxOutages  \* bound on outages of Redis

ASSUME CacheAssumption == MaxAge \in Nat /\ MaxChanges \in Nat /\ MaxOutages \in Nat

VARIABLES
  row,       \* users: whether the user is active, and the tenant he is of
  copy,      \* user_cache:<id>, or NoCopy
  age,       \* of the copy
  cacheUp,
  reading,   \* what each request holds: nothing, a miss, or the row
  granted,   \* history: the row each request was last let in with
  admin,     \* an update is in the database, its copy not yet deleted
  changes, outages,
  missed,    \* history: the copy of the last change could not be deleted
  overtaken  \* history: it was, while a request held an older row

userVars == <<row, copy, age, cacheUp, reading, granted, admin, changes, outages, missed,
              overtaken>>

Row == [active : BOOLEAN, tenant : {"own", "other"}]
NoCopy == [active |-> FALSE, tenant |-> "none"]
Away == [active |-> FALSE, tenant |-> "away"]
Miss == [active |-> FALSE, tenant |-> "miss"]

UserInit ==
  /\ row = [active |-> TRUE, tenant |-> "own"]
  /\ copy = NoCopy /\ age = 0 /\ cacheUp = TRUE
  /\ reading = [r \in Reader |-> Away]
  /\ granted = [r \in Reader |-> NoCopy]
  /\ admin = FALSE /\ changes = 0 /\ outages = 0
  /\ missed = FALSE /\ overtaken = FALSE

\* get_current_user: the token names the user's own tenant.
Grant(r, u) ==
  granted' = [granted EXCEPT ![r] = IF u.tenant = "own" THEN u ELSE NoCopy]

\* Mutant: a hit begins a new hour.
AgeOnHitRenewed == 0

\* A hit leaves the copy its hour.
AgeOnHit == age

\* A copy answers; without one, or without Redis, the database is asked.
ReadCopy(r) ==
  /\ reading[r] = Away
  /\ IF cacheUp /\ copy # NoCopy
     THEN Grant(r, copy) /\ age' = AgeOnHit /\ UNCHANGED reading
     ELSE reading' = [reading EXCEPT ![r] = Miss] /\ UNCHANGED <<granted, age>>
  /\ UNCHANGED <<row, copy, cacheUp, admin, changes, outages, missed, overtaken>>

\* The row is read; an inactive user is refused.
ReadRow(r) ==
  /\ reading[r] = Miss
  /\ IF row.active THEN reading' = [reading EXCEPT ![r] = row] /\ UNCHANGED granted
     ELSE /\ reading' = [reading EXCEPT ![r] = Away]
          /\ granted' = [granted EXCEPT ![r] = NoCopy]
  /\ UNCHANGED <<row, copy, age, cacheUp, admin, changes, outages, missed, overtaken>>

\* A copy of it is stored, if Redis answers.
StoreCopy(r) ==
  /\ reading[r] \in Row
  /\ IF cacheUp THEN copy' = reading[r] /\ age' = 0 ELSE UNCHANGED <<copy, age>>
  /\ Grant(r, reading[r])
  /\ reading' = [reading EXCEPT ![r] = Away]
  /\ UNCHANGED <<row, cacheUp, admin, changes, outages, missed, overtaken>>

\* update_user, deactivate_user: the row first, ...
ChangeRow ==
  /\ ~admin
  /\ changes < MaxChanges
  /\ \E new \in Row \ {row} : row' = new
  /\ changes' = changes + 1
  /\ admin' = TRUE
  /\ UNCHANGED <<copy, age, cacheUp, reading, granted, outages, missed, overtaken>>

\* ... then its copy, if Redis answers.
DeleteCopy ==
  /\ admin /\ admin' = FALSE
  /\ missed' = ~cacheUp
  /\ overtaken' = \E r \in Reader : reading[r] \in Row \ {row}
  /\ IF cacheUp THEN copy' = NoCopy /\ age' = 0 ELSE UNCHANGED <<copy, age>>
  /\ UNCHANGED <<row, cacheUp, reading, granted, changes, outages>>

\* Time passes, in Redis too; at the end of its hour a copy is gone.
Tick ==
  /\ copy # NoCopy
  /\ IF age < MaxAge THEN age' = age + 1 /\ UNCHANGED copy
                     ELSE age' = 0 /\ copy' = NoCopy
  /\ UNCHANGED <<row, cacheUp, reading, granted, admin, changes, outages, missed, overtaken>>

\* Redis goes away and comes back with what it had.
Outage ==
  /\ IF cacheUp THEN outages < MaxOutages /\ outages' = outages + 1 ELSE UNCHANGED outages
  /\ cacheUp' = ~cacheUp
  /\ UNCHANGED <<row, copy, age, reading, granted, admin, changes, missed, overtaken>>

Read(r) == ReadCopy(r) \/ ReadRow(r) \/ StoreCopy(r)

UserNext == (\E r \in Reader : Read(r)) \/ ChangeRow \/ DeleteCopy \/ Tick \/ Outage

\* Time passes, a request under way ends, and an update that has changed the row
\* goes on to the copy.
UserFairness ==
  /\ WF_userVars(Tick)
  /\ WF_userVars(DeleteCopy)
  /\ \A r \in Reader : WF_userVars(ReadRow(r) \/ StoreCopy(r))

UserSpec == UserInit /\ [][UserNext]_userVars /\ UserFairness

(***************************************************************************)
(* Properties                                                              *)
(***************************************************************************)
LetIn == {u \in Row : u.active}

UserTypeOK ==
  /\ row \in Row /\ copy \in LetIn \cup {NoCopy} /\ age \in 0..MaxAge
  /\ reading \in [Reader -> LetIn \cup {Away, Miss}]
  /\ granted \in [Reader -> LetIn \cup {NoCopy}]
  /\ cacheUp \in BOOLEAN /\ admin \in BOOLEAN
  /\ missed \in BOOLEAN /\ overtaken \in BOOLEAN
  /\ changes \in 0..MaxChanges /\ outages \in 0..MaxOutages

\* Once a change is done the copy is of the row as it is now, and so is whatever a
\* request is about to store: unless Redis could not be reached to delete the old
\* copy, or a request had read the row before the change and stores it after.
CopyIsOfTheRow ==
  ~admin /\ ~missed /\ ~overtaken =>
    /\ copy \in {row, NoCopy}
    /\ \A r \in Reader : reading[r] \in {row, Away, Miss}

\* auth.py: "Store in cache for 1 hour" (line 197).  A user who is deactivated, and stays so, is
\* in the end refused, however often he asks and whatever was under way when it
\* happened: no copy is left, and the row is asked.
DeactivatedIsRefused == <>[](~row.active) => <>[](copy = NoCopy)
=============================================================================
