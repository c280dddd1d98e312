-------------------------- MODULE ProviderRateLimit --------------------------
(***************************************************************************)
(* MySQLProviderRateLimit.reserve of app/harness/mysql_rate_limit.py, for  *)
(* one provider of one namespace: the transaction in which a task of some  *)
(* worker takes a slot of the provider's minute.                           *)
(*                                                                         *)
(* The first statement locks the provider's row of worker_rate_config, so  *)
(* one transaction is open at a time and the others wait for it.  A task   *)
(* that is cancelled, or waits for more than five seconds, closes its      *)
(* connection; the server goes on with what it was sent until it notices.  *)
(***************************************************************************)
EXTENDS Naturals, FiniteSets

CONSTANTS Task,   \* model calls of all workers
          Rpm,    \* limits the workers are configured with
          Unset,  \* the row, or the value, is not there
          Window, \* sixty seconds
          MaxNow, MaxRows, \* bounds of the model: clock, rows that count
          NoTask

ASSUME RateAssumption == /\ Rpm \subseteq Nat
                         /\ Unset \notin Rpm
                         /\ Window \in Nat \ {0}
                         /\ NoTask \notin Task
                         /\ {MaxNow, MaxRows} \subseteq Nat

VARIABLES
    now,      \* the server's clock
    config,   \* committed row of worker_rate_config
    attempts, \* committed rows of worker_rate_attempts, [id, at]
    counted,  \* history: every row whose insertion was committed
    holder,   \* task whose transaction is open, or NoTask
    client,   \* "there", "gone", or "sent": gone with its COMMIT on the way
    staged,   \* config, purged rows and new rows as the transaction has them
    pc,       \* [Task -> Pc]
    asked     \* [Task -> Rpm \cup {Unset}], the argument rpm

rateVars == <<now, config, attempts, counted, holder, client, staged, pc, asked>>
table == <<config, attempts, counted>>
call  == <<pc, asked>>

Pc     == {"idle", "begin", "compare", "purge", "count", "insert", "commit"}
Row    == [id : 1 .. MaxRows, at : 0 .. MaxNow]
Nothing == [config |-> Unset, purged |-> {}, new |-> {}]

RateTypeOK ==
    /\ now \in 0 .. MaxNow
    /\ config \in Rpm \cup {Unset}
    /\ attempts \subseteq counted /\ counted \subseteq Row
    /\ holder \in Task \cup {NoTask}
    /\ client \in {"there", "gone", "sent"}
    /\ staged \in [config : Rpm \cup {Unset}, purged : SUBSET Row, new : SUBSET Row]
    /\ pc \in [Task -> Pc]
    /\ asked \in [Task -> Rpm \cup {Unset}]

RateInit ==
    /\ now = 0
    /\ config = Unset
    /\ attempts = {}
    /\ counted = {}
    /\ holder = NoTask
    /\ client = "there"
    /\ staged = Nothing
    /\ pc = [t \in Task |-> "idle"]
    /\ asked = [t \in Task |-> Unset]

-----------------------------------------------------------------------------
(* Helper state formulae *)

(* t's next statement of the open transaction.                             *)
At(t, where) == holder = t /\ client = "there" /\ pc[t] = where

Moves(t, where) == pc' = [pc EXCEPT ![t] = where] /\ UNCHANGED asked

(* reserve() returns or raises.                                            *)
Ends(t) ==
    /\ pc' = [pc EXCEPT ![t] = "idle"]
    /\ asked' = [asked EXCEPT ![t] = Unset]

(* An exception inside the transaction closes the connection: nothing was   *)
(* committed and the server rolls back at once or when it notices.         *)
Drops == client' = "gone" /\ UNCHANGED <<holder, staged>>

(* What COMMIT makes of the open transaction.                              *)
Commits ==
    /\ config' = staged.config
    /\ attempts' = (attempts \ staged.purged) \cup staged.new
    /\ counted' = counted \cup staged.new

Unlocks == holder' = NoTask /\ client' = "there" /\ staged' = Nothing

-----------------------------------------------------------------------------
(* reserve(provider, rpm): a connection, then START TRANSACTION.           *)
Reserve(t, r) ==
    /\ pc[t] = "idle"
    /\ pc' = [pc EXCEPT ![t] = "begin"]
    /\ asked' = [asked EXCEPT ![t] = r]
    /\ UNCHANGED <<now, table, holder, client, staged>>

(* INSERT ... ON DUPLICATE KEY UPDATE takes the row's lock and waits for   *)
(* whoever has it.                                                         *)
Lock(t) ==
    /\ pc[t] = "begin"
    /\ holder = NoTask
    /\ holder' = t
    /\ staged' = [Nothing EXCEPT !.config = IF config = Unset THEN asked[t] ELSE config]
    /\ Moves(t, "compare")
    /\ UNCHANGED <<now, table, client>>

(* Mutant: the limit of the caller replaces the one that is stored.        *)
CompareTrusts(t) ==
    /\ At(t, "compare")
    /\ staged' = [staged EXCEPT !.config = asked[t]]
    /\ Moves(t, IF asked[t] = 0 THEN "commit" ELSE "purge")
    /\ UNCHANGED <<now, table, holder, client>>

(* SELECT rpm ... FOR UPDATE: another limit ends the call; with no limit   *)
(* there is nothing to count.                                              *)
Compare(t) ==
    /\ At(t, "compare")
    /\ IF staged.config # asked[t]
         THEN Ends(t) /\ Drops
         ELSE /\ Moves(t, IF asked[t] = 0 THEN "commit" ELSE "purge")
              /\ UNCHANGED <<holder, client, staged>>
    /\ UNCHANGED <<now, table>>

(* Mutant: half a window is deleted with the old rows.                     *)
PurgeEarly(t) ==
    /\ At(t, "purge")
    /\ staged' = [staged EXCEPT !.purged = {a \in attempts : a.at + Window <= now + 1}]
    /\ Moves(t, "count")
    /\ UNCHANGED <<now, table, holder, client>>

(* DELETE the attempts that are sixty seconds old.                         *)
Purge(t) ==
    /\ At(t, "purge")
    /\ staged' = [staged EXCEPT !.purged = {a \in attempts : a.at + Window <= now}]
    /\ Moves(t, "count")
    /\ UNCHANGED <<now, table, holder, client>>

(* SELECT COUNT, the first read without a lock and so of the rows there    *)
(* are by now; QueryCapacityError when they are rpm or more.               *)
Count(t) ==
    /\ At(t, "count")
    /\ IF Cardinality(attempts \ staged.purged) >= asked[t]
         THEN Ends(t) /\ Drops
         ELSE Moves(t, "insert") /\ UNCHANGED <<holder, client, staged>>
    /\ UNCHANGED <<now, table>>

(* INSERT with the server's time; attempt_id is a new UUID, here a number   *)
(* that no row has.                                                        *)
Insert(t) ==
    /\ At(t, "insert")
    /\ Cardinality(counted) < MaxRows
    /\ staged' = [staged EXCEPT !.new = {[id |-> Cardinality(counted) + 1, at |-> now]}]
    /\ Moves(t, "commit")
    /\ UNCHANGED <<now, table, holder, client>>

(* COMMIT is confirmed.                                                    *)
Confirmed(t) ==
    /\ At(t, "commit")
    /\ Commits
    /\ Unlocks
    /\ Ends(t)
    /\ UNCHANGED now

(* The deadline, a cancellation or an error ends the call at any await.    *)
(* Its connection is closed; an open transaction stays with the server.    *)
Fails(t) ==
    /\ pc[t] # "idle"
    /\ Ends(t)
    /\ client' = CASE holder # t \/ client # "there" -> client
                   [] OTHER -> IF pc[t] = "commit" THEN "sent" ELSE "gone"
    /\ UNCHANGED <<now, table, holder, staged>>

(* The server notices the closed connection and rolls back, unless it had  *)
(* been sent the COMMIT, which it then may have executed.                  *)
ServerFinishes ==
    /\ client # "there"
    /\ Unlocks
    /\ UNCHANGED table \/ (client = "sent" /\ Commits)
    /\ UNCHANGED <<now, call>>

ClockTicks ==
    /\ now < MaxNow
    /\ now' = now + 1
    /\ UNCHANGED <<table, holder, client, staged, call>>

RateNext ==
    \/ \E t \in Task : \/ \E r \in Rpm : Reserve(t, r)
                       \/ Lock(t) \/ Compare(t) \/ Purge(t) \/ Count(t) \/ Insert(t)
                       \/ Confirmed(t) \/ Fails(t)
    \/ ServerFinishes \/ ClockTicks

RateSpec == RateInit /\ [][RateNext]_rateVars

-----------------------------------------------------------------------------
(* Properties *)

Promise == INSTANCE RateWindow WITH limit <- config, Id <- 1 .. MaxRows

(* reserve() keeps the promise of RateWindow: with deadlines, lost answers, *)
(* callers of another limit and rows deleted as they age, no rolling minute *)
(* of the server's clock holds more committed attempts than the limit.     *)
ImplementsWindow == Promise!WindowSpec
=============================================================================
