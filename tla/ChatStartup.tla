------------------------------ MODULE ChatStartup ------------------------------
(***************************************************************************)
(* main() up to the loop, and what outlives a crash: the MySQL database    *)
(* that CMysqlManager rebuilds at every start, and the Redis list that     *)
(* MsgCacheManager refills from it.  Every call to either server may fail; *)
(* main reports a failure and goes on.  The process may die at any step    *)
(* and be started again.                                                   *)
(***************************************************************************)
EXTENDS Naturals, Sequences

CONSTANTS Chats,      \* what clients say while the server runs
          MaxFaults,  \* bound: calls to MySQL or Redis that fail
          MaxStarts,  \* bound: starts of the process
          MaxList     \* bound: messages in the Redis list

ASSUME StartupAssumption == MaxFaults \in Nat /\ MaxStarts \in Nat /\ MaxList \in Nat

VARIABLES pc,          \* where main is; "down": no process
          db,          \* the database exists
          table,       \* t_user and t_chatmsg: "none", "empty" or "full"
          redis,       \* the list 414chatmsgs; a list without elements is no list
          m_allCachedUsers,
          stmt,        \* the next statement of Data.sql
          msgs,        \* the rows loadMsgFromDbAndStoreInRedis has read
          initOk,      \* CMysqlManager::init returned true
          answered,    \* MySQL gave MsgCacheManager its rows
          clean,       \* no call has failed since the start
          old,         \* the list at the start
          faults, starts

vars == <<pc, db, table, redis, m_allCachedUsers, stmt, msgs, initOk, answered, clean, old,
          faults, starts>>

Tables == {"t_user", "t_chatmsg"}

\* the rows Data.sql inserts: user ids, and the messages by their ids
DefaultUsers == <<1, 2>>
DefaultMsgs == <<"m1", "m2">>

(***************************************************************************)
(* Data.sql                                                                *)
(***************************************************************************)
Statement(what, t) == [what |-> what, table |-> t]

\* Fault: the tables are not dropped first.
ScriptKeepsTables ==
  <<Statement("create", "t_user"), Statement("create", "t_chatmsg"),
    Statement("insert", "t_user"), Statement("insert", "t_chatmsg")>>

Script ==
  <<Statement("drop", "t_user"), Statement("drop", "t_chatmsg"),
    Statement("create", "t_user"), Statement("create", "t_chatmsg"),
    Statement("insert", "t_user"), Statement("insert", "t_chatmsg")>>

\* a table that exists cannot be created; user ids are unique, message ids count up
Possible(s) ==
  \/ s.what = "drop"
  \/ s.what = "create" /\ table[s.table] = "none"
  \/ s.what = "insert" /\ table[s.table] = "empty"

After(s) == CASE s.what = "drop" -> "none" [] s.what = "create" -> "empty"
              [] s.what = "insert" -> "full"

Init ==
  /\ pc = "down"
  /\ db = FALSE
  /\ table = [t \in Tables |-> "none"]
  /\ redis = <<>>
  /\ m_allCachedUsers = <<>>
  /\ stmt = 1 /\ msgs = <<>>
  /\ initOk = FALSE /\ answered = FALSE /\ clean = TRUE
  /\ old = <<>>
  /\ faults = 0 /\ starts = 0

Works == UNCHANGED <<faults, clean>>

Fails == faults < MaxFaults /\ faults' = faults + 1 /\ clean' = FALSE

kept == <<db, table, redis>>
memory == <<m_allCachedUsers, stmt, msgs, initOk, answered>>

(***************************************************************************)
(* main                                                                    *)
(***************************************************************************)
Start ==
  /\ pc = "down" /\ starts < MaxStarts
  /\ pc' = "config"
  /\ starts' = starts + 1
  /\ m_allCachedUsers' = <<>> /\ stmt' = 1 /\ msgs' = <<>>
  /\ initOk' = FALSE /\ answered' = FALSE /\ clean' = TRUE
  /\ old' = redis
  /\ UNCHANGED <<kept, faults>>

\* no logfiledir in the configuration, or it cannot be made: main returns
ReadConfig ==
  /\ pc = "config"
  /\ \/ Works /\ pc' = "connect"
     \/ Fails /\ pc' = "down"
  /\ UNCHANGED <<kept, memory, old, starts>>

(***************************************************************************)
(* CMysqlManager::init.  When a step fails, main goes on with UserManager. *)
(***************************************************************************)
\* connects without a database
MysqlConnect ==
  /\ pc = "connect"
  /\ \/ Works /\ pc' = "isDBExist"
     \/ Fails /\ pc' = "loadUsers"
  /\ UNCHANGED <<kept, memory, old, starts>>

\* a query that fails counts as no database
isDBExist ==
  /\ pc = "isDBExist"
  /\ \/ Works /\ pc' = IF db THEN "reconnect" ELSE "createDB"
     \/ Fails /\ pc' = "createDB"
  /\ UNCHANGED <<kept, memory, old, starts>>

\* a database that exists is not created again; after the statement isDBExist
\* looks once more
createDB ==
  /\ pc = "createDB"
  /\ \/ Works /\ pc' = (IF db THEN "loadUsers" ELSE "reconnect") /\ db' = TRUE
     \/ Fails /\ pc' = "loadUsers" /\ db' \in {db, TRUE}
  /\ UNCHANGED <<table, redis, memory, old, starts>>

Reconnect ==
  /\ pc = "reconnect"
  /\ \/ db /\ Works /\ pc' = "initData"
     \/ Fails /\ pc' = "loadUsers"
  /\ UNCHANGED <<kept, memory, old, starts>>

(***************************************************************************)
(* CDatabaseMysql::execute: what it did and what it returned.  When the    *)
(* server was gone it connects again and repeats the statement, and        *)
(* returns false whether or not that worked.  (Connecting again uses the   *)
(* handle mysql_close has freed: it works or ends the process.)            *)
(***************************************************************************)
Result(done, ret) == [done |-> done, ret |-> ret]

\* Fault: true once the connection is back.
executeRetried(s) ==
  (IF Possible(s) THEN {Result(TRUE, TRUE)} ELSE {Result(FALSE, FALSE)})
  \cup {Result(d, TRUE) : d \in {FALSE, Possible(s)}}

execute(s) ==
  (IF Possible(s) THEN {Result(TRUE, TRUE)} ELSE {Result(FALSE, FALSE)})
  \cup {Result(d, FALSE) : d \in {FALSE, Possible(s)}}

initData ==
  /\ pc = "initData"
  /\ \E r \in execute(Script[stmt]) :
       /\ IF r = Result(Possible(Script[stmt]), Possible(Script[stmt])) THEN Works ELSE Fails
       /\ table' = IF r.done THEN [table EXCEPT ![Script[stmt].table] = After(Script[stmt])]
                   ELSE table
       /\ stmt' = IF r.ret THEN stmt + 1 ELSE stmt
       /\ pc' = IF r.ret /\ stmt < Len(Script) THEN "initData" ELSE "loadUsers"
       /\ initOk' = (r.ret /\ stmt = Len(Script))
  /\ UNCHANGED <<db, redis, m_allCachedUsers, msgs, answered, old, starts>>

(***************************************************************************)
(* UserManager::init                                                       *)
(***************************************************************************)
loadUsersFromDb ==
  /\ pc = "loadUsers"
  /\ pc' = "loadMsgs"
  /\ \/ /\ Works
        /\ m_allCachedUsers' = IF table["t_user"] = "full" THEN m_allCachedUsers \o DefaultUsers
                               ELSE m_allCachedUsers
     \/ Fails /\ UNCHANGED m_allCachedUsers
  /\ UNCHANGED <<kept, stmt, msgs, initOk, answered, old, starts>>

(***************************************************************************)
(* MsgCacheManager::init: the rows first, then the list is replaced.       *)
(***************************************************************************)
\* both tables are there; a message needs its sender's row
Joined == IF \A t \in Tables : table[t] = "full" THEN DefaultMsgs ELSE <<>>

\* Fault: the list is deleted before MySQL has answered.
loadMsgsDeletesFirst ==
  /\ pc = "loadMsgs"
  /\ redis' = <<>>
  /\ \/ /\ Works /\ \A t \in Tables : table[t] # "none"
        /\ msgs' = Joined /\ answered' = TRUE /\ pc' = "del"
     \/ /\ Works /\ \E t \in Tables : table[t] = "none"
        /\ pc' = "serving" /\ UNCHANGED <<msgs, answered>>
     \/ Fails /\ pc' = "serving" /\ UNCHANGED <<msgs, answered>>
  /\ UNCHANGED <<db, table, m_allCachedUsers, stmt, initOk, old, starts>>

loadMsgs ==
  /\ pc = "loadMsgs"
  /\ \/ /\ Works /\ \A t \in Tables : table[t] # "none"
        /\ msgs' = Joined /\ answered' = TRUE /\ pc' = "del"
     \/ /\ Works /\ \E t \in Tables : table[t] = "none"
        /\ pc' = "serving" /\ UNCHANGED <<msgs, answered>>
     \/ Fails /\ pc' = "serving" /\ UNCHANGED <<msgs, answered>>
  /\ UNCHANGED <<kept, m_allCachedUsers, stmt, initOk, old, starts>>

\* exists and del; the answer to a del that was done may be lost
RedisDel ==
  /\ pc = "del"
  /\ \/ Works /\ redis' = <<>> /\ pc' = "rpush"
     \/ Fails /\ redis' \in {redis, <<>>} /\ pc' = "serving"
  /\ UNCHANGED <<db, table, memory, old, starts>>

\* rpush of nothing is an error
RedisRpush ==
  /\ pc = "rpush"
  /\ pc' = "serving"
  /\ \/ Works /\ redis' = msgs
     \/ Fails /\ redis' \in {redis, msgs}
  /\ UNCHANGED <<db, table, memory, old, starts>>

(***************************************************************************)
(* The loop: chat messages go to Redis and nowhere else.                   *)
(***************************************************************************)
addChatMsgToRedis(m) ==
  /\ pc = "serving" /\ Len(redis) < MaxList
  /\ \/ Works /\ redis' = Append(redis, m)
     \/ Fails /\ redis' \in {redis, Append(redis, m)}
  /\ UNCHANGED <<pc, db, table, memory, old, starts>>

Crash ==
  /\ pc # "down"
  /\ pc' = "down"
  /\ UNCHANGED <<kept, memory, clean, old, faults, starts>>

StartUp ==
  \/ Start \/ ReadConfig \/ MysqlConnect \/ isDBExist \/ createDB \/ Reconnect \/ initData
  \/ loadUsersFromDb \/ loadMsgs \/ RedisDel \/ RedisRpush

Next == StartUp \/ (\E m \in Chats : addChatMsgToRedis(m)) \/ Crash

Spec == Init /\ [][Next]_vars

(***************************************************************************)
(* Properties                                                              *)
(***************************************************************************)
StartsWith(s, t) == Len(t) <= Len(s) /\ SubSeq(s, 1, Len(t)) = t

\* Whatever a crash or a failed start-up has left in MySQL (no database, tables
\* dropped, created or half filled) and in Redis, a start-up in which every call
\* works serves with all the users and with the messages of the database.
CleanStartRecovers ==
  pc = "serving" /\ clean =>
    initOk /\ m_allCachedUsers = DefaultUsers /\ StartsWith(redis, DefaultMsgs)

\* CMysqlManager::init does not return true unless the whole of Data.sql was
\* executed, however often the server went away and the statement was repeated.
InitMeansComplete == initOk => \A t \in Tables : table[t] = "full"

\* A start-up that MySQL does not answer leaves the chat history in Redis alone:
\* everything said before is still there, before anything said since.
HistoryOutlivesDbFailure == pc # "down" /\ ~answered => StartsWith(redis, old)

=============================================================================
