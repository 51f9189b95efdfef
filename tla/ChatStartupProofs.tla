--------------------------- MODULE ChatStartupProofs ---------------------------
(***************************************************************************)
(* Start-up over a database and a Redis list that outlive the process, for *)
(* any number of starts, failures and crashes.                             *)
(***************************************************************************)
EXTENDS ChatStartup, SequenceTheorems, TLAPS

Messages == Chats \cup {"m1", "m2"}

Places == {"down", "config", "connect", "isDBExist", "createDB", "reconnect", "initData",
           "loadUsers", "loadMsgs", "del", "rpush", "serving"}

\* before UserManager::init
Early == {"config", "connect", "isDBExist", "createDB", "reconnect", "initData"}

Flags == db \in BOOLEAN /\ initOk \in BOOLEAN /\ answered \in BOOLEAN /\ clean \in BOOLEAN

Values ==
  /\ pc \in Places
  /\ table \in [Tables -> {"none", "empty", "full"}]
  /\ redis \in Seq(Messages) /\ old \in Seq(Messages)
  /\ stmt \in 1..7
  /\ msgs \in Seq(Messages)
  /\ faults \in Nat /\ starts \in Nat

(***************************************************************************)
(* How far Data.sql has come.  The statements already executed determine   *)
(* the tables whatever was there before, which is why a start-up can pick  *)
(* up after any crash.                                                     *)
(***************************************************************************)
ScriptSoFar ==
  /\ stmt <= 6
  /\ stmt \in {2, 3} => table["t_user"] = "none"
  /\ stmt \in {3, 4} => table["t_chatmsg"] = "none"
  /\ stmt \in {4, 5} => table["t_user"] = "empty"
  /\ stmt \in {5, 6} => table["t_chatmsg"] = "empty"
  /\ stmt = 6 => table["t_user"] = "full"

InitSound ==
  /\ pc \in Early => ~initOk /\ m_allCachedUsers = <<>>
  /\ pc \in Early \ {"initData"} => stmt = 1
  /\ pc = "initData" => ScriptSoFar
  /\ pc = "loadUsers" => m_allCachedUsers = <<>>
  /\ InitMeansComplete

\* Where main is after calls that all worked.
CleanSoFar ==
  clean =>
    /\ pc = "createDB" => ~db
    /\ pc = "reconnect" => db
    /\ pc \in {"loadUsers", "loadMsgs", "del", "rpush", "serving"} => initOk
    /\ pc \in {"loadMsgs", "del", "rpush", "serving"} => m_allCachedUsers = DefaultUsers
    /\ pc \in {"del", "rpush"} => msgs = DefaultMsgs
    /\ pc = "serving" => StartsWith(redis, DefaultMsgs)

HistoryKept ==
  /\ pc \in {"del", "rpush"} => answered
  /\ pc \in Places \ {"down"} /\ ~answered => StartsWith(redis, old)

StartupInv == Flags /\ Values /\ InitSound /\ CleanSoFar /\ HistoryKept

-----------------------------------------------------------------------------
\* A history begins with itself ...
LEMMA StartsWithSelf ==
  ASSUME NEW S, NEW s \in Seq(S)
  PROVE  StartsWith(s, s)
BY SubSeqFull, LenProperties DEF StartsWith

\* ... and begins with what it began with when a message is appended.
LEMMA StartsWithAppend ==
  ASSUME NEW S, NEW s \in Seq(S), NEW m \in S, NEW T, NEW t \in Seq(T), StartsWith(s, t)
  PROVE  StartsWith(Append(s, m), t)
<1>1. /\ Len(t) \in Nat /\ Len(s) \in Nat /\ Len(t) <= Len(s)
      /\ SubSeq(s, 1, Len(t)) = t
      /\ Append(s, m) \in Seq(S) /\ Len(Append(s, m)) = Len(s) + 1
      /\ \A i \in 1..Len(s) : Append(s, m)[i] = s[i]
  BY LenProperties DEF StartsWith
<1>2. \A i \in 1..Len(t) : s[i] \in S /\ Append(s, m)[i] \in S
  BY <1>1, ElementOfSeq
<1>3. /\ SubSeq(s, 1, Len(t)) \in Seq(S)
      /\ Len(SubSeq(s, 1, Len(t))) = Len(t)
      /\ \A i \in 1..Len(t) : SubSeq(s, 1, Len(t))[i] = s[i]
  BY <1>1, <1>2, SubSeqProperties
<1>4. /\ SubSeq(Append(s, m), 1, Len(t)) \in Seq(S)
      /\ Len(SubSeq(Append(s, m), 1, Len(t))) = Len(t)
      /\ \A i \in 1..Len(t) : SubSeq(Append(s, m), 1, Len(t))[i] = Append(s, m)[i]
  BY <1>1, <1>2, SubSeqProperties
<1>5. SubSeq(Append(s, m), 1, Len(t)) = SubSeq(s, 1, Len(t))
  BY <1>1, <1>3, <1>4, SeqEqual
<1>. QED  BY <1>1, <1>5 DEF StartsWith

\* A call of the database, whether it works or fails, leaves the count of faults a number.
LEMMA CallTyped ==
  ASSUME faults \in Nat, Works \/ Fails
  PROVE  faults' \in Nat
BY DEF Works, Fails

\* The messages Data.sql inserts are messages.
LEMMA DefaultTyped == DefaultMsgs \in Seq(Messages)
BY DEF DefaultMsgs, Messages

-----------------------------------------------------------------------------
\* The invariant holds before the first start.
LEMMA StartupInit == Init => StartupInv
<1>. SUFFICES ASSUME Init PROVE StartupInv
  OBVIOUS
<1>1. Flags
  BY DEF Init, Flags
<1>1a. Values
  BY DEF Init, Values, Places, Tables
<1>2. InitSound
  BY DEF Init, InitSound, InitMeansComplete, Early
<1>3. CleanSoFar /\ HistoryKept
  BY DEF Init, CleanSoFar, HistoryKept, Early
<1>. QED  BY <1>1, <1>1a, <1>2, <1>3 DEF StartupInv

\* The steps of main up to Data.sql.
LEMMA EarlyStep ==
  ASSUME StartupInv, ReadConfig \/ MysqlConnect \/ isDBExist \/ createDB \/ Reconnect
  PROVE  StartupInv'
<1>. USE DEF StartupInv, kept, memory
<1>1. Flags'
  BY DEF Flags, ReadConfig, MysqlConnect, isDBExist, createDB, Reconnect, Works, Fails
<1>2. pc \in Early \ {"initData"} /\ pc' \in (Early \cup {"loadUsers", "down"})
  BY DEF ReadConfig, MysqlConnect, isDBExist, createDB, Reconnect, Early
<1>3. UNCHANGED <<table, redis, old, starts, m_allCachedUsers, stmt, msgs, initOk, answered>>
  BY DEF ReadConfig, MysqlConnect, isDBExist, createDB, Reconnect
<1>4. Works \/ Fails
  BY DEF ReadConfig, MysqlConnect, isDBExist, createDB, Reconnect
<1>5. Values'
  <2>1. faults' \in Nat
    BY <1>4, CallTyped DEF Values
  <2>2. pc' \in Places
    BY <1>2 DEF Early, Places
  <2>. QED  BY <1>3, <2>1, <2>2 DEF Values
<1>6. InitSound'
  BY <1>2, <1>3 DEF InitSound, InitMeansComplete, Early, ScriptSoFar
<1>7. CleanSoFar'
  <2>1. clean' => Works /\ clean
    BY <1>4 DEF Works, Fails
  <2>2. clean' /\ pc' = "createDB" => ~db'
    BY <2>1 DEF ReadConfig, MysqlConnect, isDBExist, createDB, Reconnect, CleanSoFar, Works,
                Fails
  <2>3. clean' /\ pc' = "reconnect" => db'
    BY <2>1 DEF ReadConfig, MysqlConnect, isDBExist, createDB, Reconnect, CleanSoFar, Works,
                Fails
  <2>4. clean' => pc' # "loadUsers"
    BY <2>1 DEF ReadConfig, MysqlConnect, isDBExist, createDB, Reconnect, CleanSoFar, Works,
                Fails
  <2>. QED  BY <1>2, <2>2, <2>3, <2>4 DEF CleanSoFar, Early
<1>8. HistoryKept'
  BY <1>2, <1>3 DEF HistoryKept, StartsWith, Early, Places
<1>. QED  BY <1>1, <1>5, <1>6, <1>7, <1>8

\* CMysqlManager::init: a statement of Data.sql.
LEMMA ScriptStep == StartupInv /\ initData => StartupInv'
<1>. SUFFICES ASSUME StartupInv, initData PROVE StartupInv'
  OBVIOUS
<1>. USE DEF StartupInv
<1>. DEFINE s == Script[stmt]
<1>1. /\ pc = "initData" /\ ScriptSoFar /\ stmt \in 1..6 /\ Len(Script) = 6
      /\ ~initOk /\ m_allCachedUsers = <<>>
  BY DEF initData, InitSound, ScriptSoFar, Values, Early, Script
<1>2. /\ s.table \in Tables /\ s.what \in {"drop", "create", "insert"}
      /\ Possible(s)
  BY <1>1 DEF Script, Statement, Tables, Possible, ScriptSoFar
<1>3. PICK r \in execute(s) :
        /\ IF r = Result(Possible(s), Possible(s)) THEN Works ELSE Fails
        /\ table' = IF r.done THEN [table EXCEPT ![s.table] = After(s)] ELSE table
        /\ stmt' = IF r.ret THEN stmt + 1 ELSE stmt
        /\ pc' = IF r.ret /\ stmt < Len(Script) THEN "initData" ELSE "loadUsers"
        /\ initOk' = (r.ret /\ stmt = Len(Script))
  BY DEF initData
<1>4. UNCHANGED <<db, redis, m_allCachedUsers, msgs, answered, old, starts>>
  BY DEF initData
<1>5. r \in {Result(TRUE, TRUE), Result(TRUE, FALSE), Result(FALSE, FALSE)}
  BY <1>2 DEF execute
<1>6. /\ Works \/ Fails
      /\ clean' => r.ret
  BY <1>3, <1>2, <1>5 DEF Works, Fails, Result
<1>7. Flags'
  <2>1. initOk' \in BOOLEAN /\ db' = db /\ answered' = answered
    BY <1>3, <1>4
  <2>2. clean' \in BOOLEAN
    BY <1>6 DEF Works, Fails, Flags
  <2>. QED  BY <2>1, <2>2 DEF Flags
<1>8. Values'
  <2>1. pc' \in Places /\ stmt' \in 1..7
    BY <1>1, <1>3 DEF Places
  <2>2. faults' \in Nat
    BY <1>6, CallTyped DEF Values
  <2>3. After(s) \in {"none", "empty", "full"}
    BY <1>2 DEF After
  <2>4. table' \in [Tables -> {"none", "empty", "full"}]
    BY <1>2, <1>3, <2>3 DEF Values
  <2>. QED  BY <1>4, <2>1, <2>2, <2>4 DEF Values
<1>9. r.ret => table' = [table EXCEPT ![s.table] = After(s)]
  BY <1>3, <1>5 DEF Result
<1>10. pc' = "initData" => ScriptSoFar'
  <2>. SUFFICES ASSUME r.ret, stmt < 6, stmt' = stmt + 1,
                       table' = [table EXCEPT ![s.table] = After(s)]
                PROVE  ScriptSoFar'
    BY <1>1, <1>3, <1>9
  <2>. USE <1>1 DEF ScriptSoFar, Script, Statement, After, Values, Tables
  <2>1. CASE stmt = 1
    BY <2>1
  <2>2. CASE stmt = 2
    BY <2>2
  <2>3. CASE stmt = 3
    BY <2>3
  <2>4. CASE stmt = 4
    BY <2>4
  <2>5. CASE stmt = 5
    BY <2>5
  <2>. QED  BY <2>1, <2>2, <2>3, <2>4, <2>5
<1>11. initOk' => \A t \in Tables : table'[t] = "full"
  <2>. SUFFICES ASSUME initOk' PROVE \A t \in Tables : table'[t] = "full"
    OBVIOUS
  <2>1. stmt = 6 /\ table' = [table EXCEPT ![s.table] = After(s)]
    BY <1>1, <1>3, <1>9
  <2>2. s.table = "t_chatmsg" /\ After(s) = "full"
    BY <2>1 DEF Script, Statement, After
  <2>. QED  BY <1>1, <2>1, <2>2 DEF ScriptSoFar, Values, Tables
<1>12. pc' \in {"initData", "loadUsers"} /\ (pc' = "initData" => ~initOk')
  <2>1. CASE stmt < 6
    <3>1. ~(stmt = Len(Script))
      BY <1>1, <2>1
    <3>. QED  BY <1>3, <3>1
  <2>2. CASE stmt = 6
    BY <1>1, <1>3, <2>2
  <2>. QED  BY <1>1, <2>1, <2>2
<1>13. InitSound'
  BY <1>1, <1>4, <1>10, <1>11, <1>12 DEF InitSound, InitMeansComplete, Early
<1>14. CleanSoFar'
  <2>1. pc' = "loadUsers" /\ clean' => initOk'
    <3>. SUFFICES ASSUME pc' = "loadUsers", clean' PROVE initOk'
      OBVIOUS
    <3>1. r.ret
      BY <1>6
    <3>2. stmt = Len(Script)
      BY <1>1, <1>3, <3>1
    <3>. QED  BY <1>3, <3>1, <3>2
  <2>. QED  BY <1>12, <2>1 DEF CleanSoFar
<1>15. HistoryKept'
  BY <1>1, <1>4, <1>12 DEF HistoryKept, StartsWith, Places
<1>. QED  BY <1>7, <1>8, <1>13, <1>14, <1>15

\* UserManager::init and MsgCacheManager::init.
LEMMA LoadStep ==
  ASSUME StartupInv, loadUsersFromDb \/ loadMsgs \/ RedisDel \/ RedisRpush
  PROVE  StartupInv'
<1>. USE DEF StartupInv, kept, memory
<1>1. Works \/ Fails
  BY DEF loadUsersFromDb, loadMsgs, RedisDel, RedisRpush
<1>2. faults' \in Nat /\ (clean' => clean /\ Works)
  BY <1>1, CallTyped DEF Values, Works, Fails
<1>3. /\ pc \in {"loadUsers", "loadMsgs", "del", "rpush"}
      /\ pc' \in {"loadMsgs", "del", "rpush", "serving"}
  BY DEF loadUsersFromDb, loadMsgs, RedisDel, RedisRpush
<1>4. UNCHANGED <<db, table, old, starts, stmt, initOk>>
  BY DEF loadUsersFromDb, loadMsgs, RedisDel, RedisRpush
<1>5. Flags'
  BY DEF Flags, loadUsersFromDb, loadMsgs, RedisDel, RedisRpush, Works, Fails
<1>6. Values'
  <2>1. msgs' \in Seq(Messages)
    <3>1. msgs' \in {msgs, DefaultMsgs, <<>>}
      BY DEF loadUsersFromDb, loadMsgs, RedisDel, RedisRpush, Joined
    <3>2. <<>> \in Seq(Messages) /\ msgs \in Seq(Messages)
      BY DEF Values
    <3>. QED  BY <3>1, <3>2, DefaultTyped, Zenon
  <2>2. redis' \in Seq(Messages)
    <3>1. redis' \in {redis, msgs, <<>>}
      BY DEF loadUsersFromDb, loadMsgs, RedisDel, RedisRpush
    <3>2. <<>> \in Seq(Messages) /\ msgs \in Seq(Messages) /\ redis \in Seq(Messages)
      BY DEF Values
    <3>. QED  BY <3>1, <3>2, Zenon
  <2>. QED  BY <1>2, <1>3, <1>4, <2>1, <2>2 DEF Values, Places
<1>7. InitSound'
  BY <1>3, <1>4 DEF InitSound, InitMeansComplete, Early
<1>8. CleanSoFar'
  <2>. SUFFICES ASSUME clean', clean, Works PROVE CleanSoFar'
    BY <1>2 DEF CleanSoFar
  <2>1. initOk /\ \A t \in Tables : table[t] = "full"
    BY <1>3 DEF CleanSoFar, InitSound, InitMeansComplete
  <2>2. CASE loadUsersFromDb
    <3>1. m_allCachedUsers' = <<>> \o DefaultUsers
      BY <2>1, <2>2 DEF loadUsersFromDb, InitSound, Tables, Fails, Works
    <3>2. m_allCachedUsers' = DefaultUsers
      BY <3>1 DEF DefaultUsers
    <3>. QED  BY <1>4, <2>1, <2>2, <3>2 DEF loadUsersFromDb, CleanSoFar
  <2>3. CASE loadMsgs
    <3>1. pc' = "del" /\ msgs' = DefaultMsgs
      BY <2>1, <2>3 DEF loadMsgs, Joined, Fails
    <3>. QED  BY <1>4, <2>1, <2>3, <3>1 DEF loadMsgs, CleanSoFar
  <2>4. CASE RedisDel
    BY <1>4, <2>1, <2>4 DEF RedisDel, CleanSoFar, Fails
  <2>5. CASE RedisRpush
    <3>1. redis' = DefaultMsgs
      BY <2>5 DEF RedisRpush, CleanSoFar, Fails
    <3>2. StartsWith(DefaultMsgs, DefaultMsgs)
      BY DefaultTyped, StartsWithSelf
    <3>. QED  BY <1>4, <2>1, <2>5, <3>1, <3>2 DEF RedisRpush, CleanSoFar
  <2>. QED  BY <2>2, <2>3, <2>4, <2>5
<1>9. HistoryKept'
  <2>1. CASE loadUsersFromDb \/ loadMsgs
    BY <2>1 DEF loadUsersFromDb, loadMsgs, HistoryKept, StartsWith, Places
  <2>2. CASE RedisDel \/ RedisRpush
    BY <2>2 DEF RedisDel, RedisRpush, HistoryKept
  <2>. QED  BY <2>1, <2>2
<1>. QED  BY <1>5, <1>6, <1>7, <1>8, <1>9

\* What clients say while the server runs.
LEMMA ChatStep ==
  ASSUME StartupInv, NEW m \in Chats, addChatMsgToRedis(m)
  PROVE  StartupInv'
<1>. USE DEF StartupInv, memory
<1>1. m \in Messages
  BY DEF Messages
<1>2. /\ redis' \in {redis, Append(redis, m)} /\ pc' = pc /\ pc = "serving"
      /\ UNCHANGED <<db, table, old, starts, m_allCachedUsers, stmt, msgs, initOk, answered>>
      /\ Works \/ Fails
  BY DEF addChatMsgToRedis
<1>3. faults' \in Nat /\ clean' \in BOOLEAN /\ (clean' => clean)
  <2>1. faults' \in Nat
    BY <1>2, CallTyped DEF Values
  <2>2. clean' \in BOOLEAN /\ (clean' => clean)
    <3>1. CASE Works
      BY <3>1 DEF Works, Flags
    <3>2. CASE Fails
      BY <3>2 DEF Fails
    <3>. QED  BY <1>2, <3>1, <3>2
  <2>. QED  BY <2>1, <2>2
<1>4. Flags'
  BY <1>2, <1>3 DEF Flags
<1>5. Values'
  BY SMTT(40), <1>1, <1>2, <1>3 DEF Values, Places
<1>6. InitSound'
  BY <1>2 DEF InitSound, InitMeansComplete, Early
<1>7. StartsWith(redis, DefaultMsgs) => StartsWith(redis', DefaultMsgs)
  BY <1>1, <1>2, DefaultTyped, StartsWithAppend DEF Values
<1>8. StartsWith(redis, old) => StartsWith(redis', old)
  BY <1>1, <1>2, StartsWithAppend DEF Values
<1>9. CleanSoFar'
  BY <1>2, <1>3, <1>7 DEF CleanSoFar
<1>10. HistoryKept'
  BY <1>2, <1>8 DEF HistoryKept
<1>. QED  BY <1>4, <1>5, <1>6, <1>9, <1>10

\* Every step of a start, of the service and of a death keeps the invariant.
LEMMA StartupStep == StartupInv /\ [Next]_vars => StartupInv'
<1>. SUFFICES ASSUME StartupInv, [Next]_vars PROVE StartupInv'
  OBVIOUS
<1>1. CASE Start
  <2>. USE <1>1 DEF StartupInv, Start, kept
  <2>1. Flags'
    BY DEF Flags
  <2>2. Values'
    BY DEF Values, Places
  <2>3. InitSound' /\ CleanSoFar'
    BY DEF InitSound, CleanSoFar, InitMeansComplete, Early
  <2>4. HistoryKept'
    BY StartsWithSelf DEF HistoryKept, Values
  <2>. QED  BY <2>1, <2>2, <2>3, <2>4
<1>2. CASE Crash
  <2>. USE <1>2 DEF StartupInv, Crash, kept, memory
  <2>1. Flags'
    BY DEF Flags
  <2>2. Values'
    BY DEF Values, Places
  <2>3. InitSound' /\ CleanSoFar' /\ HistoryKept'
    BY DEF InitSound, CleanSoFar, HistoryKept, InitMeansComplete, Early
  <2>. QED  BY <2>1, <2>2, <2>3
<1>3. CASE UNCHANGED vars
  <2>. USE <1>3 DEF StartupInv, vars
  <2>1. Flags' /\ Values'
    BY DEF Flags, Values
  <2>2. InitSound'
    BY DEF InitSound, InitMeansComplete, ScriptSoFar
  <2>3. CleanSoFar' /\ HistoryKept'
    BY DEF CleanSoFar, HistoryKept, StartsWith
  <2>. QED  BY <2>1, <2>2, <2>3
<1>. QED
  BY <1>1, <1>2, <1>3, EarlyStep, ScriptStep, LoadStep, ChatStep DEF Next, StartUp

\* The invariant holds in every reachable state.
LEMMA StartupAlways == Spec => []StartupInv
<1>. QED  BY StartupInit, StartupStep, PTL DEF Spec

(***************************************************************************)
(* However often main was started, failed and died, a start-up whose calls *)
(* all work serves with the users and the messages of the database: what   *)
(* Data.sql leaves does not depend on what it found.                       *)
(***************************************************************************)
THEOREM CleanStartAlwaysRecovers == Spec => []CleanStartRecovers
<1>1. StartupInv => CleanStartRecovers
  BY DEF StartupInv, CleanSoFar, CleanStartRecovers
<1>. QED  BY <1>1, StartupAlways, PTL

(***************************************************************************)
(* CMysqlManager::init returns true only when both tables are complete.    *)
(***************************************************************************)
THEOREM InitOnlyWhenComplete == Spec => []InitMeansComplete
<1>1. StartupInv => InitMeansComplete
  BY DEF StartupInv, InitSound
<1>. QED  BY <1>1, StartupAlways, PTL

(***************************************************************************)
(* A start-up without an answer from MySQL does not touch the history.     *)
(***************************************************************************)
THEOREM HistorySurvivesDbFailure == Spec => []HistoryOutlivesDbFailure
<1>1. StartupInv => HistoryOutlivesDbFailure
  BY DEF StartupInv, HistoryKept, HistoryOutlivesDbFailure, Values
<1>. QED  BY <1>1, StartupAlways, PTL

=============================================================================
