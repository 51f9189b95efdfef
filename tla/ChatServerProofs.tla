-------------------------- MODULE ChatServerProofs --------------------------
(***************************************************************************)
(* Proofs about ChatServer: it is a correct user of TcpServer, and its     *)
(* session list is the set of open connections, for any number of clients, *)
(* loops, users and requests.                                              *)
(***************************************************************************)
EXTENDS ChatServer, TcpServerProofs, SequenceTheorems

-----------------------------------------------------------------------------
(* Types.                                                                  *)

JobType == [step : {"idle", "kick", "invalidate", "record", "copy", "send"},
            user : Users \cup {NoUser}, target : Conns \cup {NoConn},
            rest : Seq(Conns), held : SUBSET Conns, text : Payload]

\* A login that kicks has found a session.
KickHasTarget ==
    \A l \in Loops : job[l].step \in {"kick", "invalidate"} => job[l].target \in Conns

ChatTypeInv == TypeInv /\ ChatTypeOK /\ KickHasTarget

\* Erasing from a list: what is left, and where.
LEMMA RemoveAtType ==
    ASSUME NEW s \in Seq(Conns), NEW i \in DOMAIN s
    PROVE  /\ RemoveAt(s, i) \in Seq(Conns)
           /\ Len(RemoveAt(s, i)) = Len(s) - 1
           /\ \A j \in 1..(Len(s) - 1) :
                RemoveAt(s, i)[j] = IF j < i THEN s[j] ELSE s[j + 1]
  <1> DEFINE a == SubSeq(s, 1, i - 1)
  <1> DEFINE b == SubSeq(s, i + 1, Len(s))
  <1>1. PICK n \in Nat : n = Len(s)
    OBVIOUS
  <1>2. i \in 1..n
    BY <1>1
  <1>3. a \in Seq(Conns) /\ Len(a) = i - 1 /\ \A j \in 1..(i - 1) : a[j] = s[j]
    BY <1>1, <1>2
  <1>4. b \in Seq(Conns) /\ Len(b) = n - i /\ \A j \in 1..(n - i) : b[j] = s[i + j]
    BY SMTT(40), <1>1, <1>2
  <1>5. RemoveAt(s, i) = a \o b
    BY DEF RemoveAt
  <1> HIDE DEF a, b
  <1>6. /\ a \o b \in Seq(Conns)
        /\ Len(a \o b) = n - 1
        /\ \A j \in 1..(n - 1) : (a \o b)[j] = IF j <= i - 1 THEN a[j] ELSE b[j - (i - 1)]
    <2>1. Len(a) + Len(b) = n - 1
      BY <1>2, <1>3, <1>4
    <2>2. a \in Seq(Conns) /\ b \in Seq(Conns) /\ Len(a) = i - 1
      BY <1>3, <1>4
    <2>3. /\ a \o b \in Seq(Conns)
          /\ Len(a \o b) = Len(a) + Len(b)
          /\ \A j \in 1..(Len(a) + Len(b)) : (a \o b)[j] = IF j <= Len(a) THEN a[j]
                                                          ELSE b[j - Len(a)]
      BY <2>2, ConcatProperties
    <2>4. QED BY <2>1, <2>2, <2>3
  <1>7. ASSUME NEW j \in 1..(n - 1) PROVE (a \o b)[j] = IF j < i THEN s[j] ELSE s[j + 1]
    <2>1. CASE j < i
      BY <1>2, <1>3, <1>6, <2>1
    <2>2. CASE ~(j < i)
      <3>1. j - (i - 1) \in 1..(n - i) /\ i + (j - (i - 1)) = j + 1 /\ ~(j <= i - 1)
        BY <1>2, <2>2
      <3>2. b[j - (i - 1)] = s[j + 1]
        BY <1>4, <3>1
      <3>3. QED BY <1>6, <2>2, <3>1, <3>2
    <2>3. QED BY <2>1, <2>2
  <1>8. QED BY <1>1, <1>5, <1>6, <1>7

\* A thread outside process has a job of the right type.
LEMMA NoJobType == NoJob \in JobType
  <1>1. "code0" \in Payload
    BY PayloadAssumption
  <1>2. <<>> \in Seq(Conns)
    OBVIOUS
  <1>3. QED BY <1>1, <1>2 DEF NoJob, JobType

\* onRead runs for a connection.
LEMMA SessionType ==
    ASSUME ChatTypeInv, NEW l \in Loops, InCallback(l)
    PROVE  Session(l) \in Conns
  BY CallbackConn DEF ChatTypeInv, InCallback, Session

-----------------------------------------------------------------------------
(* Refinement.                                                             *)

\* TcpSession::send uses the interface of TcpConnection, or does nothing.
LEMMA SendIsStep ==
    ASSUME NEW l \in Loops, NEW c \in Conns, NEW body \in Payload, send(l, c, body)
    PROVE  CallbackStep(l) \/ UNCHANGED vars
  BY DEF send, CallbackStep

\* So does ChatSession.
LEMMA SessionIsStep ==
    ASSUME ChatTypeInv, NEW l \in Loops, SessionStep(l)
    PROVE  CallbackStep(l) \/ UNCHANGED vars
  <1>1. InCallback(l) => Session(l) \in Conns
    BY SessionType
  <1>2. {"kickuser", "code0", "code1", "code2"} \subseteq Payload
    BY PayloadAssumption
  <1>3. CASE onReadReturn(l) \/ processFails(l) \/ chatSendQueued(l)
    BY <1>3 DEF onReadReturn, processFails, chatSendQueued, CallbackStep
  <1>4. CASE notLogin(l) \/ onQuery(l) \/ loginRefused(l) \/ loginRecord(l)
    BY <1>1, <1>2, <1>4, SendIsStep
       DEF notLogin, onQuery, loginRefused, loginRecord, NextRequest
  <1>5. CASE loginKick(l)
    <2>1. job[l].target \in Conns
      BY <1>5 DEF loginKick, ChatTypeInv, KickHasTarget
    <2>2. QED BY <1>2, <1>5, <2>1, SendIsStep DEF loginKick
  <1>6. CASE broadcast(l)
    <2>1. job[l] \in JobType /\ job[l].rest # <<>>
      BY <1>6 DEF broadcast, ChatTypeInv, ChatTypeOK, JobType
    <2>2. Head(job[l].rest) \in Conns /\ job[l].text \in Payload
      BY <2>1 DEF JobType
    <2>3. QED BY <1>6, <2>2, SendIsStep DEF broadcast
  <1>7. CASE (\E u \in Users \cup {NoUser} : login(l, u)) \/ loginInvalidate(l)
               \/ (\E t \in Texts : onChat(l, t)) \/ getSessions(l) \/ broadcastDone(l)
    BY <1>7 DEF login, loginInvalidate, onChat, getSessions, broadcastDone
  <1>8. QED BY <1>3, <1>4, <1>5, <1>6, <1>7 DEF SessionStep

\* Every step of the chat server is a step of TcpServer or leaves it alone.
LEMMA ChatRefines == ChatTypeInv /\ [ChatNext]_allVars => [Next]_vars
  <1> SUFFICES ASSUME ChatTypeInv, [ChatNext]_allVars PROVE [Next]_vars
    OBVIOUS
  <1>1. CASE UNCHANGED allVars
    BY <1>1 DEF allVars
  <1>2. ASSUME NEW l \in Loops, chatLoopStep(l) \/ SessionStep(l) PROVE [Next]_vars
    BY <1>2, SessionIsStep DEF chatLoopStep, Next
  <1>3. ASSUME NEW c \in Conns, NEW l \in IoLoops, chatNewConnection(c, l) PROVE [Next]_vars
    BY <1>3 DEF chatNewConnection, Next
  <1>4. QED BY <1>1, <1>2, <1>3 DEF ChatNext

-----------------------------------------------------------------------------
(* Types, continued.                                                       *)

\* The part of ChatTypeInv that is about the chat server's own state.
ChatPart ==
    /\ m_sessions \in Seq(Conns)
    /\ userid \in [Conns -> Users \cup {NoUser}]
    /\ m_isLogin \in [Conns -> BOOLEAN]
    /\ job \in [Loops -> JobType]
    /\ redis \in Seq(Texts)
    /\ requests \in 0..MaxRequests
    /\ authentic \subseteq Conns
    /\ lost \subseteq Texts
    /\ raced \subseteq Users
    /\ KickHasTarget

\* The inductive type invariant: the part of TcpServer and the part of the sessions.
LEMMA ChatParts == ChatTypeInv <=> TypeInv /\ ChatPart
  BY DEF ChatTypeInv, ChatTypeOK, ChatPart, TypeInv, JobType

\* The session list stays a list of sessions.
LEMMA SessionsType ==
    ASSUME m_sessions \in Seq(Conns), onConnected
    PROVE  m_sessions' \in Seq(Conns)
  <1>1. ASSUME NEW c \in Conns, onDisconnected(c) PROVE m_sessions' \in Seq(Conns)
    BY <1>1, RemoveAtType DEF onDisconnected
  <1>2. ASSUME NEW c \in Conns, m_sessions' = Append(m_sessions, c) PROVE m_sessions' \in Seq(Conns)
    BY <1>2
  <1>3. QED BY <1>1, <1>2 DEF onConnected

\* A step that changes one thread's job.
LEMMA JobStep ==
    ASSUME ChatPart, NEW l \in Loops, NEW j \in JobType,
           job' = [job EXCEPT ![l] = j],
           j.step \in {"kick", "invalidate"} => j.target \in Conns
    PROVE  job' \in [Loops -> JobType] /\ KickHasTarget'
  BY DEF ChatPart, KickHasTarget

\* The handlers that touch nothing but a job, and the counters.
LEMMA ChatPartStep ==
    ASSUME ChatTypeInv, NEW l \in Loops, SessionStep(l)
    PROVE  ChatPart'
  <1> USE DEF sessionVars, historyVars, chatVars
  <1>1. ChatPart /\ job[l] \in JobType
    BY ChatParts DEF ChatPart
  <1>2. ASSUME NextRequest(l) PROVE requests' \in 0..MaxRequests /\ Session(l) \in Conns
    <2>1. requests' \in 0..MaxRequests
      BY <1>1, <1>2, MaxRequestsAssumption DEF NextRequest, ChatPart
    <2>2. QED BY <1>2, <2>1, SessionType DEF NextRequest
  <1>3. InCallback(l) => Session(l) \in Conns
    BY SessionType
  <1>4. CASE onReadReturn(l) \/ chatSendQueued(l)
    BY <1>1, <1>4 DEF onReadReturn, chatSendQueued, ChatPart, KickHasTarget
  <1>5. CASE processFails(l) \/ notLogin(l) \/ onQuery(l)
    BY <1>1, <1>2, <1>5 DEF processFails, notLogin, onQuery, ChatPart, KickHasTarget
  <1>6. CASE loginRefused(l)
    BY <1>1, <1>2, <1>6 DEF loginRefused, ChatPart, KickHasTarget
  <1>7. ASSUME NEW u \in Users \cup {NoUser}, login(l, u) PROVE ChatPart'
    <2>1. PICK j \in JobType : /\ job' = [job EXCEPT ![l] = j]
                               /\ j.step \in {"kick", "invalidate"} => j.target \in Conns
      <3>1. ASSUME NEW c \in Conns
            PROVE  /\ [NoJob EXCEPT !.step = "kick", !.user = u, !.target = c, !.held = {c}]
                        \in JobType
                   /\ [NoJob EXCEPT !.step = "kick", !.user = u, !.target = c,
                                    !.held = {c}].target = c
        BY NoJobType DEF JobType
      <3>2. /\ [NoJob EXCEPT !.step = "record", !.user = u] \in JobType
            /\ [NoJob EXCEPT !.step = "record", !.user = u].step = "record"
        BY NoJobType DEF JobType
      <3>3. QED BY ZenonT(60), <1>7, <3>1, <3>2 DEF login
    <2>2. job' \in [Loops -> JobType] /\ KickHasTarget'
      BY <1>1, <2>1, JobStep
    <2>3. QED BY <1>1, <1>2, <1>7, <2>2 DEF login, noteRace, ChatPart
  <1>8. ASSUME NEW s \in {"invalidate", "record"}, job' = [job EXCEPT ![l].step = s],
               job[l].step \in {"kick", "invalidate"}
        PROVE  job' \in [Loops -> JobType] /\ KickHasTarget'
    <2>1. job' = [job EXCEPT ![l] = [job[l] EXCEPT !.step = s]]
      BY <1>8
    <2>2. /\ [job[l] EXCEPT !.step = s] \in JobType
          /\ [job[l] EXCEPT !.step = s].step = s
          /\ [job[l] EXCEPT !.step = s].target \in Conns
      BY <1>1, <1>8 DEF JobType, ChatPart, KickHasTarget
    <2>3. QED BY <1>1, <2>1, <2>2, JobStep
  <1>9. CASE loginKick(l)
    BY <1>1, <1>8, <1>9 DEF loginKick, ChatPart
  <1>10. CASE loginInvalidate(l)
    <2>1. userid' \in [Conns -> Users \cup {NoUser}]
      BY <1>1, <1>10 DEF loginInvalidate, ChatPart
    <2>2. QED BY <1>1, <1>8, <1>10, <2>1 DEF loginInvalidate, ChatPart
  <1>11. ASSUME job' = [job EXCEPT ![l] = NoJob]
         PROVE  job' \in [Loops -> JobType] /\ KickHasTarget'
    <2>1. NoJob.step = "idle"
      BY DEF NoJob
    <2>2. QED BY <1>1, <1>11, <2>1, NoJobType, JobStep
  <1>12. CASE loginRecord(l)
    <2>1. Session(l) \in Conns /\ job[l].user \in Users \cup {NoUser}
      BY <1>1, <1>3, <1>12 DEF loginRecord, JobType
    <2>2. userid' \in [Conns -> Users \cup {NoUser}] /\ m_isLogin' \in [Conns -> BOOLEAN]
      BY <1>1, <1>12, <2>1 DEF loginRecord, ChatPart
    <2>3. QED BY <1>1, <1>11, <1>12, <2>1, <2>2 DEF loginRecord, ChatPart
  <1>13. ASSUME NEW t \in Texts, onChat(l, t) PROVE ChatPart'
    <2>1. t \in Payload
      BY PayloadAssumption
    <2>2. /\ [NoJob EXCEPT !.step = "copy", !.text = t] \in JobType
          /\ [NoJob EXCEPT !.step = "copy", !.text = t].step = "copy"
      BY <2>1, NoJobType DEF JobType
    <2>3. job' \in [Loops -> JobType] /\ KickHasTarget'
      BY <1>1, <1>13, <2>2, JobStep DEF onChat
    <2>4. redis' \in Seq(Texts) /\ lost' \subseteq Texts
      <3>1. redis \in Seq(Texts) /\ lost \subseteq Texts
        BY <1>1 DEF ChatPart
      <3>2. \/ redis' = Append(redis, t) /\ lost' = lost
            \/ redis' = redis /\ lost' = lost \cup {t}
        BY <1>13 DEF onChat
      <3>3. QED BY <3>1, <3>2
    <2>5. QED BY <1>1, <1>2, <1>13, <2>3, <2>4 DEF onChat, ChatPart
  <1>14. CASE getSessions(l)
    <2>1. job' = [job EXCEPT ![l] = [job[l] EXCEPT !.step = "send", !.rest = m_sessions,
                                                   !.held = ToSet(m_sessions)]]
      BY <1>14 DEF getSessions
    <2>2. m_sessions \in Seq(Conns) /\ ToSet(m_sessions) \in SUBSET Conns
      BY <1>1 DEF ChatPart, ToSet
    <2>3. /\ [job[l] EXCEPT !.step = "send", !.rest = m_sessions, !.held = ToSet(m_sessions)]
               \in JobType
          /\ [job[l] EXCEPT !.step = "send", !.rest = m_sessions,
                            !.held = ToSet(m_sessions)].step = "send"
      BY <1>1, <2>2 DEF JobType
    <2>4. job' \in [Loops -> JobType] /\ KickHasTarget'
      BY <1>1, <2>1, <2>3, JobStep
    <2>5. QED BY <1>1, <1>14, <2>4 DEF getSessions, ChatPart
  <1>15. CASE broadcast(l)
    <2>1. job' = [job EXCEPT ![l] = [job[l] EXCEPT !.rest = Tail(job[l].rest)]]
      BY <1>15 DEF broadcast
    <2>2. job[l].rest \in Seq(Conns) /\ job[l].rest # <<>> /\ job[l].step = "send"
      BY <1>1, <1>15 DEF broadcast, JobType
    <2>3. Tail(job[l].rest) \in Seq(Conns)
      BY <2>2
    <2>4. /\ [job[l] EXCEPT !.rest = Tail(job[l].rest)] \in JobType
          /\ [job[l] EXCEPT !.rest = Tail(job[l].rest)].step = "send"
      BY <1>1, <2>2, <2>3 DEF JobType
    <2>5. job' \in [Loops -> JobType] /\ KickHasTarget'
      BY <1>1, <2>1, <2>4, JobStep
    <2>6. QED BY <1>1, <1>15, <2>5 DEF broadcast, ChatPart
  <1>16. CASE broadcastDone(l)
    BY <1>1, <1>11, <1>16 DEF broadcastDone, ChatPart
  <1>17. QED
    BY <1>4, <1>5, <1>6, <1>7, <1>9, <1>10, <1>12, <1>13, <1>14, <1>15, <1>16 DEF SessionStep

\* Initially there is nothing.
LEMMA ChatTypeInit == ChatInit => ChatTypeInv
  <1> SUFFICES ASSUME ChatInit PROVE ChatTypeInv
    OBVIOUS
  <1>1. TypeInv
    BY TypeInit DEF ChatInit
  <1>2. KickHasTarget
    <2>1. NoJob.step = "idle"
      BY DEF NoJob
    <2>2. QED BY <2>1 DEF ChatInit, KickHasTarget
  <1>3. ChatPart
    BY <1>2, NoJobType, MaxRequestsAssumption DEF ChatInit, ChatPart
  <1>4. QED BY <1>1, <1>3, ChatParts

\* Every step of the chat server preserves it.
LEMMA ChatTypeStep == ChatTypeInv /\ [ChatNext]_allVars => ChatTypeInv'
  <1> SUFFICES ASSUME ChatTypeInv, [ChatNext]_allVars PROVE ChatTypeInv'
    OBVIOUS
  <1>1. TypeInv'
    BY ChatRefines, TypeStep DEF ChatTypeInv
  <1>2. ASSUME UNCHANGED chatVars PROVE ChatPart'
    BY <1>2, ChatParts DEF ChatPart, chatVars, KickHasTarget
  <1>3. ASSUME NEW l \in Loops, chatLoopStep(l) PROVE ChatPart'
    <2>1. m_sessions' \in Seq(Conns)
      BY <1>3, SessionsType, ChatParts DEF chatLoopStep, ChatPart
    <2>2. QED
      BY <1>3, <2>1, ChatParts DEF chatLoopStep, ChatPart, KickHasTarget, historyVars
  <1>4. ChatPart'
    BY <1>2, <1>3, ChatPartStep DEF ChatNext, chatNewConnection, allVars
  <1>5. ChatPart' /\ TypeInv' => ChatTypeInv'
    BY DEF ChatTypeInv, ChatTypeOK, ChatPart, TypeInv, JobType
  <1>6. QED BY <1>1, <1>4, <1>5

\* The chat server's variables keep their types: in particular every kick and
\* every broadcast is addressed to a session that was made for a connection.
THEOREM ChatTypeCorrect == ChatSpec => []ChatTypeOK
  <1>1. ChatTypeInv => ChatTypeOK
    BY DEF ChatTypeInv
  <1>2. QED BY <1>1, ChatTypeInit, ChatTypeStep, PTL DEF ChatSpec

\* The chat server implements TcpServer's specification of how connections may
\* be used: whatever sessions do, their sends, returns and forceClose calls are
\* those of TcpServer.
THEOREM ChatImplementsTcpServer == ChatSpec => TcpServerSpec
  <1>1. ChatInit => Init
    BY DEF ChatInit
  <1>2. QED
    BY <1>1, ChatTypeInit, ChatTypeStep, ChatRefines, PTL DEF ChatSpec, TcpServerSpec, Spec

\* Hence no channel of the chat server dangles.
THEOREM ChatChannelsNeverDangle == ChatSpec => []NoDanglingChannel
  BY ChatImplementsTcpServer, ChannelsNeverDangle, PTL DEF TcpServerSpec

-----------------------------------------------------------------------------
(* The session list.                                                       *)

Open(c) == m_state[c] \in {"kConnected", "kDisconnecting"}

\* Adding the session of a connection that has none.
LEMMA ListAppend ==
    ASSUME NEW s \in Seq(Conns), NEW x \in Conns, x \notin ToSet(s),
           \A i, j \in DOMAIN s : s[i] = s[j] => i = j
    PROVE  /\ ToSet(Append(s, x)) = ToSet(s) \cup {x}
           /\ \A i, j \in DOMAIN Append(s, x) : Append(s, x)[i] = Append(s, x)[j] => i = j
  <1> DEFINE t == Append(s, x)
  <1>1. PICK n \in Nat : n = Len(s) /\ DOMAIN s = 1..n
    OBVIOUS
  <1>2. /\ DOMAIN t = 1..(n + 1)
        /\ \A i \in 1..n : t[i] = s[i]
        /\ t[n + 1] = x
    BY <1>1
  <1>3. \A i \in 1..n : s[i] \in ToSet(s) /\ s[i] # x
    BY <1>1 DEF ToSet
  <1> HIDE DEF t
  <1>4. ToSet(t) = ToSet(s) \cup {x}
    <2>1. ASSUME NEW y \in ToSet(t) PROVE y \in ToSet(s) \cup {x}
      <3>1. PICK i \in 1..(n + 1) : t[i] = y
        BY <1>2, <2>1 DEF ToSet
      <3>2. CASE i = n + 1
        BY <1>2, <3>1, <3>2
      <3>3. CASE i \in 1..n
        BY <1>2, <1>3, <3>1, <3>3
      <3>4. QED BY <3>1, <3>2, <3>3
    <2>2. ASSUME NEW y \in ToSet(s) PROVE y \in ToSet(t)
      <3>1. PICK i \in 1..n : s[i] = y
        BY <1>1, <2>2 DEF ToSet
      <3>2. i \in 1..(n + 1) /\ t[i] = y
        BY <1>2, <3>1
      <3>3. QED BY <1>2, <3>2 DEF ToSet
    <2>3. x \in ToSet(t)
      <3>1. n + 1 \in 1..(n + 1)
        OBVIOUS
      <3>2. QED BY <1>2, <3>1 DEF ToSet
    <2>4. QED BY <2>1, <2>2, <2>3
  <1>5. ASSUME NEW i \in 1..(n + 1), NEW j \in 1..(n + 1), t[i] = t[j] PROVE i = j
    <2>1. CASE i \in 1..n /\ j \in 1..n
      BY <1>1, <1>2, <1>5, <2>1
    <2>2. CASE i = n + 1 \/ j = n + 1
      BY <1>2, <1>3, <1>5, <2>2
    <2>3. QED BY <2>1, <2>2
  <1>6. QED BY <1>2, <1>4, <1>5 DEF t

\* Erasing the session of a connection.
LEMMA ListRemove ==
    ASSUME NEW s \in Seq(Conns), NEW k \in DOMAIN s,
           \A i, j \in DOMAIN s : s[i] = s[j] => i = j
    PROVE  /\ ToSet(RemoveAt(s, k)) = ToSet(s) \ {s[k]}
           /\ \A i, j \in DOMAIN RemoveAt(s, k) : RemoveAt(s, k)[i] = RemoveAt(s, k)[j] => i = j
  <1> DEFINE t == RemoveAt(s, k)
  <1>1. PICK n \in Nat : n = Len(s) /\ DOMAIN s = 1..n
    OBVIOUS
  <1>0. /\ t \in Seq(Conns) /\ Len(t) = Len(s) - 1
        /\ \A i \in 1..(Len(s) - 1) : t[i] = IF i < k THEN s[i] ELSE s[i + 1]
    BY RemoveAtType
  <1> HIDE DEF t
  <1>2. /\ DOMAIN t = 1..(n - 1) /\ k \in 1..n
        /\ \A i \in 1..(n - 1) : t[i] = IF i < k THEN s[i] ELSE s[i + 1]
    <2>1. DOMAIN t = 1..(n - 1) /\ k \in 1..n
      BY <1>0, <1>1
    <2>2. QED BY <1>0, <1>1, <2>1
  <1>3. \A i, j \in 1..n : s[i] = s[j] => i = j
    BY <1>1
  <1>4. ASSUME NEW y \in ToSet(t) PROVE y \in ToSet(s) \ {s[k]}
    <2>1. PICK i \in 1..(n - 1) : t[i] = y
      BY <1>2, <1>4 DEF ToSet
    <2>2. PICK j \in 1..n : s[j] = y /\ j # k
      <3>1. CASE i < k
        BY <1>2, <2>1, <3>1
      <3>2. CASE ~(i < k)
        <4>1. i + 1 \in 1..n /\ i + 1 # k /\ s[i + 1] = y
          BY <1>2, <2>1, <3>2
        <4>2. QED BY <4>1
      <3>3. QED BY <3>1, <3>2
    <2>3. QED BY <1>1, <1>2, <1>3, <2>2 DEF ToSet
  <1>5. ASSUME NEW y \in ToSet(s), y # s[k] PROVE y \in ToSet(t)
    <2>1. PICK i \in 1..n : s[i] = y /\ i # k
      BY <1>1, <1>5 DEF ToSet
    <2>2. PICK j \in 1..(n - 1) : t[j] = y
      <3>1. CASE i < k
        <4>1. i \in 1..(n - 1) /\ t[i] = y
          BY <1>2, <2>1, <3>1
        <4>2. QED BY <4>1
      <3>2. CASE ~(i < k)
        <4>1. i - 1 \in 1..(n - 1) /\ ~(i - 1 < k) /\ (i - 1) + 1 = i
          BY <1>2, <2>1, <3>2
        <4>2. t[i - 1] = s[(i - 1) + 1]
          BY <1>2, <4>1
        <4>3. QED BY <2>1, <4>1, <4>2
      <3>3. QED BY <3>1, <3>2
    <2>3. QED BY <1>2, <2>2 DEF ToSet
  <1>6. ASSUME NEW i \in 1..(n - 1), NEW j \in 1..(n - 1), t[i] = t[j] PROVE i = j
    <2>1. PICK a \in 1..n : t[i] = s[a] /\ a = (IF i < k THEN i ELSE i + 1)
      BY <1>2
    <2>2. PICK b \in 1..n : t[j] = s[b] /\ b = (IF j < k THEN j ELSE j + 1)
      BY <1>2
    <2>3. a = b
      BY <1>3, <1>6, <2>1, <2>2
    <2>4. QED BY <1>2, <2>1, <2>2, <2>3
  <1>7. QED BY <1>2, <1>4, <1>5, <1>6 DEF t

\* What the connection callback of a loop's step does to the list.
LEMMA SessionsLoop ==
    ASSUME ChatTypeInv, SessionsMatchConnections, NEW l \in Loops, chatLoopStep(l)
    PROVE  SessionsMatchConnections'
  <1> DEFINE opened == {c \in Conns : callbacks'[c].up # callbacks[c].up}
  <1> DEFINE closed == {c \in Conns : callbacks'[c].down # callbacks[c].down}
  <1>1. /\ m_state \in [Conns -> StateE]
        /\ \A c \in Conns : callbacks[c].up \in Nat /\ callbacks[c].down \in Nat
        /\ m_sessions \in Seq(Conns)
    BY DEF ChatTypeInv, ChatTypeOK, TypeInv, TypeOK
  <1>2. /\ \A c \in Conns : c \in ToSet(m_sessions) <=> Open(c)
        /\ \A i, j \in DOMAIN m_sessions : m_sessions[i] = m_sessions[j] => i = j
    BY DEF SessionsMatchConnections, Open
  <1>3. \/ opened \cup closed = {} /\ m_sessions' = m_sessions
        \/ \E c \in opened : m_sessions' = Append(m_sessions, c)
        \/ \E c \in closed : onDisconnected(c)
    BY DEF chatLoopStep, onConnected
  <1>4. SUFFICES /\ \A c \in Conns : c \in ToSet(m_sessions') <=> Open(c)'
                 /\ \A i, j \in DOMAIN m_sessions' : m_sessions'[i] = m_sessions'[j] => i = j
    BY DEF SessionsMatchConnections, Open
  <1>5. CASE NoMove
    <2>1. opened = {} /\ closed = {}
      BY <1>5 DEF NoMove
    <2>2. m_sessions' = m_sessions
      BY <1>3, <2>1
    <2>3. \A c \in Conns : Open(c)' <=> Open(c)
      BY <1>5 DEF NoMove, Open
    <2>4. QED BY <1>2, <2>2, <2>3
  <1>6. ASSUME NEW x \in Conns, m_state[x] = "kConnecting", Moves(x, "kConnected", 1, 0)
        PROVE  /\ \A c \in Conns : c \in ToSet(m_sessions') <=> Open(c)'
               /\ \A i, j \in DOMAIN m_sessions' : m_sessions'[i] = m_sessions'[j] => i = j
    <2>1. callbacks'[x].up = callbacks[x].up + 1 /\ callbacks'[x].down = callbacks[x].down
      BY <1>1, <1>6 DEF Moves
    <2>2. opened = {x} /\ closed = {}
      BY SMTT(40), <1>1, <1>6, <2>1 DEF Moves
    <2>3. m_sessions' = Append(m_sessions, x)
      BY <1>3, <2>2
    <2>4. \A c \in Conns : Open(c)' <=> Open(c) \/ c = x
      BY <1>1, <1>6 DEF Moves, Open
    <2>5. x \notin ToSet(m_sessions)
      BY <1>2, <1>6 DEF Open
    <2>6. /\ ToSet(m_sessions') = ToSet(m_sessions) \cup {x}
          /\ \A i, j \in DOMAIN m_sessions' : m_sessions'[i] = m_sessions'[j] => i = j
      BY <1>1, <1>2, <2>3, <2>5, ListAppend
    <2>7. QED BY <1>2, <2>4, <2>6
  <1>7. ASSUME NEW x \in Conns, m_state[x] # "kDisconnected", Moves(x, "kDisconnected", 0, 1)
        PROVE  /\ \A c \in Conns : c \in ToSet(m_sessions') <=> Open(c)'
               /\ \A i, j \in DOMAIN m_sessions' : m_sessions'[i] = m_sessions'[j] => i = j
    <2>1. callbacks'[x].up = callbacks[x].up /\ callbacks'[x].down = callbacks[x].down + 1
      BY <1>1, <1>7 DEF Moves
    <2>2. opened = {} /\ closed = {x}
      BY <1>1, <1>7, <2>1 DEF Moves
    <2>3. onDisconnected(x)
      BY <1>3, <2>2
    <2>4. \A c \in Conns : Open(c)' <=> Open(c) /\ c # x
      BY <1>1, <1>7 DEF Moves, Open
    <2>5. CASE x \notin ToSet(m_sessions) /\ m_sessions' = m_sessions
      BY <1>2, <2>4, <2>5
    <2>6. ASSUME NEW i \in DOMAIN m_sessions, m_sessions[i] = x,
                 m_sessions' = RemoveAt(m_sessions, i)
          PROVE  /\ ToSet(m_sessions') = ToSet(m_sessions) \ {x}
                 /\ \A j, k \in DOMAIN m_sessions' : m_sessions'[j] = m_sessions'[k] => j = k
      BY <1>1, <1>2, <2>6, ListRemove
    <2>7. QED BY <1>2, <2>3, <2>4, <2>5, <2>6 DEF onDisconnected
  <1>8. QED BY <1>5, <1>6, <1>7, LoopMoves DEF chatLoopStep, ChatTypeInv

\* ChatSession never touches the list, and forceClose leaves a connection open.
LEMMA SessionsStep ==
    ASSUME ChatTypeInv, SessionsMatchConnections, [ChatNext]_allVars
    PROVE  SessionsMatchConnections'
  <1>1. ASSUME UNCHANGED m_sessions, \A c \in Conns : Open(c)' <=> Open(c)
        PROVE  SessionsMatchConnections'
    BY <1>1 DEF SessionsMatchConnections, Open
  <1>2. CASE UNCHANGED allVars
    BY <1>1, <1>2 DEF allVars, vars, chatVars, Open
  <1>3. ASSUME NEW l \in Loops, SessionStep(l) PROVE SessionsMatchConnections'
    <2>1. UNCHANGED m_sessions
      BY <1>3 DEF SessionStep, onReadReturn, processFails, notLogin, onQuery, loginRefused, login,
                  loginKick, loginInvalidate, loginRecord, onChat, getSessions, broadcast,
                  broadcastDone, chatSendQueued, sessionVars, chatVars
    <2>2. \A c \in Conns : Open(c)' <=> Open(c)
      <3>1. CASE UNCHANGED vars
        BY <3>1 DEF vars, Open
      <3>2. CASE CallbackStep(l)
        <4>1. \/ UNCHANGED m_state
              \/ /\ m_state[current[l].conn] \in {"kConnected", "kDisconnecting"}
                 /\ m_state' = [m_state EXCEPT ![current[l].conn] = "kDisconnecting"]
          BY <3>2 DEF CallbackStep, sendHere, sendChecked, sendQueued, messageReturn, forceClose
        <4>2. m_state \in [Conns -> StateE]
          BY DEF ChatTypeInv, TypeInv, TypeOK
        <4>3. QED BY <4>1, <4>2 DEF Open
      <3>3. QED BY <1>3, <3>1, <3>2, SessionIsStep
    <2>3. QED BY <1>1, <2>1, <2>2
  <1>4. ASSUME NEW c \in Conns, NEW l \in IoLoops, chatNewConnection(c, l)
        PROVE  SessionsMatchConnections'
    <2>1. m_state \in [Conns -> StateE]
      BY DEF ChatTypeInv, TypeInv, TypeOK
    <2>2. \A d \in Conns : Open(d)' <=> Open(d)
      BY <1>4, <2>1 DEF chatNewConnection, newConnection, Open
    <2>3. QED BY <1>1, <1>4, <2>2 DEF chatNewConnection, chatVars
  <1>5. QED BY <1>2, <1>3, <1>4, SessionsLoop DEF ChatNext

\* The session list is the set of open connections, each once, for any number
\* of clients and loops: a broadcast reaches every connection that is up, and
\* no session stays in the list after its connection was reported down.
THEOREM SessionsAreConnections == ChatSpec => []SessionsMatchConnections
  <1>1. ChatInit => SessionsMatchConnections
    BY DEF ChatInit, Init, SessionsMatchConnections, ToSet
  <1>2. QED BY <1>1, ChatTypeInit, ChatTypeStep, SessionsStep, PTL DEF ChatSpec
-----------------------------------------------------------------------------
(* Where a message is.  Carried(c, msg): it is in c's output or on its way *)
(* there.  Loops and queues neither invent nor lose a message; only send   *)
(* makes one.                                                              *)

Carried(c, msg) == Has(output[c], msg) \/ OnItsWay(c, msg)

\* Raw sends are equal when they bring the same message to the same connection.
LEMMA RawSendInjective ==
    \A c, d, m, n : RawSend(c, m) = RawSend(d, n) <=> c = d /\ m = n
  BY DEF RawSend

\* Appending to a connection's output.
LEMMA OutputAppend ==
    ASSUME NEW q \in Seq(Msg), NEW m \in Msg, NEW n
    PROVE  Has(Append(q, m), n) <=> Has(q, n) \/ n = m
  <1>1. ASSUME Has(Append(q, m), n) PROVE Has(q, n) \/ n = m
    BY <1>1 DEF Has
  <1>2. ASSUME Has(q, n) PROVE Has(Append(q, m), n)
    BY <1>2 DEF Has
  <1>3. ASSUME n = m PROVE Has(Append(q, m), n)
    <2>1. Len(q) + 1 \in DOMAIN Append(q, m) /\ Append(q, m)[Len(q) + 1] = m
      OBVIOUS
    <2>2. QED BY <1>3, <2>1 DEF Has
  <1>4. QED BY <1>1, <1>2, <1>3

\* A thread that is sending has a message for a connection.
LEMMA SendingIs ==
    ASSUME TypeInv, NEW l \in Loops, sending[l] # Idle
    PROVE  /\ sending[l].conn \in Conns /\ sending[l].msg \in Msg
           /\ sending[l] = [conn |-> sending[l].conn, msg |-> sending[l].msg]
  BY DEF TypeInv, TypeOK

\* An idle thread brings no message.
LEMMA IdleCarries == \A c \in Conns, msg \in Msg : [conn |-> c, msg |-> msg] # Idle
  BY ConnAssumption DEF Idle

\* The text of StoredBeforeBroadcast and BroadcastComplete is that of a
\* carried message.
LEMMA TextCarried ==
    ASSUME TypeInv, NEW c \in Conns, NEW t
    PROVE  Received(c, t) \/ InFlight(c, t)
             <=> \E msg \in Msg : msg.body = t /\ Carried(c, msg)
  <1>1. output[c] \in Seq(Msg)
    BY DEF TypeInv, TypeOK
  <1>2. Received(c, t) <=> \E msg \in Msg : msg.body = t /\ Has(output[c], msg)
    <2>1. ASSUME NEW i \in DOMAIN output[c] PROVE output[c][i] \in Msg
      BY <1>1, <2>1
    <2>2. QED BY <2>1 DEF Received, Has
  <1>3. ASSUME NEW q \in Seq(Functor)
        PROVE  (\E f \in ToSet(q) : f.fn = "sendInLoop" /\ f.conn = c /\ f.msg.body = t)
                 <=> \E msg \in Msg : msg.body = t /\ Has(q, RawSend(c, msg))
    <2>1. ASSUME NEW f \in ToSet(q), f.fn = "sendInLoop", f.conn = c
          PROVE  f.msg \in Msg /\ Has(q, RawSend(c, f.msg))
      <3>1. PICK i \in DOMAIN q : q[i] = f
        BY <2>1 DEF ToSet
      <3>2. f \in Functor
        BY <1>3, <3>1
      <3>3. f.msg \in Msg /\ f = RawSend(c, f.msg)
        BY <2>1, <3>2 DEF Functor, FunctorName, RawSend
      <3>4. QED BY <3>1, <3>3 DEF Has
    <2>2. ASSUME NEW msg \in Msg, msg.body = t, Has(q, RawSend(c, msg))
          PROVE  \E f \in ToSet(q) : f.fn = "sendInLoop" /\ f.conn = c /\ f.msg.body = t
      <3>1. RawSend(c, msg) \in ToSet(q)
        BY <2>2 DEF Has, ToSet
      <3>2. /\ RawSend(c, msg).fn = "sendInLoop" /\ RawSend(c, msg).conn = c
            /\ RawSend(c, msg).msg = msg
        BY DEF RawSend
      <3>3. QED BY <2>2, <3>1, <3>2
    <2>3. QED BY <2>1, <2>2
  <1>4. ASSUME NEW l \in Loops
        PROVE  sending[l] # Idle /\ sending[l].conn = c /\ sending[l].msg.body = t
                 <=> \E msg \in Msg : msg.body = t /\ sending[l] = [conn |-> c, msg |-> msg]
    <2>1. ASSUME sending[l] # Idle, sending[l].conn = c, sending[l].msg.body = t
          PROVE  \E msg \in Msg : msg.body = t /\ sending[l] = [conn |-> c, msg |-> msg]
      BY <2>1, SendingIs
    <2>2. ASSUME NEW msg \in Msg, msg.body = t, sending[l] = [conn |-> c, msg |-> msg]
          PROVE  sending[l] # Idle /\ sending[l].conn = c /\ sending[l].msg.body = t
      BY <2>2, IdleCarries
    <2>3. QED BY <2>1, <2>2
  <1>5. \A l \in Loops : m_pendingFunctors[l] \in Seq(Functor) /\ functors[l] \in Seq(Functor)
    BY DEF TypeInv, TypeOK
  <1>6. InFlight(c, t) <=> \E l \in Loops :
          \/ sending[l] # Idle /\ sending[l].conn = c /\ sending[l].msg.body = t
          \/ \E f \in ToSet(m_pendingFunctors[l]) :
               f.fn = "sendInLoop" /\ f.conn = c /\ f.msg.body = t
          \/ \E f \in ToSet(functors[l]) : f.fn = "sendInLoop" /\ f.conn = c /\ f.msg.body = t
    BY DEF InFlight
  <1>7. InFlight(c, t) <=> \E l \in Loops :
          \/ \E msg \in Msg : msg.body = t /\ sending[l] = [conn |-> c, msg |-> msg]
          \/ \E msg \in Msg : msg.body = t /\ Has(m_pendingFunctors[l], RawSend(c, msg))
          \/ \E msg \in Msg : msg.body = t /\ Has(functors[l], RawSend(c, msg))
    BY <1>3, <1>4, <1>5, <1>6
  <1>8. QED BY <1>2, <1>7 DEF Carried, OnItsWay

\* The queued sends of a loop are what they were.
SendsKept ==
    \A k \in Loops, c \in Conns, msg \in Msg :
        Has(m_pendingFunctors'[k], RawSend(c, msg)) \/ Has(functors'[k], RawSend(c, msg))
          <=> Has(m_pendingFunctors[k], RawSend(c, msg)) \/ Has(functors[k], RawSend(c, msg))

\* Then, and with no send begun or made, every message is where it was.
LEMMA CarriedFrame ==
    ASSUME SendsKept, UNCHANGED <<sending, output>>
    PROVE  \A c \in Conns, msg \in Msg : Carried(c, msg)' <=> Carried(c, msg)
  BY DEF SendsKept, Carried, OnItsWay

\* Queueing one of the shared functors, or nothing.
LEMMA SharedKept ==
    ASSUME TypeInv, NEW x \in Conns, NEW name \in FunctorName, NEW k \in Loops,
           queueInLoop(k, Shared(name, x)) \/ UNCHANGED m_pendingFunctors
    PROVE  \A j \in Loops, c \in Conns, msg \in Msg :
             Has(m_pendingFunctors'[j], RawSend(c, msg)) <=> Has(m_pendingFunctors[j], RawSend(c, msg))
  <1>1. name # "sendInLoop" /\ Shared(name, x) \in Functor
    BY SharedType DEF FunctorName
  <1>2. QED BY <1>1, QueueAppend, RawSendNotShared

\* What handleClose does to the queues.
LEMMA CloseKept ==
    ASSUME TypeInv, NEW x \in Conns, handleClose(x)
    PROVE  \A j \in Loops, c \in Conns, msg \in Msg :
             Has(m_pendingFunctors'[j], RawSend(c, msg)) <=> Has(m_pendingFunctors[j], RawSend(c, msg))
  <1>1. \/ queueInLoop(MainLoop, Shared("removeConnectionInLoop", x))
        \/ UNCHANGED m_pendingFunctors
    BY DEF handleClose
  <1>2. MainLoop \in Loops /\ "removeConnectionInLoop" \in FunctorName
    BY DEF Loops, FunctorName
  <1>3. QED BY <1>1, <1>2, SharedKept

\* Running a functor that is no send.
LEMMA RunKept ==
    ASSUME TypeInv, NEW l \in Loops, NEW name \in FunctorName, Runs(l, name),
           NEW x \in Conns, NEW n \in FunctorName, NEW k \in Loops,
           queueInLoop(k, Shared(n, x)) \/ UNCHANGED m_pendingFunctors
    PROVE  SendsKept /\ UNCHANGED sending
  <1>1. name # "sendInLoop"
    BY DEF FunctorName
  <1>2. \A j \in Loops, c \in Conns, msg \in Msg :
          Has(functors'[j], RawSend(c, msg)) <=> Has(functors[j], RawSend(c, msg))
    BY <1>1, QueueRun, RawSendNotShared
  <1>3. QED BY <1>2, SharedKept DEF SendsKept, Runs

\* doOtherTasks moves the functors of its loop from one vector to the other.
LEMMA SwapKept ==
    ASSUME TypeInv, NEW l \in Loops, doOtherTasks(l)
    PROVE  SendsKept /\ UNCHANGED <<sending, output>>
  <1>1. /\ functors[l] = <<>> /\ functors'[l] = m_pendingFunctors[l]
        /\ m_pendingFunctors'[l] = <<>>
        /\ \A k \in Loops : k # l => /\ functors'[k] = functors[k]
                                     /\ m_pendingFunctors'[k] = m_pendingFunctors[k]
    BY DEF doOtherTasks, AtRest, TypeInv, TypeOK
  <1>2. QED BY <1>1, HasNothing DEF SendsKept, doOtherTasks, outVars
\* sendInLoop appends the message, or drops it because the connection is closed
\* or its socket fails.
LEMMA SendCarries ==
    ASSUME TypeInv, NEW x \in Conns, NEW m \in Msg, sendInLoop(x, m)
    PROVE  /\ \A c \in Conns, msg \in Msg :
                /\ Has(output'[c], msg) => Has(output[c], msg) \/ (c = x /\ msg = m)
                /\ Has(output[c], msg) => Has(output'[c], msg)
           /\ Has(output'[x], m) \/ m_state[x] = "kDisconnected" \/ x \in faulted'
           /\ faulted \subseteq faulted'
  <1>1. output \in [Conns -> Seq(Msg)]
    BY DEF TypeInv, TypeOK
  <1>2. CASE output' = [output EXCEPT ![x] = Append(@, m)] /\ UNCHANGED faulted
    <2>1. /\ output'[x] = Append(output[x], m)
          /\ \A c \in Conns : c # x => output'[c] = output[c]
      BY <1>1, <1>2
    <2>2. output[x] \in Seq(Msg)
      BY <1>1
    <2>3. \A msg : Has(output'[x], msg) <=> Has(output[x], msg) \/ msg = m
      BY <2>1, <2>2, OutputAppend
    <2>4. QED BY <1>2, <2>1, <2>3
  <1>3. CASE UNCHANGED output /\ faulted' = faulted \cup {x}
    BY <1>3
  <1>4. CASE UNCHANGED <<output, faulted>> /\ m_state[x] = "kDisconnected"
    BY <1>4
  <1>5. QED BY <1>2, <1>3, <1>4 DEF sendInLoop, outVars

\* What a step may do to the messages: it makes none, loses none except of a
\* closed connection or a failed socket, and a failed socket stays failed.
Conserves ==
    /\ \A c \in Conns, msg \in Msg :
         /\ Carried(c, msg)' => Carried(c, msg)
         /\ Carried(c, msg) => Carried(c, msg)' \/ m_state'[c] = "kDisconnected" \/ c \in faulted'
    /\ faulted \subseteq faulted'

\* A step that leaves every message where it is.
LEMMA ConservesFrame ==
    ASSUME SendsKept, UNCHANGED <<sending, output, faulted>>
    PROVE  Conserves
  BY CarriedFrame DEF Conserves

\* The functor of a send from another thread delivers its message.
LEMMA ConservesRunSend ==
    ASSUME TypeInv, NEW l \in Loops, runSendInLoop(l)
    PROVE  Conserves
  <1> DEFINE x == Head(functors[l]).conn
  <1> DEFINE m == Head(functors[l]).msg
  <1>1. /\ Runs(l, "sendInLoop") /\ sendInLoop(x, m)
        /\ UNCHANGED <<m_state, m_pendingFunctors, sending>>
    BY DEF runSendInLoop, Runs
  <1>2. functors[l] \in Seq(Functor) /\ functors[l] # <<>> /\ Head(functors[l]).fn = "sendInLoop"
    BY <1>1 DEF TypeInv, TypeOK, Runs
  <1>3. Head(functors[l]) \in Functor /\ x \in Conns /\ m \in Msg
    BY <1>2, HeadType
  <1>4. Head(functors[l]) = RawSend(x, m)
    BY <1>2, <1>3 DEF Functor, FunctorName, RawSend
  <1>5. \A k \in Loops, c \in Conns, msg \in Msg :
          Has(functors[k], RawSend(c, msg))
            <=> Has(functors'[k], RawSend(c, msg)) \/ (k = l /\ c = x /\ msg = m)
    BY <1>1, <1>4, QueueRun, RawSendInjective
  <1> HIDE DEF x, m
  <1>6. /\ \A c \in Conns, msg \in Msg :
             /\ Has(output'[c], msg) => Has(output[c], msg) \/ (c = x /\ msg = m)
             /\ Has(output[c], msg) => Has(output'[c], msg)
        /\ Has(output'[x], m) \/ m_state[x] = "kDisconnected" \/ x \in faulted'
        /\ faulted \subseteq faulted'
    BY <1>1, <1>3, SendCarries
  <1>7. OnItsWay(x, m)
    BY <1>3, <1>5 DEF OnItsWay
  <1>8. ASSUME NEW c \in Conns, NEW msg \in Msg
        PROVE  /\ OnItsWay(c, msg)' => OnItsWay(c, msg)
               /\ OnItsWay(c, msg) => OnItsWay(c, msg)' \/ (c = x /\ msg = m)
    BY <1>1, <1>5 DEF OnItsWay
  <1>9. QED BY <1>1, <1>6, <1>7, <1>8 DEF Conserves, Carried

\* EventLoop::loop and the handlers it calls.
LEMMA ConservesLoop ==
    ASSUME TypeInv, NEW l \in Loops, LoopStep(l)
    PROVE  Conserves
  <1>1. CASE poll(l) \/ (\E c \in Conns : handleEvent(l, c)) \/ handleReadData(l) \/ handleWrite(l)
    <2>1. UNCHANGED <<m_pendingFunctors, functors, sending, output, faulted>>
      BY <1>1 DEF poll, handleEvent, handleReadData, handleWrite, loopVars, outVars
    <2>2. QED BY <2>1, ConservesFrame DEF SendsKept
  <1>2. CASE onCloseEvent(l) \/ handleReadEnd(l) \/ handleWriteFails(l)
    <2>1. current[l].conn \in Conns
      BY <1>2, CallbackConn DEF onCloseEvent, handleReadEnd, handleWriteFails, Calls
    <2>2. handleClose(current[l].conn) /\ UNCHANGED <<functors, sending, output, faulted>>
      BY <1>2 DEF onCloseEvent, handleReadEnd, handleWriteFails, loopVars, outVars
    <2>3. SendsKept
      BY <2>1, <2>2, CloseKept DEF SendsKept
    <2>4. QED BY <2>2, <2>3, ConservesFrame
  <1>3. CASE doOtherTasks(l)
    BY <1>3, SwapKept, ConservesFrame DEF doOtherTasks, outVars
  <1>4. ASSUME NEW name \in FunctorName, Runs(l, name), UNCHANGED <<output, faulted>>,
               NEW n \in FunctorName, NEW k \in Loops,
               \/ queueInLoop(k, Shared(n, Head(functors[l]).conn))
               \/ UNCHANGED m_pendingFunctors
        PROVE  Conserves
    BY <1>4, RunsType, RunKept, ConservesFrame
  <1>5. /\ {"connectEstablished", "removeConnectionInLoop", "connectDestroyed",
            "forceCloseInLoop"} \subseteq FunctorName
        /\ MainLoop \in Loops
    BY DEF FunctorName, Loops
  <1>6. CASE connectEstablished(l) \/ connectEstablishedFails(l)
    <2>1. /\ Runs(l, "connectEstablished") /\ UNCHANGED <<output, faulted>>
          /\ \/ queueInLoop(MainLoop, Shared("removeConnectionInLoop", Head(functors[l]).conn))
             \/ UNCHANGED m_pendingFunctors
      BY <1>6 DEF connectEstablished, connectEstablishedFails, outVars
    <2>2. QED BY <1>4, <1>5, <2>1
  <1>7. CASE forceCloseInLoop(l)
    <2>1. /\ Runs(l, "forceCloseInLoop") /\ UNCHANGED <<output, faulted>>
          /\ \/ queueInLoop(MainLoop, Shared("removeConnectionInLoop", Head(functors[l]).conn))
             \/ UNCHANGED m_pendingFunctors
      BY <1>7 DEF forceCloseInLoop, handleClose, outVars
    <2>2. QED BY <1>4, <1>5, <2>1
  <1>8. CASE removeConnectionInLoop(l)
    <2>1. /\ Runs(l, "removeConnectionInLoop") /\ UNCHANGED <<output, faulted>>
          /\ \/ queueInLoop(m_loop[Head(functors[l]).conn],
                            Shared("connectDestroyed", Head(functors[l]).conn))
             \/ UNCHANGED m_pendingFunctors
      BY <1>8 DEF removeConnectionInLoop, outVars
    <2>2. m_loop[Head(functors[l]).conn] \in Loops
      BY <2>1, RunsType DEF TypeInv, TypeOK
    <2>3. QED BY <1>4, <1>5, <2>1, <2>2
  <1>9. CASE connectDestroyed(l)
    <2>1. /\ Runs(l, "connectDestroyed") /\ UNCHANGED <<output, faulted>>
          /\ UNCHANGED m_pendingFunctors
      BY <1>9 DEF connectDestroyed, outVars
    <2>2. QED BY <1>4, <1>5, <2>1
  <1>10. QED
    BY <1>1, <1>2, <1>3, <1>6, <1>7, <1>8, <1>9, ConservesRunSend DEF LoopStep, RunFunctor

\* The callback's other calls, and new connections.
LEMMA ConservesRest ==
    ASSUME TypeInv, NEW l \in Loops,
           \/ sendQueued(l)
           \/ messageReturn(l)
           \/ forceClose(l)
           \/ l \in IoLoops /\ \E c \in Conns : newConnection(c, l)
    PROVE  Conserves
  <1>1. CASE messageReturn(l)
    <2>1. UNCHANGED <<m_pendingFunctors, functors, sending, output, faulted>>
      BY <1>1 DEF messageReturn, loopVars, outVars
    <2>2. QED BY <2>1, ConservesFrame DEF SendsKept
  <1>2. CASE forceClose(l)
    <2>1. current[l].conn \in Conns /\ m_loop[current[l].conn] \in Loops
      BY <1>2, CallbackConn DEF forceClose, InCallback, TypeInv, TypeOK
    <2>2. /\ \/ queueInLoop(m_loop[current[l].conn], Shared("forceCloseInLoop", current[l].conn))
             \/ UNCHANGED m_pendingFunctors
          /\ UNCHANGED <<functors, sending, output, faulted>>
      BY <1>2 DEF forceClose, loopVars, outVars
    <2>3. "forceCloseInLoop" \in FunctorName
      BY DEF FunctorName
    <2>4. SendsKept
      BY <2>1, <2>2, <2>3, SharedKept DEF SendsKept
    <2>5. QED BY <2>2, <2>4, ConservesFrame
  <1>3. ASSUME NEW c \in Conns, newConnection(c, l) PROVE Conserves
    <2>1. /\ queueInLoop(l, Shared("connectEstablished", c))
          /\ UNCHANGED <<functors, sending, output, faulted>>
      BY <1>3 DEF newConnection, loopVars, outVars
    <2>2. "connectEstablished" \in FunctorName
      BY DEF FunctorName
    <2>3. SendsKept
      BY <1>3, <2>1, <2>2, SharedKept DEF SendsKept
    <2>4. QED BY <2>1, <2>3, ConservesFrame
  <1>4. CASE sendQueued(l)
    <2>1. PICK x, m : x = sending[l].conn /\ m = sending[l].msg
      OBVIOUS
    <2>2. /\ sending[l] # Idle
          /\ queueInLoop(m_loop[x], RawSend(x, m))
          /\ sending' = [sending EXCEPT ![l] = Idle]
          /\ UNCHANGED <<functors, output, faulted>>
      BY <1>4, <2>1 DEF sendQueued, loopVars, outVars
    <2>3. x \in Conns /\ m \in Msg /\ sending[l] = [conn |-> x, msg |-> m]
      BY <2>1, <2>2, SendingIs
    <2>4. m_loop[x] \in Loops /\ RawSend(x, m) \in Functor
      BY <2>3, RawSendType DEF TypeInv, TypeOK
    <2>5. \A k \in Loops, c \in Conns, msg \in Msg :
            Has(m_pendingFunctors'[k], RawSend(c, msg))
              <=> Has(m_pendingFunctors[k], RawSend(c, msg)) \/ (k = m_loop[x] /\ c = x /\ msg = m)
      BY <2>2, <2>4, QueueAppend, RawSendInjective
    <2>6. sending'[l] = Idle /\ \A k \in Loops : k # l => sending'[k] = sending[k]
      BY <2>2 DEF TypeInv, TypeOK
    <2>7. \A c \in Conns, msg \in Msg :
            sending[l] = [conn |-> c, msg |-> msg] <=> c = x /\ msg = m
      BY <2>3
    <2>8. \A c \in Conns, msg \in Msg : OnItsWay(c, msg)' <=> OnItsWay(c, msg)
      <3>1. ASSUME NEW c \in Conns, NEW msg \in Msg, OnItsWay(c, msg)' PROVE OnItsWay(c, msg)
        <4>1. PICK k \in Loops : \/ sending'[k] = [conn |-> c, msg |-> msg]
                                 \/ Has(m_pendingFunctors'[k], RawSend(c, msg))
                                 \/ Has(functors'[k], RawSend(c, msg))
          BY <3>1 DEF OnItsWay
        <4>2. QED BY <2>2, <2>5, <2>6, <2>7, <4>1, IdleCarries DEF OnItsWay
      <3>2. ASSUME NEW c \in Conns, NEW msg \in Msg, OnItsWay(c, msg) PROVE OnItsWay(c, msg)'
        <4>1. PICK k \in Loops : \/ sending[k] = [conn |-> c, msg |-> msg]
                                 \/ Has(m_pendingFunctors[k], RawSend(c, msg))
                                 \/ Has(functors[k], RawSend(c, msg))
          BY <3>2 DEF OnItsWay
        <4>2. QED BY <2>2, <2>4, <2>5, <2>6, <2>7, <4>1 DEF OnItsWay
      <3>3. QED BY <3>1, <3>2
    <2>9. QED BY <2>2, <2>8 DEF Conserves, Carried
  <1>5. QED BY <1>1, <1>2, <1>3, <1>4

\* TcpSession::send carries its text to its connection and nothing else
\* anywhere, and loses nothing but what cannot be sent.
LEMMA SendConserves ==
    ASSUME TypeInv, NEW l \in Loops, NEW x \in Conns, NEW body \in Payload, send(l, x, body)
    PROVE  /\ \A c \in Conns, msg \in Msg :
                /\ Carried(c, msg)' => Carried(c, msg) \/ (c = x /\ msg.body = body)
                /\ Carried(c, msg) => Carried(c, msg)'
           /\ \/ NotSent(x) \/ x \in faulted'
              \/ \E msg \in Msg : msg.body = body /\ Carried(x, msg)'
           /\ faulted \subseteq faulted' /\ UNCHANGED m_state
  <1>1. CASE NotSent(x) /\ UNCHANGED vars
    <2>1. UNCHANGED <<sending, m_pendingFunctors, functors, output, faulted, m_state>>
      BY <1>1 DEF vars
    <2>2. QED BY <1>1, <2>1 DEF Carried, OnItsWay
  <1>2. ASSUME sent[l] < MaxSends PROVE NewMsg(l, body) \in Msg /\ NewMsg(l, body).body = body
    BY <1>2, MaxSendsAssumption DEF NewMsg, Msg, TypeInv, TypeOK
  <1>3. CASE sendHere(l, x, body)
    <2>1. PICK m \in Msg : m = NewMsg(l, body) /\ m.body = body
      BY <1>2, <1>3 DEF sendHere
    <2>2. /\ sendInLoop(x, m) /\ m_state[x] = "kConnected"
          /\ UNCHANGED <<sending, m_pendingFunctors, functors, m_state>>
      BY <1>3, <2>1 DEF sendHere, loopVars
    <2>3. /\ \A c \in Conns, msg \in Msg :
                /\ Has(output'[c], msg) => Has(output[c], msg) \/ (c = x /\ msg = m)
                /\ Has(output[c], msg) => Has(output'[c], msg)
          /\ Has(output'[x], m) \/ x \in faulted'
          /\ faulted \subseteq faulted'
      BY <2>2, SendCarries
    <2>4. \A c \in Conns, msg \in Msg : OnItsWay(c, msg)' <=> OnItsWay(c, msg)
      BY <2>2 DEF OnItsWay
    <2>5. QED BY <2>1, <2>2, <2>3, <2>4 DEF Carried
  <1>4. CASE sendChecked(l, x, body)
    <2>1. PICK m \in Msg : m = NewMsg(l, body) /\ m.body = body
      BY <1>2, <1>4 DEF sendChecked
    <2>2. /\ sending[l] = Idle
          /\ sending' = [sending EXCEPT ![l] = [conn |-> x, msg |-> m]]
          /\ UNCHANGED <<output, faulted, m_pendingFunctors, functors, m_state>>
      BY <1>4, <2>1 DEF sendChecked, InCallback, loopVars, outVars
    <2>3. /\ sending'[l] = [conn |-> x, msg |-> m]
          /\ \A k \in Loops : k # l => sending'[k] = sending[k]
      BY <2>2 DEF TypeInv, TypeOK
    <2>4. ASSUME NEW c \in Conns, NEW msg \in Msg
          PROVE  /\ OnItsWay(c, msg)' => OnItsWay(c, msg) \/ (c = x /\ msg = m)
                 /\ OnItsWay(c, msg) => OnItsWay(c, msg)'
      BY <2>2, <2>3, IdleCarries DEF OnItsWay
    <2>5. OnItsWay(x, m)'
      BY <2>3 DEF OnItsWay
    <2>6. QED BY <2>1, <2>2, <2>4, <2>5 DEF Carried
  <1>5. QED BY <1>1, <1>3, <1>4 DEF send
-----------------------------------------------------------------------------
(* Chat messages: stored before anyone gets them, and sent to everyone.    *)

\* No message is lost but those of a closed connection or a failed socket.
Keeps ==
    /\ \A c \in Conns, msg \in Msg :
         Carried(c, msg) => Carried(c, msg)' \/ m_state'[c] = "kDisconnected" \/ c \in faulted'
    /\ faulted \subseteq faulted'

\* A chat text that is new somewhere is the one a thread is broadcasting.
OnlyBroadcasts ==
    \A c \in Conns, msg \in Msg :
        Carried(c, msg)' => \/ Carried(c, msg)
                            \/ msg.body \notin Texts
                            \/ \E l \in Loops : job[l].step = "send" /\ msg.body = job[l].text

\* The server's own answers are no chat texts.
LEMMA AnswersConserve ==
    ASSUME TypeInv, NEW l \in Loops, NEW x \in Conns,
           NEW body \in {"kickuser", "code0", "code1", "code2"}, send(l, x, body)
    PROVE  Keeps /\ OnlyBroadcasts
  <1>1. body \in Payload /\ body \notin Texts
    BY PayloadAssumption, TextsAssumption
  <1>2. QED BY <1>1, SendConserves DEF Keeps, OnlyBroadcasts

\* What ChatSession does to the messages.
LEMMA SessionConserves ==
    ASSUME ChatTypeInv, NEW l \in Loops, SessionStep(l)
    PROVE  Keeps /\ OnlyBroadcasts
  <1>1. TypeInv
    BY DEF ChatTypeInv
  <1>2. InCallback(l) => Session(l) \in Conns
    BY SessionType
  <1>3. Conserves => Keeps /\ OnlyBroadcasts
    BY DEF Conserves, Keeps, OnlyBroadcasts
  <1>4. CASE onReadReturn(l) \/ processFails(l) \/ chatSendQueued(l)
    BY <1>1, <1>3, <1>4, ConservesRest DEF onReadReturn, processFails, chatSendQueued
  <1>5. CASE notLogin(l) \/ onQuery(l) \/ loginRefused(l) \/ loginRecord(l)
    <2>1. Session(l) \in Conns
      BY <1>2, <1>5 DEF notLogin, onQuery, loginRefused, loginRecord, NextRequest
    <2>2. PICK body \in {"kickuser", "code0", "code1", "code2"} : send(l, Session(l), body)
      BY <1>5 DEF notLogin, onQuery, loginRefused, loginRecord
    <2>3. QED BY <1>1, <2>1, <2>2, AnswersConserve
  <1>6. CASE loginKick(l)
    <2>1. job[l].target \in Conns /\ send(l, job[l].target, "kickuser")
      BY <1>6 DEF loginKick, ChatTypeInv, KickHasTarget
    <2>2. QED BY <1>1, <2>1, AnswersConserve
  <1>7. CASE broadcast(l)
    <2>1. job[l] \in JobType /\ job[l].rest # <<>> /\ job[l].step = "send"
      BY <1>7 DEF broadcast, ChatTypeInv, ChatTypeOK, JobType
    <2>2. Head(job[l].rest) \in Conns /\ job[l].text \in Payload
      BY <2>1 DEF JobType
    <2>3. send(l, Head(job[l].rest), job[l].text)
      BY <1>7 DEF broadcast
    <2>4. \A c \in Conns, msg \in Msg :
            /\ Carried(c, msg)' => Carried(c, msg) \/ msg.body = job[l].text
            /\ Carried(c, msg) => Carried(c, msg)'
      BY <1>1, <2>2, <2>3, SendConserves
    <2>5. faulted \subseteq faulted'
      BY <1>1, <2>2, <2>3, SendConserves
    <2>6. QED BY <2>1, <2>4, <2>5 DEF Keeps, OnlyBroadcasts
  <1>8. CASE (\E u \in Users \cup {NoUser} : login(l, u)) \/ loginInvalidate(l)
               \/ (\E t \in Texts : onChat(l, t)) \/ getSessions(l) \/ broadcastDone(l)
    <2>1. UNCHANGED vars
      BY <1>8 DEF login, loginInvalidate, onChat, getSessions, broadcastDone
    <2>2. UNCHANGED <<m_pendingFunctors, functors, sending, output, faulted>>
      BY <2>1 DEF vars
    <2>3. QED BY <1>3, <2>2, ConservesFrame DEF SendsKept
  <1>9. QED BY <1>4, <1>5, <1>6, <1>7, <1>8 DEF SessionStep

\* What any step of the chat server does to the messages.
LEMMA ChatConserves ==
    ASSUME ChatTypeInv, [ChatNext]_allVars
    PROVE  Keeps /\ OnlyBroadcasts
  <1>1. TypeInv
    BY DEF ChatTypeInv
  <1>2. Conserves => Keeps /\ OnlyBroadcasts
    BY DEF Conserves, Keeps, OnlyBroadcasts
  <1>3. CASE UNCHANGED allVars
    <2>1. UNCHANGED <<m_pendingFunctors, functors, sending, output, faulted>>
      BY <1>3 DEF allVars, vars
    <2>2. QED BY <1>2, <2>1, ConservesFrame DEF SendsKept
  <1>4. ASSUME NEW l \in Loops, chatLoopStep(l) PROVE Keeps /\ OnlyBroadcasts
    BY <1>1, <1>2, <1>4, ConservesLoop DEF chatLoopStep
  <1>5. ASSUME NEW c \in Conns, NEW l \in IoLoops, chatNewConnection(c, l)
        PROVE  Keeps /\ OnlyBroadcasts
    BY <1>1, <1>2, <1>5, ConservesRest DEF chatNewConnection, Loops
  <1>6. QED BY <1>3, <1>4, <1>5, SessionConserves DEF ChatNext

Stored(t) == t \in ToSet(redis) \cup lost

\* A text that is being broadcast has been stored, or its storing has failed.
TextStored == \A l \in Loops : job[l].step \in {"copy", "send"} => Stored(job[l].text)

\* StoredBeforeBroadcast, message by message.
CarriedStored ==
    \A c \in Conns, msg \in Msg : Carried(c, msg) /\ msg.body \in Texts => Stored(msg.body)

\* The two say the same.
LEMMA StoredIs == TypeInv => (StoredBeforeBroadcast <=> CarriedStored)
  BY TextCarried DEF StoredBeforeBroadcast, CarriedStored, Stored

\* What is stored stays so, and onChat stores what it will broadcast.
LEMMA StoreGrows ==
    ASSUME ChatTypeInv, NEW l \in Loops, SessionStep(l)
    PROVE  /\ \A t : Stored(t) => Stored(t)'
           /\ \A t \in Texts : onChat(l, t) => Stored(t)'
  <1>1. redis \in Seq(Texts)
    BY DEF ChatTypeInv, ChatTypeOK
  <1>2. ASSUME NEW t \in Texts, onChat(l, t)
        PROVE  Stored(t)' /\ \A u : Stored(u) => Stored(u)'
    <2>1. ToSet(Append(redis, t)) = ToSet(redis) \cup {t}
      <3>1. PICK n \in Nat : n = Len(redis) /\ DOMAIN redis = 1..n
        BY <1>1
      <3>2. /\ DOMAIN Append(redis, t) = 1..(n + 1)
            /\ \A i \in 1..n : Append(redis, t)[i] = redis[i]
            /\ Append(redis, t)[n + 1] = t
        BY <1>1, <3>1
      <3>3. 1..(n + 1) = 1..n \cup {n + 1}
        OBVIOUS
      <3>4. PICK r : r = Append(redis, t)
        OBVIOUS
      <3>5. \A u : (\E i \in 1..(n + 1) : r[i] = u) <=> (\E i \in 1..n : redis[i] = u) \/ u = t
        BY <3>2, <3>3, <3>4
      <3>6. QED BY <3>1, <3>2, <3>4, <3>5 DEF ToSet
    <2>2. \/ redis' = Append(redis, t) /\ lost' = lost
          \/ redis' = redis /\ lost' = lost \cup {t}
      BY <1>2 DEF onChat
    <2>3. QED BY <2>1, <2>2 DEF Stored
  <1>3. CASE UNCHANGED <<redis, lost>>
    BY <1>2, <1>3 DEF Stored
  <1>4. UNCHANGED <<redis, lost>> \/ \E t \in Texts : onChat(l, t)
    BY DEF SessionStep, onReadReturn, processFails, notLogin, onQuery, loginRefused, login,
           loginKick, loginInvalidate, loginRecord, getSessions, broadcast, broadcastDone,
           chatSendQueued, chatVars, historyVars
  <1>5. QED BY <1>2, <1>3, <1>4

\* The text of a job comes from onChat.
LEMMA JobText ==
    ASSUME ChatTypeInv, NEW l \in Loops, SessionStep(l)
    PROVE  /\ \A k \in Loops : k # l => job'[k] = job[k]
           /\ job'[l].step \in {"copy", "send"} =>
                \/ job[l].step \in {"copy", "send"} /\ job'[l].text = job[l].text
                \/ \E t \in Texts : onChat(l, t) /\ job'[l].text = t
  <1>1. job \in [Loops -> JobType]
    BY DEF ChatTypeInv, ChatTypeOK, JobType
  <1>2. CASE \/ onReadReturn(l) \/ processFails(l) \/ notLogin(l) \/ onQuery(l)
             \/ loginRefused(l) \/ chatSendQueued(l)
    <2>1. UNCHANGED job
      BY <1>2 DEF onReadReturn, processFails, notLogin, onQuery, loginRefused, chatSendQueued,
                  chatVars
    <2>2. QED BY <2>1
  <1>3. ASSUME NEW u \in Users \cup {NoUser}, login(l, u)
        PROVE  /\ \A k \in Loops : k # l => job'[k] = job[k]
               /\ job'[l].step \in {"kick", "record"}
    BY <1>1, <1>3 DEF login, NoJob
  <1>4. CASE loginKick(l) \/ loginInvalidate(l)
    <2>1. PICK st \in {"invalidate", "record"} : job' = [job EXCEPT ![l].step = st]
      BY <1>4 DEF loginKick, loginInvalidate
    <2>2. (\A k \in Loops : k # l => job'[k] = job[k]) /\ job'[l].step = st
      BY <1>1, <2>1 DEF JobType
    <2>3. QED BY <2>2
  <1>5. CASE loginRecord(l) \/ broadcastDone(l)
    <2>1. job' = [job EXCEPT ![l] = NoJob] /\ NoJob.step = "idle"
      BY <1>5 DEF loginRecord, broadcastDone, NoJob
    <2>2. QED BY <1>1, <2>1
  <1>6. ASSUME NEW t \in Texts, onChat(l, t)
        PROVE  (\A k \in Loops : k # l => job'[k] = job[k]) /\ job'[l].text = t
    BY <1>1, <1>6 DEF onChat, NoJob
  <1>7. CASE getSessions(l) \/ broadcast(l)
    <2>1. job[l].step \in {"copy", "send"}
      BY <1>7 DEF getSessions, broadcast
    <2>2. (\A k \in Loops : k # l => job'[k] = job[k]) /\ job'[l].text = job[l].text
      BY <1>1, <1>7 DEF getSessions, broadcast, JobType
    <2>3. QED BY <2>1, <2>2
  <1>8. CASE \E u \in Users \cup {NoUser} : login(l, u)
    BY <1>3, <1>8
  <1>9. CASE \E t \in Texts : onChat(l, t)
    BY <1>6, <1>9
  <1>10. QED BY <1>2, <1>4, <1>5, <1>7, <1>8, <1>9 DEF SessionStep

\* Every step preserves that texts are stored first.
LEMMA StoredStep ==
    ASSUME ChatTypeInv, CarriedStored, TextStored, [ChatNext]_allVars
    PROVE  CarriedStored' /\ TextStored'
  <1>1. (\A t : Stored(t) => Stored(t)') /\ TextStored'
    <2>1. CASE UNCHANGED <<job, redis, lost>>
      BY <2>1 DEF Stored, TextStored
    <2>2. ASSUME NEW l \in Loops, SessionStep(l)
          PROVE  (\A t : Stored(t) => Stored(t)') /\ TextStored'
      <3>1. \A t : Stored(t) => Stored(t)'
        BY <2>2, StoreGrows
      <3>2. ASSUME NEW k \in Loops, job'[k].step \in {"copy", "send"}, NEW x, x = job'[k].text
            PROVE  Stored(x)'
        <4>1. CASE job[k].step \in {"copy", "send"} /\ job'[k].text = job[k].text
          <5>1. Stored(x)
            BY <3>2, <4>1 DEF TextStored
          <5>2. QED BY <3>1, <5>1
        <4>2. CASE \E t \in Texts : onChat(l, t) /\ job'[k].text = t
          BY <2>2, <3>2, <4>2, StoreGrows
        <4>3. \/ job[k].step \in {"copy", "send"} /\ job'[k].text = job[k].text
              \/ \E t \in Texts : onChat(l, t) /\ job'[k].text = t
          BY <2>2, <3>2, JobText
        <4>4. QED BY <4>1, <4>2, <4>3
      <3>3. QED BY <3>1, <3>2 DEF TextStored, Stored
    <2>3. UNCHANGED <<job, redis, lost>> \/ \E l \in Loops : SessionStep(l)
      BY DEF ChatNext, allVars, chatVars, historyVars, chatLoopStep, chatNewConnection
    <2>4. QED BY <2>1, <2>2, <2>3
  <1>2. OnlyBroadcasts
    BY ChatConserves
  <1>3. CarriedStored'
    <2>1. ASSUME NEW c \in Conns, NEW msg \in Msg, Carried(c, msg)', msg.body \in Texts
          PROVE  Stored(msg.body)
      BY <1>2, <2>1 DEF OnlyBroadcasts, CarriedStored, TextStored
    <2>2. QED BY <1>1, <2>1 DEF CarriedStored
  <1>4. QED BY <1>1, <1>3

\* Nobody receives a chat message that was not first handed to Redis, for any
\* number of clients, loops and messages, whatever sends, loops and closing
\* connections interleave: onChatResponse stores, then copies the list, then sends.
THEOREM ChatStoredBeforeBroadcast == ChatSpec => []StoredBeforeBroadcast
  <1>1. ChatInit => CarriedStored /\ TextStored
    <2> SUFFICES ASSUME ChatInit PROVE CarriedStored /\ TextStored
      OBVIOUS
    <2>1. TextStored
      BY DEF ChatInit, TextStored, NoJob
    <2>2. ASSUME NEW c \in Conns, NEW msg \in Msg PROVE ~Carried(c, msg)
      BY HasNothing, IdleCarries DEF ChatInit, Init, Carried, OnItsWay
    <2>3. QED BY <2>1, <2>2 DEF CarriedStored
  <1>2. ChatTypeInv /\ CarriedStored => StoredBeforeBroadcast
    BY StoredIs DEF ChatTypeInv
  <1>3. QED BY <1>1, <1>2, ChatTypeInit, ChatTypeStep, StoredStep, PTL DEF ChatSpec
\* A connection that was up and is being closed or closed.
Gone(c) == m_state[c] \in {"kDisconnecting", "kDisconnected"}
WasUp(c) == m_state[c] \notin {"none", "kConnecting"}

\* A text has reached c, is on its way there, or cannot reach it any more.
Reached(c, t) ==
    \/ \E msg \in Msg : msg.body = t /\ Carried(c, msg)
    \/ Gone(c)
    \/ c \in faulted

\* Whoever is in a broadcast's copy of the list was connected once, and those
\* whose turn has been have the text.
BroadcastInv ==
    \A l \in Loops : job[l].step = "send" =>
        /\ \A c \in job[l].held : WasUp(c)
        /\ \A c \in job[l].held \ ToSet(job[l].rest) : Reached(c, job[l].text)

\* A connection never goes back.
LEMMA StateForward ==
    ASSUME TypeInv, [Next]_vars
    PROVE  \A c \in Conns : (WasUp(c) => WasUp(c)') /\ (Gone(c) => Gone(c)')
  <1>1. m_state \in [Conns -> StateE]
    BY DEF TypeInv, TypeOK
  <1>2. CASE UNCHANGED m_state
    BY <1>2 DEF WasUp, Gone
  <1>3. ASSUME NEW x \in Conns, NEW t, m_state' = [m_state EXCEPT ![x] = t],
               \/ ~WasUp(x)
               \/ t = "kDisconnected"
               \/ t = "kDisconnecting"
        PROVE  \A c \in Conns : (WasUp(c) => WasUp(c)') /\ (Gone(c) => Gone(c)')
    BY <1>1, <1>3 DEF WasUp, Gone
  <1>4. ASSUME NEW l \in Loops, LoopStep(l)
        PROVE  \A c \in Conns : (WasUp(c) => WasUp(c)') /\ (Gone(c) => Gone(c)')
    <2>1. ASSUME NEW x \in Conns, m_state[x] = "kConnecting", Moves(x, "kConnected", 1, 0)
          PROVE  \A c \in Conns : (WasUp(c) => WasUp(c)') /\ (Gone(c) => Gone(c)')
      BY <1>1, <2>1 DEF Moves, WasUp, Gone
    <2>2. ASSUME NEW x \in Conns, Moves(x, "kDisconnected", 0, 1)
          PROVE  \A c \in Conns : (WasUp(c) => WasUp(c)') /\ (Gone(c) => Gone(c)')
      BY <1>1, <2>2 DEF Moves, WasUp, Gone
    <2>3. QED BY <1>2, <1>4, <2>1, <2>2, LoopMoves DEF NoMove
  <1>5. ASSUME NEW l \in Loops, CallbackStep(l)
        PROVE  \A c \in Conns : (WasUp(c) => WasUp(c)') /\ (Gone(c) => Gone(c)')
    <2>1. \/ UNCHANGED m_state
          \/ /\ InCallback(l)
             /\ m_state' = [m_state EXCEPT ![current[l].conn] = "kDisconnecting"]
      BY <1>5 DEF CallbackStep, sendHere, sendChecked, sendQueued, messageReturn, forceClose
    <2>2. InCallback(l) => current[l].conn \in Conns
      BY CallbackConn DEF InCallback
    <2>3. QED BY <1>2, <1>3, <2>1, <2>2
  <1>6. ASSUME NEW x \in Conns, NEW l \in IoLoops, newConnection(x, l)
        PROVE  \A c \in Conns : (WasUp(c) => WasUp(c)') /\ (Gone(c) => Gone(c)')
    BY <1>3, <1>6 DEF newConnection, WasUp
  <1>7. QED BY <1>2, <1>4, <1>5, <1>6 DEF Next, vars

\* Hence what was reached stays reached.
LEMMA ReachedStays ==
    ASSUME ChatTypeInv, [ChatNext]_allVars, NEW c \in Conns, NEW t
    PROVE  Reached(c, t) => Reached(c, t)'
  <1>1. Keeps
    BY ChatConserves
  <1>2. Gone(c) => Gone(c)'
    BY StateForward, ChatRefines DEF ChatTypeInv
  <1>3. QED BY <1>1, <1>2 DEF Keeps, Reached, Gone

\* How a thread comes to be sending.
LEMMA JobSends ==
    ASSUME ChatTypeInv, NEW l \in Loops, SessionStep(l), job'[l].step = "send"
    PROVE  job'[l] = job[l] \/ getSessions(l) \/ broadcast(l)
  <1>1. job \in [Loops -> JobType]
    BY DEF ChatTypeInv, ChatTypeOK, JobType
  <1>2. CASE \/ onReadReturn(l) \/ processFails(l) \/ notLogin(l) \/ onQuery(l)
             \/ loginRefused(l) \/ chatSendQueued(l)
    BY <1>2 DEF onReadReturn, processFails, notLogin, onQuery, loginRefused, chatSendQueued,
                chatVars
  <1>3. ASSUME NEW u \in Users \cup {NoUser}, login(l, u) PROVE FALSE
    <2>1. job'[l].step \in {"kick", "record"}
      BY <1>1, <1>3 DEF login, NoJob
    <2>2. QED BY <2>1
  <1>4. CASE loginKick(l) \/ loginInvalidate(l)
    <2>1. job'[l].step \in {"invalidate", "record"}
      BY <1>1, <1>4 DEF loginKick, loginInvalidate, JobType
    <2>2. QED BY <2>1
  <1>5. CASE loginRecord(l) \/ broadcastDone(l)
    <2>1. job'[l].step = "idle"
      BY <1>1, <1>5 DEF loginRecord, broadcastDone, NoJob
    <2>2. QED BY <2>1
  <1>6. ASSUME NEW t \in Texts, onChat(l, t) PROVE FALSE
    <2>1. job'[l].step = "copy"
      BY <1>1, <1>6 DEF onChat, NoJob
    <2>2. QED BY <2>1
  <1>7. QED BY <1>2, <1>3, <1>4, <1>5, <1>6 DEF SessionStep

\* The next of a broadcast: it gets the text, or is closed, or its socket fails.
LEMMA BroadcastOne ==
    ASSUME ChatTypeInv, LifetimeInv, BroadcastInv, [ChatNext]_allVars,
           NEW l \in Loops, SessionStep(l), broadcast(l)
    PROVE  /\ job'[l].held = job[l].held /\ job'[l].text = job[l].text
           /\ \A c \in job[l].held \ ToSet(job'[l].rest) : Reached(c, job[l].text)'
  <1>1. job \in [Loops -> JobType] /\ job[l].rest # <<>> /\ job[l].step = "send"
    BY DEF broadcast, ChatTypeInv, ChatTypeOK, JobType
  <1>2. PICK x, r, t : x = Head(job[l].rest) /\ r = Tail(job[l].rest) /\ t = job[l].text
    OBVIOUS
  <1>3. /\ job'[l].held = job[l].held /\ job'[l].text = t /\ job'[l].rest = r
        /\ send(l, x, t)
    BY <1>1, <1>2 DEF broadcast, JobType
  <1>4. job[l].rest \in Seq(Conns) /\ t \in Payload /\ job[l].held \subseteq Conns
    BY <1>1, <1>2 DEF JobType
  <1>5. x \in Conns /\ ToSet(job[l].rest) \subseteq ToSet(r) \cup {x}
    <2>1. PICK q \in Seq(Conns) : q = job[l].rest /\ q # <<>>
      BY <1>1, <1>4
    <2>2. x = q[1] /\ x \in Conns /\ Len(q) \in Nat \ {0}
      BY <1>2, <2>1
    <2>3. Len(r) = Len(q) - 1 /\ \A i \in 1..(Len(q) - 1) : r[i] = q[i + 1]
      BY <1>2, <2>1
    <2>4. r \in Seq(Conns)
      BY <1>2, <2>1
    <2>5. ASSUME NEW i \in 1..Len(q), i # 1 PROVE q[i] \in ToSet(r)
      <3>1. i - 1 \in 1..(Len(q) - 1) /\ (i - 1) + 1 = i
        BY <2>2, <2>5
      <3>2. r[i - 1] = q[i] /\ i - 1 \in DOMAIN r
        BY <2>3, <2>4, <3>1
      <3>3. QED BY <3>2 DEF ToSet
    <2>6. QED BY <2>1, <2>2, <2>5 DEF ToSet
  <1>6. \/ NotSent(x) \/ x \in faulted'
        \/ \E msg \in Msg : msg.body = t /\ Carried(x, msg)'
    BY <1>3, <1>4, <1>5, SendConserves DEF ChatTypeInv
  <1>7. NotSent(x) => m_state[x] # "kConnected"
    BY <1>5 DEF NotSent, Alive, LifetimeInv, HeldWhileOpen
  <1>8. ASSUME x \in job[l].held PROVE Reached(x, t)'
    <2>1. WasUp(x) /\ m_state[x] \in StateE
      BY <1>1, <1>5, <1>8 DEF BroadcastInv, ChatTypeInv, TypeInv, TypeOK
    <2>2. CASE NotSent(x)
      <3>1. Gone(x)
        BY <1>7, <2>1, <2>2 DEF Gone, WasUp, StateE
      <3>2. QED BY <1>5, <3>1, ReachedStays DEF Reached
    <2>3. QED BY <1>6, <2>2 DEF Reached
  <1>9. ASSUME NEW c \in job[l].held, c \notin ToSet(r), c # x PROVE Reached(c, t)'
    <2>1. Reached(c, t) /\ c \in Conns
      BY <1>1, <1>2, <1>4, <1>5, <1>9 DEF BroadcastInv
    <2>2. QED BY <2>1, ReachedStays
  <1>10. QED BY <1>2, <1>3, <1>8, <1>9

\* Every step preserves that a broadcast skips nobody.
LEMMA BroadcastStep ==
    ASSUME ChatTypeInv, LifetimeInv, SessionsMatchConnections, BroadcastInv, [ChatNext]_allVars
    PROVE  BroadcastInv'
  <1>1. job \in [Loops -> JobType]
    BY DEF ChatTypeInv, ChatTypeOK, JobType
  <1>2. \A c \in Conns : WasUp(c) => WasUp(c)'
    BY StateForward, ChatRefines DEF ChatTypeInv
  <1>3. SUFFICES ASSUME NEW k \in Loops, job'[k].step = "send"
                 PROVE  /\ \A c \in job'[k].held : WasUp(c)'
                        /\ \A c \in job'[k].held \ ToSet(job'[k].rest) :
                             \A t : t = job'[k].text => Reached(c, t)'
    BY DEF BroadcastInv, Reached
  <1>4. job[k].held \subseteq Conns
    BY <1>1 DEF JobType
  <1>5. CASE job'[k] = job[k]
    <2>1. /\ \A c \in job[k].held : WasUp(c)
          /\ \A c \in job[k].held \ ToSet(job[k].rest) : Reached(c, job[k].text)
      BY <1>3, <1>5 DEF BroadcastInv
    <2>2. PICK t : t = job[k].text
      OBVIOUS
    <2>3. \A c \in Conns : Reached(c, t) => Reached(c, t)'
      BY ReachedStays
    <2>4. QED BY <1>2, <1>4, <1>5, <2>1, <2>2, <2>3
  <1>6. CASE SessionStep(k) /\ broadcast(k)
    BY <1>1, <1>2, <1>4, <1>6, BroadcastOne DEF BroadcastInv, broadcast
  <1>7. CASE getSessions(k)
    <2>1. /\ job'[k].held = ToSet(m_sessions) /\ job'[k].rest = m_sessions
          /\ UNCHANGED m_state
      BY <1>1, <1>7 DEF getSessions, JobType, vars
    <2>2. \A c \in ToSet(m_sessions) : WasUp(c)
      <3>1. ToSet(m_sessions) \subseteq Conns
        BY DEF ChatTypeInv, ChatTypeOK, ToSet
      <3>2. QED BY <3>1 DEF SessionsMatchConnections, WasUp
    <2>3. QED BY <2>1, <2>2 DEF WasUp
  <1>8. job'[k] = job[k] \/ SessionStep(k)
    <2>1. ASSUME NEW l \in Loops, SessionStep(l), l # k PROVE job'[k] = job[k]
      BY <2>1, JobText
    <2>2. UNCHANGED job \/ \E l \in Loops : SessionStep(l)
      BY DEF ChatNext, allVars, chatVars, chatLoopStep, chatNewConnection
    <2>3. QED BY <2>1, <2>2
  <1>9. QED BY <1>3, <1>5, <1>6, <1>7, <1>8, JobSends

\* A broadcast skips no session, for any number of clients and loops: whatever
\* connections open, close and fail while a thread walks through its copy of the
\* list, everybody it has passed has the text, has it on the way, or is gone.
THEOREM ChatBroadcastComplete == ChatSpec => []BroadcastComplete
  <1>1. ChatInit => BroadcastInv /\ SessionsMatchConnections /\ LifetimeInv
    <2> SUFFICES ASSUME ChatInit PROVE BroadcastInv /\ SessionsMatchConnections /\ LifetimeInv
      OBVIOUS
    <2>1. BroadcastInv
      BY DEF ChatInit, BroadcastInv, NoJob
    <2>2. QED BY <2>1, LifetimeInit DEF ChatInit, Init, SessionsMatchConnections, ToSet
  <1>2. ChatTypeInv /\ BroadcastInv => BroadcastComplete
    <2> SUFFICES ASSUME ChatTypeInv, BroadcastInv, NEW l \in Loops, job[l].step = "send",
                        NEW c \in job[l].held \ ToSet(job[l].rest)
                 PROVE  \/ Received(c, job[l].text) \/ InFlight(c, job[l].text)
                        \/ m_state[c] # "kConnected" \/ c \in faulted
      BY DEF BroadcastComplete
    <2>1. c \in Conns /\ TypeInv
      BY DEF ChatTypeInv, ChatTypeOK
    <2>2. Reached(c, job[l].text)
      BY DEF BroadcastInv
    <2>3. QED BY <2>1, <2>2, TextCarried DEF Reached, Gone
  <1>3. ChatTypeInv /\ LifetimeInv /\ [ChatNext]_allVars => LifetimeInv'
    BY ChatRefines, LifetimeStep DEF ChatTypeInv
  <1>4. QED
    BY <1>1, <1>2, <1>3, ChatTypeInit, ChatTypeStep, SessionsStep, BroadcastStep, PTL DEF ChatSpec
-----------------------------------------------------------------------------
(* Logging in, on any number of loops: as long as no login as a user       *)
(* begins during another one as the same user, nothing can name a second   *)
(* session between the look-up of an earlier session and the record.       *)

\* Connections live on the loops of the pool, not on the main loop.
LoopChosen == \A c \in Conns : m_state[c] # "none" => m_loop[c] \in IoLoops

\* So do the message callbacks, and with them every call of process.
JobsInPool == \A l \in Loops : job[l].step # "idle" => l \in IoLoops

\* Only a connection that was up has logged in.
NamedWereUp == \A c \in Conns : userid[c] # NoUser => WasUp(c)

PoolUse == LoopChosen /\ JobsInPool /\ NamedWereUp

\* The users whose logins never overlapped.
Apart == Users \ raced

\* One login at a time as such a user.
LoginsApart ==
    \A u \in Apart, k, l \in Loops : Logging(k, u) /\ Logging(l, u) => k = l

\* While it kicks, its target is the only session of the user ...
TargetIsOnly ==
    \A l \in Loops : job[l].step \in {"kick", "invalidate"} /\ job[l].user \in Apart =>
        \A s \in ToSet(m_sessions) : userid[s] = job[l].user => s = job[l].target

\* ... and when it records, there is none.
NoneToRecord ==
    \A l \in Loops : job[l].step = "record" /\ job[l].user \in Apart =>
        \A s \in ToSet(m_sessions) : userid[s] # job[l].user

LoginInv == OneSessionUnlessRaced /\ LoginsApart /\ TargetIsOnly /\ NoneToRecord

\* A loop creates no connection: only newConnection does.
LEMMA LoopCreatesNone ==
    ASSUME TypeInv, LifetimeInv, NEW l \in Loops, LoopStep(l)
    PROVE  UNCHANGED m_loop /\ \A c \in Conns : m_state[c] = "none" => m_state'[c] = "none"
  <1>1. m_state \in [Conns -> StateE]
    BY DEF TypeInv, TypeOK
  <1>2. ASSUME NEW x, m_state[x] # "none", NEW t, m_state' = [m_state EXCEPT ![x] = t]
        PROVE  \A c \in Conns : m_state[c] = "none" => m_state'[c] = "none"
    BY <1>1, <1>2
  <1>3. CASE \/ poll(l) \/ (\E c \in Conns : handleEvent(l, c)) \/ handleReadData(l)
             \/ handleWrite(l) \/ doOtherTasks(l) \/ runSendInLoop(l) \/ removeConnectionInLoop(l)
    BY <1>3 DEF poll, handleEvent, handleReadData, handleWrite, doOtherTasks, runSendInLoop,
                removeConnectionInLoop, Runs
  <1>4. CASE onCloseEvent(l) \/ handleReadEnd(l) \/ handleWriteFails(l)
    <2>1. m_state[current[l].conn] # "none"
      BY <1>4, HandledIsOpen DEF onCloseEvent, handleReadEnd, handleWriteFails, Calls
    <2>2. /\ UNCHANGED m_loop
          /\ UNCHANGED m_state \/ m_state' = [m_state EXCEPT ![current[l].conn] = "kDisconnected"]
      BY <1>4 DEF onCloseEvent, handleReadEnd, handleWriteFails, handleClose
    <2>3. QED BY <1>2, <2>1, <2>2
  <1>5. CASE connectEstablished(l) \/ connectEstablishedFails(l) \/ forceCloseInLoop(l)
    <2>1. PICK x : x = Head(functors[l]).conn
      OBVIOUS
    <2>2. /\ UNCHANGED m_loop
          /\ \/ UNCHANGED m_state
             \/ m_state[x] # "none" /\ \E t : m_state' = [m_state EXCEPT ![x] = t]
      BY <1>5, <2>1 DEF connectEstablished, connectEstablishedFails, forceCloseInLoop, handleClose,
                        Runs
    <2>3. QED BY <1>2, <2>2
  <1>6. CASE connectDestroyed(l)
    <2>1. PICK x : x = Head(functors[l]).conn
      OBVIOUS
    <2>2. /\ UNCHANGED m_loop
          /\ m_state' = [m_state EXCEPT ![x] = IF m_state[x] = "kConnected"
                                               THEN "kDisconnected" ELSE @]
      BY <1>6, <2>1 DEF connectDestroyed, Runs
    <2>3. QED BY <1>1, <2>2
  <1>7. QED BY <1>3, <1>4, <1>5, <1>6 DEF LoopStep, RunFunctor

\* onRead runs in a loop of the pool, for a connection that was up.
LEMMA CallbackInPool ==
    ASSUME ChatTypeInv, LifetimeInv, LoopChosen, NEW l \in Loops, InCallback(l)
    PROVE  l \in IoLoops /\ Session(l) \in Conns /\ WasUp(Session(l))
  <1>1. Session(l) \in Conns
    BY SessionType
  <1>2. current[l].conn # NoConn /\ m_loop[Session(l)] = l /\ InUse(Session(l))
    BY <1>1, ConnAssumption DEF LifetimeInv, LoopDiscipline, InUse, Session
  <1>3. WasUp(Session(l))
    BY <1>1, <1>2 DEF LifetimeInv, NotYetPolled, WasUp
  <1>4. QED BY <1>1, <1>2, <1>3 DEF LoopChosen, WasUp

\* What SessionStep does to the job of its own thread, by kind of step.
LEMMA JobKinds ==
    ASSUME ChatTypeInv, NEW l \in Loops, SessionStep(l)
    PROVE  \/ UNCHANGED <<job, userid>>
           \/ InCallback(l) /\ job'[l].step \in {"idle", "copy", "send"} /\ UNCHANGED userid
           \/ InCallback(l) /\ \E u \in Users \cup {NoUser} : login(l, u)
           \/ InCallback(l) /\ loginKick(l)
           \/ InCallback(l) /\ loginInvalidate(l)
           \/ InCallback(l) /\ loginRecord(l)
  <1>1. job \in [Loops -> JobType]
    BY DEF ChatTypeInv, ChatTypeOK, JobType
  <1>2. CASE \/ onReadReturn(l) \/ processFails(l) \/ notLogin(l) \/ onQuery(l)
             \/ loginRefused(l) \/ chatSendQueued(l)
    BY <1>2 DEF onReadReturn, processFails, notLogin, onQuery, loginRefused, chatSendQueued,
                chatVars, sessionVars
  <1>3. ASSUME NEW u \in Users \cup {NoUser}, login(l, u) PROVE InCallback(l)
    BY <1>3 DEF login, NextRequest
  <1>4. CASE loginKick(l) \/ loginInvalidate(l) \/ loginRecord(l)
    BY <1>4 DEF loginKick, loginInvalidate, loginRecord
  <1>5. ASSUME NEW t \in Texts, onChat(l, t)
        PROVE  InCallback(l) /\ job'[l].step \in {"idle", "copy", "send"} /\ UNCHANGED userid
    BY <1>1, <1>5 DEF onChat, NextRequest, NoJob, sessionVars
  <1>6. CASE getSessions(l) \/ broadcast(l) \/ broadcastDone(l)
    <2>1. job'[l].step \in {"idle", "copy", "send"}
      BY <1>1, <1>6 DEF getSessions, broadcast, broadcastDone, NoJob, JobType
    <2>2. QED BY <1>6, <2>1 DEF getSessions, broadcast, broadcastDone, sessionVars
  <1>7. QED BY <1>2, <1>3, <1>4, <1>5, <1>6 DEF SessionStep

\* Every step keeps to the pool.
LEMMA PoolUseStep ==
    ASSUME ChatTypeInv, LifetimeInv, PoolUse, [ChatNext]_allVars
    PROVE  PoolUse'
  <1>1. /\ m_state \in [Conns -> StateE] /\ m_loop \in [Conns -> Loops]
        /\ userid \in [Conns -> Users \cup {NoUser}]
    BY DEF ChatTypeInv, ChatTypeOK, TypeInv, TypeOK
  <1>2. \A c \in Conns : WasUp(c) => WasUp(c)'
    BY StateForward, ChatRefines DEF ChatTypeInv
  <1>3. ASSUME UNCHANGED m_loop, \A c \in Conns : m_state[c] = "none" => m_state'[c] = "none"
        PROVE  LoopChosen'
    BY <1>3 DEF LoopChosen, PoolUse
  <1>4. ASSUME UNCHANGED <<job, userid>> PROVE JobsInPool' /\ NamedWereUp'
    BY <1>2, <1>4 DEF JobsInPool, NamedWereUp, PoolUse
  <1>5. CASE UNCHANGED allVars
    BY <1>3, <1>4, <1>5 DEF allVars, vars, chatVars, PoolUse
  <1>6. ASSUME NEW l \in Loops, chatLoopStep(l) PROVE PoolUse'
    BY <1>3, <1>4, <1>6, LoopCreatesNone DEF chatLoopStep, ChatTypeInv, PoolUse
  <1>7. ASSUME NEW x \in Conns, NEW l \in IoLoops, chatNewConnection(x, l) PROVE PoolUse'
    <2>1. LoopChosen'
      BY <1>1, <1>7 DEF chatNewConnection, newConnection, LoopChosen, PoolUse
    <2>2. QED BY <1>4, <1>7, <2>1 DEF chatNewConnection, chatVars, PoolUse
  <1>8. ASSUME NEW l \in Loops, SessionStep(l) PROVE PoolUse'
    <2>1. LoopChosen'
      <3>1. CASE UNCHANGED vars
        BY <1>3, <3>1 DEF vars
      <3>2. CASE CallbackStep(l)
        <4>1. /\ UNCHANGED m_loop
              /\ \/ UNCHANGED m_state
                 \/ /\ m_state[current[l].conn] \in {"kConnected", "kDisconnecting"}
                    /\ m_state' = [m_state EXCEPT ![current[l].conn] = "kDisconnecting"]
          BY <3>2 DEF CallbackStep, sendHere, sendChecked, sendQueued, messageReturn, forceClose
        <4>2. QED BY <1>1, <1>3, <4>1
      <3>3. QED BY <1>8, <3>1, <3>2, SessionIsStep
    <2>2. CASE UNCHANGED <<job, userid>>
      BY <1>4, <2>1, <2>2 DEF PoolUse
    <2>3. CASE InCallback(l)
      <3>1. l \in IoLoops /\ Session(l) \in Conns /\ WasUp(Session(l))
        BY <2>3, CallbackInPool DEF PoolUse
      <3>2. JobsInPool'
        BY <1>8, <3>1, JobText DEF JobsInPool, PoolUse
      <3>3. \A c \in Conns : userid'[c] # NoUser => userid[c] # NoUser \/ c = Session(l)
        <4>1. \/ UNCHANGED userid
              \/ userid' = [userid EXCEPT ![job[l].target] = NoUser]
              \/ userid' = [userid EXCEPT ![Session(l)] = job[l].user]
          BY <1>8, JobKinds DEF login, loginKick, loginInvalidate, loginRecord, sessionVars
        <4>2. QED BY <1>1, <4>1
      <3>4. NamedWereUp'
        BY <1>2, <3>1, <3>3 DEF NamedWereUp, PoolUse
      <3>5. QED BY <2>1, <3>2, <3>4 DEF PoolUse
    <2>4. QED BY <1>8, <2>2, <2>3, JobKinds
  <1>9. QED BY <1>5, <1>6, <1>7, <1>8 DEF ChatNext

\* A connection that opens brings a session of nobody.
LEMMA NewSession ==
    ASSUME ChatTypeInv, SessionsMatchConnections, NamedWereUp, NEW l \in Loops, chatLoopStep(l),
           NEW s \in ToSet(m_sessions')
    PROVE  s \in ToSet(m_sessions) \/ userid[s] = NoUser
  <1>1. [ChatNext]_allVars /\ TypeInv
    BY DEF ChatNext, ChatTypeInv
  <1>2. SessionsMatchConnections' /\ ChatTypeInv'
    BY <1>1, SessionsStep, ChatTypeStep
  <1>3. s \in Conns
    BY <1>2 DEF ChatTypeInv, ChatTypeOK, ToSet
  <1>4. m_state'[s] \in {"kConnected", "kDisconnecting"}
    BY <1>2, <1>3 DEF SessionsMatchConnections
  <1>5. m_state[s] \in {"kConnected", "kDisconnecting"} \/ m_state[s] = "kConnecting"
    <2>1. m_state \in [Conns -> StateE]
      BY <1>1 DEF TypeInv, TypeOK
    <2>2. CASE NoMove
      BY <1>4, <2>2 DEF NoMove
    <2>3. ASSUME NEW x \in Conns, m_state[x] = "kConnecting", Moves(x, "kConnected", 1, 0)
          PROVE  m_state[s] \in {"kConnected", "kDisconnecting"} \/ m_state[s] = "kConnecting"
      BY <1>3, <1>4, <2>1, <2>3 DEF Moves
    <2>4. ASSUME NEW x \in Conns, Moves(x, "kDisconnected", 0, 1)
          PROVE  m_state[s] \in {"kConnected", "kDisconnecting"}
      BY <1>3, <1>4, <2>1, <2>4 DEF Moves
    <2>5. QED BY <1>1, <2>2, <2>3, <2>4, LoopMoves DEF chatLoopStep
  <1>6. QED BY <1>3, <1>5 DEF SessionsMatchConnections, NamedWereUp, WasUp

\* A step that names no session, begins no login and passes none on.
LEMMA LoginKept ==
    ASSUME ChatTypeInv, LoginInv, raced' = raced,
           \A s \in ToSet(m_sessions') :
               \/ s \in ToSet(m_sessions) /\ userid'[s] \in {userid[s], NoUser}
               \/ userid'[s] = NoUser,
           \A k \in Loops : job'[k].step \in {"kick", "invalidate", "record"} =>
               job'[k] = job[k]
    PROVE  LoginInv'
  <1>1. OneSessionUnlessRaced'
    BY DEF LoginInv, OneSessionUnlessRaced
  <1>2. NoUser \notin Apart /\ Apart' = Apart
    BY UsersAssumption DEF Apart, NoUser
  <1>3. LoginsApart'
    BY <1>2 DEF LoginInv, LoginsApart, Logging
  <1>4. TargetIsOnly'
    BY <1>2 DEF LoginInv, TargetIsOnly
  <1>5. NoneToRecord'
    BY <1>2 DEF LoginInv, NoneToRecord
  <1>6. QED BY <1>1, <1>3, <1>4, <1>5 DEF LoginInv

\* The beginning of a login: the look-up.
LEMMA LoginBegins ==
    ASSUME ChatTypeInv, LoginInv, NEW l \in Loops, NEW u \in Users \cup {NoUser}, login(l, u)
    PROVE  LoginInv'
  <1>1. job \in [Loops -> JobType] /\ NoUser \notin Users /\ job[l] = NoJob
    BY UsersAssumption DEF ChatTypeInv, ChatTypeOK, JobType, NoUser, login, NextRequest
  <1>2. UNCHANGED <<userid, m_sessions>> /\ Apart' \subseteq Apart /\ noteRace(l, u)
    BY DEF login, sessionVars, noteRace, Apart
  <1>3. u \in Apart' => \A k \in Loops \ {l} : ~Logging(k, u)
    BY <1>1, <1>2 DEF noteRace, Apart
  <1>4. \A k \in Loops \ {l} : job'[k] = job[k]
    BY <1>1 DEF login
  <1>5. /\ job'[l].user = u /\ job'[l].step \in {"kick", "record"}
        /\ job'[l].step = "kick" => job'[l].target \in ToSet(m_sessions) /\ userid[job'[l].target] = u
        /\ job'[l].step = "record" => \A s \in ToSet(m_sessions) : userid[s] # u
    <2>1. ASSUME NEW c \in Conns, getSessionByUserId(u, c),
                 job' = [job EXCEPT ![l] = [NoJob EXCEPT !.step = "kick", !.user = u,
                                                         !.target = c, !.held = {c}]]
          PROVE  /\ job'[l].user = u /\ job'[l].step \in {"kick", "record"}
                 /\ job'[l].step = "kick" => job'[l].target \in ToSet(m_sessions) /\ userid[job'[l].target] = u
                 /\ job'[l].step = "record" => \A s \in ToSet(m_sessions) : userid[s] # u
      <3>1. job'[l].step = "kick" /\ job'[l].user = u /\ job'[l].target = c
        BY <1>1, <2>1 DEF NoJob
      <3>2. c \in ToSet(m_sessions) /\ userid[c] = u
        BY <2>1 DEF getSessionByUserId, ToSet
      <3>3. QED BY <3>1, <3>2
    <2>2. ASSUME \A s \in ToSet(m_sessions) : userid[s] # u,
                 job' = [job EXCEPT ![l] = [NoJob EXCEPT !.step = "record", !.user = u]]
          PROVE  /\ job'[l].user = u /\ job'[l].step \in {"kick", "record"}
                 /\ job'[l].step = "kick" => job'[l].target \in ToSet(m_sessions) /\ userid[job'[l].target] = u
                 /\ job'[l].step = "record" => \A s \in ToSet(m_sessions) : userid[s] # u
      BY <1>1, <2>2 DEF NoJob
    <2>3. QED BY <2>1, <2>2 DEF login
  <1>6. OneSessionUnlessRaced'
    BY <1>2 DEF LoginInv, OneSessionUnlessRaced, Apart, noteRace
  <1>7. LoginsApart'
    BY <1>2, <1>3, <1>4, <1>5 DEF LoginInv, LoginsApart, Logging
  <1>8. TargetIsOnly'
    <2> SUFFICES ASSUME NEW k \in Loops, job'[k].step \in {"kick", "invalidate"},
                        job'[k].user \in Apart', NEW s \in ToSet(m_sessions),
                        userid[s] = job'[k].user
                 PROVE  s = job'[k].target
      BY <1>2 DEF TargetIsOnly
    <2>1. CASE k # l
      BY <1>2, <1>4, <2>1 DEF LoginInv, TargetIsOnly
    <2>2. CASE k = l
      BY <1>1, <1>2, <1>5, <2>2 DEF LoginInv, OneSessionUnlessRaced, Apart
    <2>3. QED BY <2>1, <2>2
  <1>9. NoneToRecord'
    BY <1>2, <1>4, <1>5 DEF LoginInv, NoneToRecord
  <1>10. QED BY <1>6, <1>7, <1>8, <1>9 DEF LoginInv

\* A login that makes the earlier session invalid.
LEMMA LoginInvalidates ==
    ASSUME ChatTypeInv, LoginInv, NEW l \in Loops, loginInvalidate(l)
    PROVE  LoginInv'
  <1>1. /\ userid \in [Conns -> Users \cup {NoUser}] /\ job \in [Loops -> JobType]
        /\ ToSet(m_sessions) \subseteq Conns /\ NoUser \notin Users
    BY UsersAssumption DEF ChatTypeInv, ChatTypeOK, JobType, ToSet, NoUser
  <1>2. /\ UNCHANGED <<m_sessions, raced>> /\ Apart' = Apart /\ NoUser \notin Apart
        /\ userid' = [userid EXCEPT ![job[l].target] = NoUser]
        /\ job[l].step = "invalidate" /\ job' = [job EXCEPT ![l].step = "record"]
    BY <1>1 DEF loginInvalidate, historyVars, Apart
  <1>3. /\ job'[l].step = "record" /\ job'[l].user = job[l].user
        /\ \A k \in Loops \ {l} : job'[k] = job[k]
    BY <1>1, <1>2 DEF JobType
  <1>4. \A s \in ToSet(m_sessions) : /\ userid'[s] \in {userid[s], NoUser}
                                     /\ s = job[l].target => userid'[s] = NoUser
    BY <1>1, <1>2
  <1>5. OneSessionUnlessRaced'
    BY <1>2, <1>4 DEF LoginInv, OneSessionUnlessRaced
  <1>6. LoginsApart'
    BY <1>2, <1>3 DEF LoginInv, LoginsApart, Logging
  <1>7. TargetIsOnly'
    BY <1>2, <1>3, <1>4 DEF LoginInv, TargetIsOnly
  <1>8. NoneToRecord'
    <2> SUFFICES ASSUME NEW k \in Loops, job'[k].step = "record", job'[k].user \in Apart,
                        NEW s \in ToSet(m_sessions), userid'[s] = job'[k].user
                 PROVE  FALSE
      BY <1>2 DEF NoneToRecord
    <2>1. userid[s] = job'[k].user
      BY <1>2, <1>4
    <2>2. CASE k # l
      BY <1>3, <2>1, <2>2 DEF LoginInv, NoneToRecord
    <2>3. CASE k = l
      BY <1>2, <1>3, <1>4, <2>1, <2>3 DEF LoginInv, TargetIsOnly
    <2>4. QED BY <2>2, <2>3
  <1>9. QED BY <1>5, <1>6, <1>7, <1>8 DEF LoginInv

\* A login that records its userid: no other session is the user's, and no
\* other login as that user is under way.
LEMMA LoginRecords ==
    ASSUME ChatTypeInv, LoginInv, NEW l \in Loops, loginRecord(l)
    PROVE  LoginInv'
  <1>1. /\ userid \in [Conns -> Users \cup {NoUser}] /\ job \in [Loops -> JobType]
        /\ ToSet(m_sessions) \subseteq Conns /\ NoUser \notin Users
    BY UsersAssumption DEF ChatTypeInv, ChatTypeOK, JobType, ToSet, NoUser
  <1>2. /\ UNCHANGED <<m_sessions, raced>> /\ Apart' = Apart /\ NoUser \notin Apart
        /\ userid' = [userid EXCEPT ![Session(l)] = job[l].user]
        /\ job[l].step = "record" /\ job' = [job EXCEPT ![l] = NoJob]
    BY <1>1 DEF loginRecord, Apart
  <1>3. job'[l].step = "idle" /\ \A k \in Loops \ {l} : job'[k] = job[k]
    BY <1>1, <1>2 DEF NoJob
  <1>4. \A s \in ToSet(m_sessions) :
          userid'[s] = userid[s] \/ (s = Session(l) /\ userid'[s] = job[l].user)
    BY <1>1, <1>2
  <1>5. job[l].user \in Apart => \A s \in ToSet(m_sessions) : userid[s] # job[l].user
    BY <1>2 DEF LoginInv, NoneToRecord
  <1>6. \A u \in Users : u \notin Apart => u \in raced
    BY DEF Apart
  <1>7. OneSessionUnlessRaced'
    <2> SUFFICES ASSUME NEW c \in ToSet(m_sessions), NEW d \in ToSet(m_sessions),
                        userid'[c] = userid'[d], userid'[c] \notin raced \cup {NoUser}
                 PROVE  c = d
      BY <1>2 DEF OneSessionUnlessRaced
    <2>1. userid'[c] \in Apart
      <3>1. userid'[c] \in Users \cup {NoUser}
        BY <1>1, <1>2 DEF JobType
      <3>2. QED BY <3>1 DEF Apart
    <2>2. CASE userid'[c] = job[l].user
      BY <1>4, <1>5, <2>1, <2>2
    <2>3. CASE userid'[c] # job[l].user
      BY <1>2, <1>4, <2>3 DEF LoginInv, OneSessionUnlessRaced
    <2>4. QED BY <2>2, <2>3
  <1>8. LoginsApart'
    BY <1>2, <1>3 DEF LoginInv, LoginsApart, Logging
  <1>9. \A k \in Loops : k # l /\ Logging(k, job[k].user) /\ job[k].user \in Apart =>
          job[k].user # job[l].user
    BY <1>2 DEF LoginInv, LoginsApart, Logging
  <1>10. TargetIsOnly'
    BY <1>2, <1>3, <1>4, <1>9 DEF LoginInv, TargetIsOnly, Logging
  <1>11. NoneToRecord'
    BY <1>2, <1>3, <1>4, <1>9 DEF LoginInv, NoneToRecord, Logging
  <1>12. QED BY <1>7, <1>8, <1>10, <1>11 DEF LoginInv

\* The kick itself changes nothing but the job's step.
LEMMA LoginKicks ==
    ASSUME ChatTypeInv, LoginInv, NEW l \in Loops, loginKick(l)
    PROVE  LoginInv'
  <1>1. job \in [Loops -> JobType]
    BY DEF ChatTypeInv, ChatTypeOK, JobType
  <1>2. /\ UNCHANGED <<m_sessions, userid, raced>> /\ Apart' = Apart
        /\ job[l].step = "kick" /\ job' = [job EXCEPT ![l].step = "invalidate"]
    BY DEF loginKick, sessionVars, historyVars, Apart
  <1>3. /\ job'[l].step = "invalidate" /\ job'[l].user = job[l].user
        /\ job'[l].target = job[l].target /\ \A k \in Loops \ {l} : job'[k] = job[k]
    BY <1>1, <1>2 DEF JobType
  <1>4. OneSessionUnlessRaced'
    BY <1>2 DEF LoginInv, OneSessionUnlessRaced
  <1>5. LoginsApart'
    BY <1>2, <1>3 DEF LoginInv, LoginsApart, Logging
  <1>6. TargetIsOnly'
    BY <1>2, <1>3 DEF LoginInv, TargetIsOnly
  <1>7. NoneToRecord'
    BY <1>2, <1>3 DEF LoginInv, NoneToRecord
  <1>8. QED BY <1>4, <1>5, <1>6, <1>7 DEF LoginInv

\* Every step preserves LoginInv.
LEMMA LoginStep ==
    ASSUME ChatTypeInv, LifetimeInv, SessionsMatchConnections, PoolUse, LoginInv,
           [ChatNext]_allVars
    PROVE  LoginInv'
  <1>1. ASSUME UNCHANGED chatVars PROVE LoginInv'
    BY <1>1, LoginKept DEF chatVars
  <1>2. ASSUME NEW l \in Loops, chatLoopStep(l) PROVE LoginInv'
    <2>1. \A s \in ToSet(m_sessions') : s \in ToSet(m_sessions) \/ userid[s] = NoUser
      BY <1>2, NewSession DEF PoolUse
    <2>2. UNCHANGED <<userid, job, raced>>
      BY <1>2 DEF chatLoopStep, historyVars
    <2>3. QED BY <2>1, <2>2, LoginKept
  <1>3. ASSUME NEW l \in Loops, SessionStep(l) PROVE LoginInv'
    <2>1. UNCHANGED m_sessions
      BY <1>3 DEF SessionStep, onReadReturn, processFails, notLogin, onQuery, loginRefused, login,
                  loginKick, loginInvalidate, loginRecord, onChat, getSessions, broadcast,
                  broadcastDone, chatSendQueued, sessionVars, chatVars
    <2>2. CASE \E u \in Users \cup {NoUser} : login(l, u)
      BY <2>2, LoginBegins
    <2>3. CASE loginKick(l) \/ loginInvalidate(l) \/ loginRecord(l)
      BY <2>3, LoginKicks, LoginInvalidates, LoginRecords
    <2>4. CASE ~(\E u \in Users \cup {NoUser} : login(l, u)) /\ ~loginKick(l)
               /\ ~loginInvalidate(l) /\ ~loginRecord(l)
      <3>1. UNCHANGED userid /\ (UNCHANGED job \/ job'[l].step \in {"idle", "copy", "send"})
        BY <1>3, <2>4, JobKinds
      <3>2. UNCHANGED raced
        BY <1>3, <2>4 DEF SessionStep, onReadReturn, processFails, notLogin, onQuery, loginRefused,
                  onChat, getSessions, broadcast, broadcastDone, chatSendQueued, historyVars, chatVars
      <3>3. \A k \in Loops : k # l => job'[k] = job[k]
        BY <1>3, JobText
      <3>4. QED BY <2>1, <3>1, <3>2, <3>3, LoginKept
    <2>5. QED BY <2>2, <2>3, <2>4
  <1>4. QED BY <1>1, <1>2, <1>3 DEF ChatNext, chatNewConnection, allVars

\* The parts of the invariant that a login relies on, together.
LoginAll == ChatTypeInv /\ LifetimeInv /\ SessionsMatchConnections /\ PoolUse /\ LoginInv

\* On any number of loops, for any number of clients, users and requests, a user
\* has two valid sessions only after two logins as that user overlapped.  (After
\* such an overlap two are possible: ChatDuplicateLogin shows them.)
THEOREM OneSession == ChatSpec => []OneSessionUnlessRaced
  <1>1. ChatInit => LoginAll
    <2> SUFFICES ASSUME ChatInit PROVE LoginAll
      OBVIOUS
    <2>1. ChatTypeInv /\ LifetimeInv
      BY ChatTypeInit, LifetimeInit DEF ChatInit
    <2>2. SessionsMatchConnections
      BY DEF ChatInit, Init, SessionsMatchConnections, ToSet
    <2>3. \A l \in Loops : job[l].step = "idle"
      BY DEF ChatInit, NoJob
    <2>4. PoolUse
      BY <2>3 DEF ChatInit, Init, PoolUse, LoopChosen, JobsInPool, NamedWereUp
    <2>5. LoginInv
      <3>1. ToSet(m_sessions) = {}
        BY DEF ChatInit, ToSet
      <3>2. TargetIsOnly /\ NoneToRecord /\ LoginsApart
        BY <2>3 DEF TargetIsOnly, NoneToRecord, LoginsApart, Logging
      <3>3. QED BY <3>1, <3>2 DEF LoginInv, OneSessionUnlessRaced
    <2>6. QED BY <2>1, <2>2, <2>4, <2>5 DEF LoginAll
  <1>2. LoginAll /\ [ChatNext]_allVars => LoginAll'
    BY ChatTypeStep, ChatRefines, LifetimeStep, SessionsStep, PoolUseStep, LoginStep
       DEF LoginAll, ChatTypeInv
  <1>3. LoginAll => OneSessionUnlessRaced
    BY DEF LoginAll, LoginInv
  <1>4. QED BY <1>1, <1>2, <1>3, PTL DEF ChatSpec
=============================================================================
