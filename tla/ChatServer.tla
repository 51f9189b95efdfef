----------------------------- MODULE ChatServer -----------------------------
(***************************************************************************)
(* chatserversrc/ChatServer.cpp and ChatSession.cpp on top of TcpServer:   *)
(* the session list, logging in (with the kick of an earlier login), and   *)
(* chat messages stored in Redis and broadcast to every session.           *)
(*                                                                         *)
(* A session is named by its connection: onConnected makes one per         *)
(* connection.  ChatSession::onRead runs in the message callback of the    *)
(* connection's loop; "job" is where its call of process has got to, so    *)
(* that the handlers of different loops interleave between their accesses  *)
(* to m_sessions, to Redis, to other sessions and to other connections.    *)
(* Framing and parsing are abstract: a package is a request or illegal.    *)
(***************************************************************************)
EXTENDS TcpServer, SequencesExt

CONSTANTS
    Users,        \* the userids of UserManager's cache (0 is "unknown user")
    Texts,        \* labels of chat messages, each sent once
    MaxRequests   \* bound: packages the server handles

ASSUME UsersAssumption == 0 \notin Users
ASSUME MaxRequestsAssumption == MaxRequests \in Nat
\* What the server sends: a broadcast text, the kick, or a reply with its code.
ASSUME PayloadAssumption == Texts \cup {"kickuser", "code0", "code1", "code2"} \subseteq Payload
\* The label of a chat message tells it from the server's own answers.
ASSUME TextsAssumption == Texts \cap {"kickuser", "code0", "code1", "code2"} = {}

VARIABLES
    m_sessions,   \* ChatServer::m_sessions, in list order
    userid,       \* ChatSession::m_userinfo.userid
    m_isLogin,    \* ChatSession::m_isLogin
    job,          \* what each thread's ChatSession::process is doing
    redis,        \* the message list of MsgCacheManager
    requests,     \* packages handled so far
    authentic,    \* history: sessions that presented a right password
    lost,         \* history: texts addChatMsgToRedis failed to store
    raced         \* history: users whose login began during another login as them

sessionVars == <<m_sessions, userid, m_isLogin>>
historyVars == <<authentic, lost, raced>>
chatVars == <<m_sessions, userid, m_isLogin, job, redis, requests,
              authentic, lost, raced>>
allVars == <<vars, chatVars>>

NoUser == 0
NoJob == [step |-> "idle", user |-> NoUser, target |-> NoConn, rest |-> <<>>,
          held |-> {}, text |-> "code0"]

ChatTypeOK ==
    /\ TypeOK
    /\ m_sessions \in Seq(Conns)
    /\ userid \in [Conns -> Users \cup {NoUser}]
    /\ m_isLogin \in [Conns -> BOOLEAN]
    /\ job \in [Loops -> [step : {"idle", "kick", "invalidate", "record", "copy", "send"},
                          user : Users \cup {NoUser}, target : Conns \cup {NoConn},
                          rest : Seq(Conns), held : SUBSET Conns, text : Payload]]
    /\ redis \in Seq(Texts)
    /\ requests \in 0..MaxRequests
    /\ authentic \subseteq Conns
    /\ lost \subseteq Texts
    /\ raced \subseteq Users

ChatInit ==
    /\ Init
    /\ m_sessions = <<>>
    /\ userid = [c \in Conns |-> NoUser]
    /\ m_isLogin = [c \in Conns |-> FALSE]
    /\ job = [l \in Loops |-> NoJob]
    /\ redis = <<>>
    /\ requests = 0
    /\ authentic = {}
    /\ lost = {}
    /\ raced = {}

-----------------------------------------------------------------------------
(* ChatServer::onConnected and onDisconnected run inside the connection    *)
(* callback, hence in the step of the loop that makes it.                  *)

\* Fault: the search skips sessions that were made invalid.
onDisconnectedValid(c) ==
    \/ \E i \in DOMAIN m_sessions : /\ m_sessions[i] = c /\ userid[c] # NoUser
                                    /\ m_sessions' = RemoveAt(m_sessions, i)
    \/ c \notin ToSet(m_sessions) /\ UNCHANGED m_sessions
    \/ userid[c] = NoUser /\ UNCHANGED m_sessions

\* The list holds a session once (SessionsMatchConnections), so erasing every
\* match erases this one.
onDisconnected(c) ==
    \/ \E i \in DOMAIN m_sessions : /\ m_sessions[i] = c
                                    /\ m_sessions' = RemoveAt(m_sessions, i)
    \/ c \notin ToSet(m_sessions) /\ UNCHANGED m_sessions

onConnected ==
    LET opened == {c \in Conns : callbacks'[c].up # callbacks[c].up}
        closed == {c \in Conns : callbacks'[c].down # callbacks[c].down}
    IN  \/ opened \cup closed = {} /\ UNCHANGED m_sessions
        \/ \E c \in opened : m_sessions' = Append(m_sessions, c)
        \/ \E c \in closed : onDisconnected(c)

\* A shared_ptr to the session exists: in the list, in a broadcast's copy of
\* it, or in a login's targetSession.
SessionAlive(c) == c \in ToSet(m_sessions) \/ \E l \in Loops : c \in job[l].held

chatLoopStep(l) ==
    /\ LoopStep(l)
    /\ onConnected
    /\ UNCHANGED <<userid, m_isLogin, job, redis, requests, historyVars>>

chatNewConnection(c, l) == newConnection(c, l) /\ UNCHANGED chatVars

-----------------------------------------------------------------------------
(* TcpSession::send: through the weak_ptr, if the connection still exists. *)

\* Nothing is sent: the connection is expired, or not kConnected.
NotSent(c) == ~(Alive(c) /\ m_state[c] = "kConnected")

\* Fault: the state of the connection is not checked.
sendUnchecked(l, c, body) ==
    /\ InCallback(l) /\ sent[l] < MaxSends
    /\ queueInLoop(m_loop[c], RawSend(c, NewMsg(l, body)))
    /\ sent' = [sent EXCEPT ![l] = @ + 1]
    /\ UNCHANGED <<m_state, m_loop, m_connections, m_events, pollVars, loopVars,
                   m_activeChannels, current, sending, callbacks, outVars>>

send(l, c, body) ==
    \/ NotSent(c) /\ UNCHANGED vars
    \/ sendHere(l, c, body)
    \/ sendChecked(l, c, body)

-----------------------------------------------------------------------------
(* ChatSession::onRead and process, in the message callback of thread l.   *)

Session(l) == current[l].conn

\* process begins with the next package of the input buffer.
NextRequest(l) ==
    /\ InCallback(l) /\ job[l] = NoJob
    /\ requests < MaxRequests
    /\ requests' = requests + 1

\* onRead has no further complete package.
onReadReturn(l) ==
    /\ job[l] = NoJob
    /\ messageReturn(l)
    /\ UNCHANGED chatVars

\* An illegal package, or a command process does not know: onRead closes.
processFails(l) ==
    /\ NextRequest(l)
    /\ forceClose(l)
    /\ UNCHANGED <<sessionVars, job, redis, historyVars>>

\* A command other than login before login.
notLogin(l) ==
    /\ NextRequest(l) /\ ~m_isLogin[Session(l)]
    /\ send(l, Session(l), "code2")
    /\ UNCHANGED <<sessionVars, job, redis, historyVars>>

\* onGetUserListResponse and onGetMsgsResponse.
onQuery(l) ==
    /\ NextRequest(l) /\ m_isLogin[Session(l)]
    /\ send(l, Session(l), "code0")
    /\ UNCHANGED <<sessionVars, job, redis, historyVars>>

\* onLoginResponse with the wrong password.
loginRefused(l) ==
    /\ NextRequest(l)
    /\ send(l, Session(l), "code1")
    /\ m_isLogin' = [m_isLogin EXCEPT ![Session(l)] = TRUE]
    /\ UNCHANGED <<m_sessions, userid, job, redis, historyVars>>

\* ChatServer::getSessionByUserId: c is the first session of the list that is u's.
getSessionByUserId(u, c) ==
    \E i \in DOMAIN m_sessions :
        /\ m_sessions[i] = c /\ userid[c] = u
        /\ \A j \in 1..(i - 1) : userid[m_sessions[j]] # u

\* Thread l is in a login as u, between the look-up of an earlier session and
\* the record of its own.
Logging(l, u) == job[l].step \in {"kick", "invalidate", "record"} /\ job[l].user = u

\* History of a login as u that begins in l.
noteRace(l, u) ==
    raced' = raced \cup {v \in Users : v = u /\ \E k \in Loops \ {l} : Logging(k, u)}

\* Fault: an earlier session is not looked up.
loginNoLookup(l, u) ==
    /\ NextRequest(l)
    /\ job' = [job EXCEPT ![l] = [NoJob EXCEPT !.step = "record", !.user = u]]
    /\ noteRace(l, u)
    /\ UNCHANGED <<vars, sessionVars, redis, authentic, lost>>

\* onLoginResponse with the right password (an unknown user's is empty), up
\* to the look-up of an earlier session.
login(l, u) ==
    /\ NextRequest(l)
    /\ \/ \E c \in Conns :
            /\ getSessionByUserId(u, c)
            /\ job' = [job EXCEPT ![l] = [NoJob EXCEPT !.step = "kick", !.user = u,
                                                      !.target = c, !.held = {c}]]
       \/ /\ \A s \in ToSet(m_sessions) : userid[s] # u
          /\ job' = [job EXCEPT ![l] = [NoJob EXCEPT !.step = "record", !.user = u]]
    /\ noteRace(l, u)
    /\ UNCHANGED <<vars, sessionVars, redis, authentic, lost>>

loginKick(l) ==
    /\ InCallback(l) /\ job[l].step = "kick"
    /\ send(l, job[l].target, "kickuser")
    /\ job' = [job EXCEPT ![l].step = "invalidate"]
    /\ UNCHANGED <<sessionVars, redis, requests, historyVars>>

\* targetSession->makeSessionInvalid()
loginInvalidate(l) ==
    /\ InCallback(l) /\ job[l].step = "invalidate"
    /\ userid' = [userid EXCEPT ![job[l].target] = NoUser]
    /\ job' = [job EXCEPT ![l].step = "record"]
    /\ UNCHANGED <<vars, m_sessions, m_isLogin, redis, requests, historyVars>>

loginRecord(l) ==
    /\ InCallback(l) /\ job[l].step = "record"
    /\ userid' = [userid EXCEPT ![Session(l)] = job[l].user]
    /\ send(l, Session(l), "code0")
    /\ m_isLogin' = [m_isLogin EXCEPT ![Session(l)] = TRUE]
    /\ authentic' = authentic \cup {Session(l)}
    /\ job' = [job EXCEPT ![l] = NoJob]
    /\ UNCHANGED <<m_sessions, redis, requests, lost, raced>>

\* Fault: the reply is stored instead of the text.
onChatStoresReply(l, t) ==
    /\ NextRequest(l) /\ m_isLogin[Session(l)]
    /\ redis' = Append(redis, "code0")
    /\ job' = [job EXCEPT ![l] = [NoJob EXCEPT !.step = "copy", !.text = t]]
    /\ UNCHANGED <<vars, sessionVars, historyVars>>

\* Fault: the text is broadcast but not stored.
onChatNotStored(l, t) ==
    /\ NextRequest(l) /\ m_isLogin[Session(l)]
    /\ t \notin ToSet(redis) \cup lost
    /\ job' = [job EXCEPT ![l] = [NoJob EXCEPT !.step = "copy", !.text = t]]
    /\ UNCHANGED <<vars, sessionVars, redis, historyVars>>

\* onChatResponse: first Redis (a failure is only logged) ...
onChat(l, t) ==
    /\ NextRequest(l) /\ m_isLogin[Session(l)]
    /\ t \notin ToSet(redis) \cup lost
    /\ \/ redis' = Append(redis, t) /\ UNCHANGED lost
       \/ UNCHANGED redis /\ lost' = lost \cup {t}
    /\ job' = [job EXCEPT ![l] = [NoJob EXCEPT !.step = "copy", !.text = t]]
    /\ UNCHANGED <<vars, sessionVars, authentic, raced>>

\* ... then a copy of the session list ...
getSessions(l) ==
    /\ InCallback(l) /\ job[l].step = "copy"
    /\ job' = [job EXCEPT ![l].step = "send", ![l].rest = m_sessions,
                          ![l].held = ToSet(m_sessions)]
    /\ UNCHANGED <<vars, sessionVars, redis, requests, historyVars>>

\* Fault: the sender's own session is left out.
broadcastToOthers(l) ==
    /\ InCallback(l) /\ job[l].step = "send" /\ job[l].rest # <<>>
    /\ \/ Head(job[l].rest) # Session(l) /\ send(l, Head(job[l].rest), job[l].text)
       \/ Head(job[l].rest) = Session(l) /\ UNCHANGED vars
    /\ job' = [job EXCEPT ![l].rest = Tail(@)]
    /\ UNCHANGED <<sessionVars, redis, requests, historyVars>>

\* ... then one send after the other.
broadcast(l) ==
    /\ InCallback(l) /\ job[l].step = "send" /\ job[l].rest # <<>>
    /\ send(l, Head(job[l].rest), job[l].text)
    /\ job' = [job EXCEPT ![l].rest = Tail(@)]
    /\ UNCHANGED <<sessionVars, redis, requests, historyVars>>

broadcastDone(l) ==
    /\ InCallback(l) /\ job[l].step = "send" /\ job[l].rest = <<>>
    /\ job' = [job EXCEPT ![l] = NoJob]
    /\ UNCHANGED <<vars, sessionVars, redis, requests, historyVars>>

chatSendQueued(l) == sendQueued(l) /\ UNCHANGED chatVars

SessionStep(l) ==
    \/ onReadReturn(l)
    \/ processFails(l)
    \/ notLogin(l)
    \/ onQuery(l)
    \/ loginRefused(l)
    \/ \E u \in Users \cup {NoUser} : login(l, u)
    \/ loginKick(l)
    \/ loginInvalidate(l)
    \/ loginRecord(l)
    \/ \E t \in Texts : onChat(l, t)
    \/ getSessions(l)
    \/ broadcast(l)
    \/ broadcastDone(l)
    \/ chatSendQueued(l)

ChatNext ==
    \/ \E l \in Loops : chatLoopStep(l) \/ SessionStep(l)
    \/ \E c \in Conns, l \in IoLoops : chatNewConnection(c, l)

ChatFairness == \A l \in Loops : WF_allVars(chatLoopStep(l) \/ SessionStep(l))

ChatSpec == ChatInit /\ [][ChatNext]_allVars

ChatFairSpec == ChatSpec /\ ChatFairness
-----------------------------------------------------------------------------
(* Properties.                                                             *)

\* The connections a text may still reach c through: a send in progress or a
\* functor queued in its loop.
InFlight(c, text) ==
    \E l \in Loops :
        \/ sending[l] # Idle /\ sending[l].conn = c /\ sending[l].msg.body = text
        \/ \E f \in ToSet(m_pendingFunctors[l]) \cup ToSet(functors[l]) :
             f.fn = "sendInLoop" /\ f.conn = c /\ f.msg.body = text

Received(c, text) == \E i \in DOMAIN output[c] : output[c][i].body = text

\* The session list is exactly the sessions of the connections that are up,
\* each once, in every interleaving of loops that open and close connections:
\* onConnected adds, onDisconnected removes, also a session that was kicked.
SessionsMatchConnections ==
    /\ \A c \in Conns : c \in ToSet(m_sessions)
                          <=> m_state[c] \in {"kConnected", "kDisconnecting"}
    /\ \A i, j \in DOMAIN m_sessions : m_sessions[i] = m_sessions[j] => i = j

\* Nobody receives a chat message that getMsgs would not return afterwards,
\* unless Redis failed to store it: onChatResponse stores before it broadcasts.
StoredBeforeBroadcast ==
    \A c \in Conns, t \in Texts :
        Received(c, t) \/ InFlight(c, t) => t \in ToSet(redis) \cup lost

\* A broadcast skips no session: whoever is in the copied list and not still to
\* come has the text, has it on the way, or is no longer connected (or its
\* socket failed).
BroadcastComplete ==
    \A l \in Loops : job[l].step = "send" =>
        \A c \in job[l].held \ ToSet(job[l].rest) :
            \/ Received(c, job[l].text)
            \/ InFlight(c, job[l].text)
            \/ m_state[c] # "kConnected"
            \/ c \in faulted

\* Does not hold: two loops may both look before either has recorded its login.
\* A user has at most one valid session, as onLoginResponse kicks the earlier one.
OneSessionPerUser ==
    \A c, d \in ToSet(m_sessions) : userid[c] = userid[d] /\ userid[c] # NoUser => c = d

\* That race is the only way: on any number of loops, with kicks, other users'
\* logins and disconnections in between, a user has two valid sessions only
\* after a login as that user began while another one was between the look-up
\* (getSessionByUserId) and the record of its userid.
OneSessionUnlessRaced ==
    \A c, d \in ToSet(m_sessions) :
        userid[c] = userid[d] /\ userid[c] \notin raced \cup {NoUser} => c = d

\* Does not hold: the session that was found may log in as somebody else before
\* makeSessionInvalid runs, in another loop, and loses that login.
\* A login as u takes only u's earlier login away: the session it is about to
\* make invalid is u's, or nobody's.
KickHitsSameUser ==
    \A l \in Loops : job[l].step = "invalidate" =>
        userid[job[l].target] \in {job[l].user, NoUser}

\* Does not hold: onLoginResponse sets m_isLogin after a wrong password too.
\* Commands other than login are for logged in clients: a chat message is
\* accepted only from a session that presented a right password.
ChatNeedsPassword ==
    \A l \in Loops : job[l].step = "copy" => Session(l) \in authentic

\* Every step is a step of TcpServer, or leaves the connections alone: what
\* TcpServer guarantees for any user of its interface holds for the chat server.
TcpServerSpec == Spec

\* Does not hold: an error in the same handleEvent drops the session before onRead.
\* The message callback of a connection points to an existing session.
CallbackSessionAlive == \A l \in Loops : current[l].inCallback => SessionAlive(Session(l))
=============================================================================
