----------------------------- MODULE SshSession -----------------------------
(***************************************************************************)
(* SSHSession (ssh_session.cpp): connect() step by step with every failure *)
(* path, the reverse listeners, the checks that SSHTunnel::loop makes of a *)
(* connected session (socket health, keepalive, forward_accept) and its    *)
(* teardown, which libssh2 may refuse.  Whether the session mutex is       *)
(* obtained within its timeout is a choice at every attempt.               *)
(***************************************************************************)
EXTENDS Integers

CONSTANTS Mappings,             \* how many tunnel mappings are configured
          maxReverseListeners,
          verifyHostKey,        \* sshConfig.verifyHostKey
          Keys,                 \* host keys a server may present
          Expected,             \* the pinned key, or NoKey when none is
          NoKey,
          KeepAlive,            \* libssh2KeepAliveEnabled
          FatalThreshold,       \* 3, for each of the three verdicts
          PeersFail             \* whether sporadic errors occur on a live session

ASSUME SessionAssumption ==
  /\ Mappings \in Nat /\ maxReverseListeners \in Int
  /\ verifyHostKey \in BOOLEAN /\ KeepAlive \in BOOLEAN /\ PeersFail \in BOOLEAN
  /\ NoKey \notin Keys /\ Expected \in Keys \cup {NoKey}
  /\ FatalThreshold \in Nat \ {0}

VARIABLES pc,          \* the step of connect(), or of loop()
          session,     \* session_: null, or the blocking mode it is in
          fd,          \* socketfd_ >= 0
          listeners,   \* listeners_.size(); the entries are mappings 1, 2, ...
          polled,      \* listeners acceptChannel has visited in this call
          acceptFails, \* consecutiveFatalAcceptErrors_
          lastAccept,  \* lastAcceptError_ is fatal
          aliveFails,  \* keepAliveFailures_
          healthFails, \* SSHTunnel::socketHealthFailures_
          configured,  \* libssh2_keepalive_config was called on the session
          dead,        \* the transport has failed for good
          openFds,     \* history: sockets opened and not closed
          sessions,    \* history: libssh2 sessions allocated and not freed
          serverKey,   \* history: the host key presented in the handshake
          loggedIn,    \* history: the session is authenticated
          run          \* history: failures in a row seen on THIS session

counters == <<acceptFails, lastAccept, aliveFails, healthFails>>
history == <<openFds, sessions, serverKey, loggedIn, run>>
vars == <<pc, session, fd, listeners, polled, counters, configured, dead, history>>

isConnected == session # "null" /\ fd

\* How many listeners createListeners wants.
Desired == IF maxReverseListeners < Mappings THEN maxReverseListeners ELSE Mappings

NoRun == [accept |-> 0, alive |-> 0, health |-> 0]
Count(b) == IF b THEN 1 ELSE 0

-----------------------------------------------------------------------------
\* Faulty variant: only the last error is forgotten, not the count.
resetAcceptErrorOnly == lastAccept' = FALSE /\ UNCHANGED acceptFails

resetAcceptState == acceptFails' = 0 /\ lastAccept' = FALSE

\* Faulty variant: a socket closed early to make libssh2 yield is closed again.
CleanupClosesTwice(eagain, refused) ==
  LET closedEarly == eagain /\ fd IN
  /\ eagain => session = "nonblocking"
  /\ refused => eagain
  /\ listeners' = 0
  /\ session' = IF refused THEN session ELSE "null"
  /\ sessions' = IF refused THEN sessions ELSE sessions - Count(session # "null")
  /\ fd' = FALSE
  /\ openFds' = openFds - Count(closedEarly) - Count(fd)
  /\ resetAcceptState
  /\ aliveFails' = 0

\* Faulty variant: the session pointer is dropped although libssh2 refused.
CleanupDropsPointer(eagain, refused) ==
  /\ eagain => session = "nonblocking"
  /\ refused => eagain
  /\ listeners' = 0
  /\ session' = "null"
  /\ sessions' = IF refused THEN sessions ELSE sessions - Count(session # "null")
  /\ fd' = FALSE
  /\ openFds' = openFds - Count(fd)
  /\ resetAcceptState
  /\ aliveFails' = 0

\* cleanupSession: cancel the listeners, free the session, close the socket.
\* A session in non-blocking mode may answer EAGAIN; then the socket is closed
\* first and the free is tried a few times more, and if libssh2 still refuses
\* the pointer is preserved.
Cleanup(eagain, refused) ==
  LET closedEarly == eagain /\ fd IN
  /\ eagain => session = "nonblocking"
  /\ refused => eagain
  /\ listeners' = 0
  /\ session' = IF refused THEN session ELSE "null"
  /\ sessions' = IF refused THEN sessions ELSE sessions - Count(session # "null")
  /\ fd' = FALSE
  /\ openFds' = openFds - Count(closedEarly) - Count(fd /\ ~closedEarly)
  /\ resetAcceptState
  /\ aliveFails' = 0

cleanupSession == \E eagain, refused \in BOOLEAN : Cleanup(eagain, refused)

\* Faulty variant: a step of connect() fails without a cleanup.
GiveUpUncleaned ==
  /\ pc' = "idle"
  /\ UNCHANGED <<session, fd, listeners, polled, counters, configured, dead,
                 history>>

\* A step of connect() failed.
GiveUp ==
  /\ cleanupSession
  /\ pc' = "idle"
  /\ UNCHANGED <<polled, healthFails, configured, dead, serverKey, loggedIn, run>>

\* enterErrorState as far as the session goes: SSHSession::disconnect.
LoseSession ==
  /\ cleanupSession
  /\ healthFails' = 0
  /\ pc' = "idle"

-----------------------------------------------------------------------------
Init ==
  /\ pc = "idle"
  /\ session = "null"
  /\ fd = FALSE
  /\ listeners = 0
  /\ polled = 0
  /\ acceptFails = 0 /\ lastAccept = FALSE
  /\ aliveFails = 0 /\ healthFails = 0
  /\ configured = FALSE
  /\ dead = FALSE
  /\ openFds = 0 /\ sessions = 0
  /\ serverKey = NoKey
  /\ loggedIn = FALSE
  /\ run = NoRun

(* connect() *)

\* A session an earlier cleanup could not free is tried again first.
connect ==
  /\ pc = "idle" /\ ~isConnected
  /\ IF session = "null"
     THEN /\ resetAcceptState
          /\ UNCHANGED <<session, fd, listeners, aliveFails, openFds, sessions>>
     ELSE cleanupSession
  /\ pc' = IF session' = "null" THEN "tcp" ELSE "idle"
  /\ UNCHANGED <<polled, healthFails, configured, dead, serverKey, loggedIn, run>>

\* socketfd_ is overwritten; a socket that does not connect is closed here.
tcpConnect ==
  /\ pc = "tcp"
  /\ \/ fd' = TRUE /\ openFds' = openFds + 1 /\ pc' = "handshake"
     \/ fd' = FALSE /\ pc' = "idle" /\ UNCHANGED openFds
  /\ UNCHANGED <<session, listeners, polled, counters, configured, dead,
                 sessions, serverKey, loggedIn, run>>

\* A new session blocks, so that freeing it after a failed handshake succeeds.
handshake ==
  /\ pc = "handshake"
  /\ session' = "blocking"
  /\ sessions' = sessions + 1
  /\ serverKey' \in Keys
  /\ loggedIn' = FALSE
  /\ configured' = FALSE
  /\ run' = NoRun
  /\ dead' = FALSE
  /\ pc' = "hostkey"
  /\ UNCHANGED <<fd, listeners, polled, counters, openFds>>

HandshakeFails == pc = "handshake" /\ GiveUp

\* Faulty variant: the fingerprint is compared only if none is expected.
HostKeyAlwaysAccepted == TRUE

\* verifyHostKey, on the fingerprint; the key type is checked the same way.
HostKeyAccepted == ~verifyHostKey \/ Expected \in {NoKey, serverKey}

verifyHostKeyStep ==
  /\ pc = "hostkey"
  /\ HostKeyAccepted
  /\ pc' = "auth"
  /\ UNCHANGED <<session, fd, listeners, polled, counters, configured, dead,
                 history>>

\* The key does not match, or could not be read.
HostKeyRejected == pc = "hostkey" /\ verifyHostKey /\ GiveUp

\* authenticate, then configureKeepalive, whose failure is only logged.
authenticate ==
  /\ pc = "auth"
  /\ loggedIn' = TRUE
  /\ configured' \in {FALSE, KeepAlive}
  /\ pc' = "listen"
  /\ UNCHANGED <<session, fd, listeners, polled, counters, dead, openFds,
                 sessions, serverKey, run>>

AuthenticationFails == pc = "auth" /\ GiveUp

\* One createListenerForMapping; after the last one the session stops
\* blocking, connect() succeeds and connectSSH resets the health counter.
createListeners ==
  /\ pc = "listen"
  /\ listeners < Desired
  /\ listeners' = listeners + 1
  /\ IF listeners' = Desired
     THEN pc' = "idle" /\ session' = "nonblocking" /\ healthFails' = 0
     ELSE UNCHANGED <<pc, session, healthFails>>
  /\ UNCHANGED <<fd, polled, acceptFails, lastAccept, aliveFails, configured,
                 dead, history>>

\* No attempt of fifty worked, or there is nothing to listen for: the
\* listeners created so far are cancelled.
ListenerFails == pc = "listen" /\ GiveUp

-----------------------------------------------------------------------------
(* SSHTunnel::loop on a connected session *)

\* checkConnection: SO_ERROR is consumed by reading it, so that a dead socket
\* need not fail twice in a row.
checkConnection(ok) ==
  /\ pc = "idle" /\ isConnected
  /\ ~ok => PeersFail \/ dead
  /\ LET fails == IF ok THEN 0 ELSE healthFails + 1 IN
     /\ run' = [run EXCEPT !.health = IF ok THEN 0 ELSE @ + 1]
     /\ IF fails >= FatalThreshold
        THEN LoseSession
        ELSE /\ healthFails' = fails
             /\ pc' = "keepalive"
             /\ UNCHANGED <<session, fd, listeners, acceptFails, lastAccept,
                            aliveFails, openFds, sessions>>
  /\ UNCHANGED <<polled, configured, dead, serverKey, loggedIn>>

\* Keepalive is not due, the lock is not free, or libssh2 answered EAGAIN.
SkipKeepalive ==
  /\ pc = "keepalive"
  /\ pc' = "accept" /\ polled' = 0
  /\ UNCHANGED <<session, fd, listeners, counters, configured, dead, history>>

\* sendKeepalive: only LIBSSH2_ERROR_SOCKET_SEND counts, another error resets
\* the counter as success does.  An unconfigured keepalive sends nothing;
\* the socket of a dead transport may take a packet all the same.
sendKeepalive(sent) ==
  /\ pc = "keepalive"
  /\ sent \/ (configured /\ (dead \/ PeersFail))
  /\ LET fails == IF sent THEN 0 ELSE aliveFails + 1 IN
     /\ run' = [run EXCEPT !.alive = IF sent THEN 0 ELSE @ + 1]
     /\ IF fails >= FatalThreshold
        THEN LoseSession /\ UNCHANGED polled
        ELSE /\ aliveFails' = fails
             /\ pc' = "accept" /\ polled' = 0
             /\ UNCHANGED <<session, fd, listeners, acceptFails, lastAccept,
                            healthFails, openFds, sessions>>
  /\ UNCHANGED <<configured, dead, serverKey, loggedIn>>

(* acceptChannel polls one listener after the other. *)

Polling == pc = "accept" /\ polled < listeners

SkipListener ==
  /\ Polling
  /\ polled' = polled + 1
  /\ UNCHANGED <<pc, session, fd, listeners, counters, configured, dead, history>>

\* A channel came in: the caller asks again if it could bind it.
recordAcceptSuccess ==
  /\ Polling /\ ~dead
  /\ resetAcceptState
  /\ run' = [run EXCEPT !.accept = 0]
  /\ \/ polled' = 0 /\ UNCHANGED pc
     \/ pc' = "idle" /\ UNCHANGED polled
  /\ UNCHANGED <<session, fd, listeners, aliveFails, healthFails, configured,
                 dead, openFds, sessions, serverKey, loggedIn>>

\* Faulty variant: no error of forward_accept is recognised as fatal.
recordAcceptNoChannelBenign(fatal) ==
  /\ Polling
  /\ resetAcceptState
  /\ run' = [run EXCEPT !.accept = 0]
  /\ polled' = polled + 1
  /\ UNCHANGED <<pc, session, fd, listeners, aliveFails, healthFails, configured,
                 dead, openFds, sessions, serverKey, loggedIn>>

\* forward_accept_error::isFatal(err), for the errors of a broken transport
\* and the sporadic CHANNEL_UNKNOWN; EAGAIN and other errors are not fatal.
recordAcceptNoChannel(fatal) ==
  /\ Polling
  /\ fatal => dead \/ PeersFail
  /\ dead => fatal
  /\ acceptFails' = IF fatal THEN acceptFails + 1 ELSE 0
  /\ lastAccept' = fatal
  /\ run' = [run EXCEPT !.accept = IF fatal THEN @ + 1 ELSE 0]
  /\ polled' = polled + 1
  /\ UNCHANGED <<pc, session, fd, listeners, aliveFails, healthFails, configured,
                 dead, openFds, sessions, serverKey, loggedIn>>

hasFatalAcceptFailure == acceptFails >= FatalThreshold /\ lastAccept

\* acceptChannel returned no channel; handleNewConnection asks for the verdict.
AcceptDone ==
  /\ pc = "accept" /\ polled = listeners
  /\ IF hasFatalAcceptFailure
     THEN LoseSession
     ELSE /\ pc' = "idle"
          /\ UNCHANGED <<session, fd, listeners, counters, openFds, sessions>>
  /\ UNCHANGED <<polled, configured, dead, serverKey, loggedIn, run>>

\* SSHTunnel::disconnect, called by the application.
disconnect ==
  /\ pc = "idle"
  /\ LoseSession
  /\ UNCHANGED <<polled, configured, dead, serverKey, loggedIn, run>>

TransportDies ==
  /\ isConnected /\ ~dead
  /\ dead' = TRUE
  /\ UNCHANGED <<pc, session, fd, listeners, polled, counters, configured, history>>

-----------------------------------------------------------------------------
LoopStep ==
  \/ \E ok \in BOOLEAN : checkConnection(ok)
  \/ SkipKeepalive
  \/ \E sent \in BOOLEAN : sendKeepalive(sent)
  \/ SkipListener
  \/ recordAcceptSuccess
  \/ \E fatal \in BOOLEAN : recordAcceptNoChannel(fatal)
  \/ AcceptDone

Next ==
  \/ connect
  \/ tcpConnect
  \/ handshake
  \/ HandshakeFails
  \/ verifyHostKeyStep
  \/ HostKeyRejected
  \/ authenticate
  \/ AuthenticationFails
  \/ createListeners
  \/ ListenerFails
  \/ LoopStep
  \/ disconnect
  \/ TransportDies

Spec == Init /\ [][Next]_vars

\* loop() is called again and again, and the mutex, which others hold only
\* briefly, is not missed by every forward_accept for ever.
FairSpec ==
  Spec /\ WF_vars(LoopStep)
       /\ SF_vars(\E fatal \in BOOLEAN : recordAcceptNoChannel(fatal))

-----------------------------------------------------------------------------
TypeOK ==
  /\ pc \in {"idle", "tcp", "handshake", "hostkey", "auth", "listen",
             "keepalive", "accept"}
  /\ session \in {"null", "blocking", "nonblocking"}
  /\ fd \in BOOLEAN
  /\ listeners \in Nat /\ polled \in Nat
  /\ acceptFails \in Nat /\ lastAccept \in BOOLEAN
  /\ aliveFails \in Nat /\ healthFails \in Nat
  /\ configured \in BOOLEAN /\ dead \in BOOLEAN
  /\ openFds \in Nat /\ sessions \in Nat
  /\ serverKey \in Keys \cup {NoKey}
  /\ loggedIn \in BOOLEAN
  /\ run \in [accept : Nat, alive : Nat, health : Nat]

\* Whatever step of connect() fails and however often libssh2 refuses to free
\* a session: no socket is open but socketfd_, which is closed exactly once,
\* and no libssh2 session is allocated but session_.
NothingLeaks == openFds = Count(fd) /\ sessions = Count(session # "null")

\* listeners_ holds pointers into the current session only, at most as many
\* as wanted: they are gone before the session is freed.
ListenersValid ==
  /\ listeners > 0 => session # "null"
  /\ listeners <= IF Desired > 0 THEN Desired ELSE 0

\* Outside connect() a session that isConnected() is complete: logged in,
\* non-blocking, with all its listeners.  No failure half-way leaves one that
\* the tunnel would go on to use.
CompleteOrGone ==
  isConnected /\ pc \in {"idle", "keepalive", "accept"} =>
    session = "nonblocking" /\ loggedIn /\ listeners = Desired

\* With a pinned key no credentials are sent to, and no session is used with,
\* a server that presented another one, on reconnects as on the first connect.
PinnedKeyOnly ==
  verifyHostKey /\ Expected # NoKey
    /\ (pc \in {"auth", "listen"} \/ (isConnected /\ pc # "hostkey")) =>
      serverKey = Expected

\* A session is given up for errors of its own: no counter carries failures
\* over from an earlier session or across a success.
OwnFailuresOnly ==
  isConnected =>
    acceptFails <= run.accept /\ aliveFails <= run.alive /\ healthFails <= run.health

\* A session in use whose transport has died is noticed and given up, with any
\* number of listeners, also if keepalive is disabled and SO_ERROR says nothing.
DeadNoticed == dead /\ isConnected /\ session = "nonblocking" ~> ~isConnected
=============================================================================
