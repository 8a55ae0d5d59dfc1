-------------------------- MODULE SshSessionProofs --------------------------
(***************************************************************************)
(* The safety of SshSession for every number of mappings, every listener   *)
(* limit, every set of host keys and every threshold.  The properties are  *)
(* not inductive one by one: that a failure leaves nothing behind depends  *)
(* on how far connect() had come.  Stages ties the step of connect() to    *)
(* what has been acquired so far, and Quiet says that the counters start   *)
(* from zero on every session.                                             *)
(***************************************************************************)
EXTENDS SshSession, TLAPS

Connecting == {"tcp", "handshake", "hostkey", "auth", "listen"}

\* What each step of connect() finds: the socket, then the session, then the
\* login, then a growing number of listeners; in between, all or nothing.
Stages ==
  /\ pc = "tcp" => session = "null" /\ ~fd
  /\ pc = "handshake" => session = "null" /\ fd
  /\ pc \in {"hostkey", "auth", "listen"} <=> session = "blocking"
  /\ session = "blocking" => fd
  /\ pc \in {"keepalive", "accept"} => isConnected
  /\ pc = "listen" => loggedIn
  /\ pc # "listen" /\ ~isConnected => listeners = 0
  /\ pc \in {"tcp", "handshake", "hostkey", "auth"} => listeners = 0
  /\ fd => isConnected \/ pc = "handshake"

\* No counter has counted anything before connect() returns.
Quiet ==
  ~isConnected \/ pc \in Connecting =>
    acceptFails = 0 /\ aliveFails = 0 /\ healthFails = 0

SessionInv ==
  /\ TypeOK
  /\ Stages
  /\ NothingLeaks
  /\ ListenersValid
  /\ CompleteOrGone
  /\ PinnedKeyOnly
  /\ Quiet
  /\ OwnFailuresOnly

-----------------------------------------------------------------------------
\* cleanupSession closes the socket once and ends every pointer but that of a
\* non-blocking session which libssh2 refuses to free.
LEMMA CleanupEffect ==
  ASSUME SessionInv, cleanupSession
  PROVE  /\ listeners' = 0
         /\ fd' = FALSE
         /\ session' \in {"null", "nonblocking"}
         /\ openFds' = 0
         /\ sessions' = Count(session' # "null")
         /\ acceptFails' = 0 /\ lastAccept' = FALSE /\ aliveFails' = 0
<1>1. PICK eagain \in BOOLEAN, refused \in BOOLEAN : Cleanup(eagain, refused)
  BY DEF cleanupSession
<1>2. listeners' = 0 /\ fd' = FALSE /\ aliveFails' = 0
  BY <1>1 DEF Cleanup
<1>3. acceptFails' = 0 /\ lastAccept' = FALSE
  BY <1>1 DEF Cleanup, resetAcceptState
<1>4. openFds' = 0
  <2>1. openFds = Count(fd) /\ fd \in BOOLEAN
    BY DEF SessionInv, NothingLeaks, TypeOK
  <2>2. openFds' = openFds - Count(eagain /\ fd) - Count(fd /\ ~(eagain /\ fd))
    BY <1>1 DEF Cleanup
  <2>3. CASE fd
    BY <2>1, <2>2, <2>3 DEF Count
  <2>4. CASE ~fd
    BY <2>1, <2>2, <2>4 DEF Count
  <2> QED BY <2>3, <2>4
<1>5. session' \in {"null", "nonblocking"} /\ sessions' = Count(session' # "null")
  <2>1. sessions = Count(session # "null")
    BY DEF SessionInv, NothingLeaks
  <2>2. CASE refused
    <3>1. session = "nonblocking" /\ session' = session /\ sessions' = sessions
      BY <1>1, <2>2 DEF Cleanup
    <3> QED BY <3>1, <2>1
  <2>3. CASE ~refused
    <3>1. session' = "null" /\ sessions' = sessions - Count(session # "null")
      BY <1>1, <2>3 DEF Cleanup
    <3> QED BY <3>1, <2>1 DEF Count
  <2> QED BY <2>2, <2>3
<1> QED BY <1>2, <1>3, <1>4, <1>5

\* After a cleanup that ends in pc "idle" everything the invariant asks of a
\* session that is not connected holds.
LEMMA CleanIsSafe ==
  ASSUME SessionInv, cleanupSession, pc' = "idle", healthFails' = 0,
         polled' \in Nat, configured' \in BOOLEAN, dead' \in BOOLEAN,
         serverKey' \in Keys \cup {NoKey}, loggedIn' \in BOOLEAN,
         run' \in [accept : Nat, alive : Nat, health : Nat]
  PROVE  SessionInv'
<1>1. /\ listeners' = 0 /\ fd' = FALSE /\ session' \in {"null", "nonblocking"}
      /\ openFds' = 0 /\ sessions' = Count(session' # "null")
      /\ acceptFails' = 0 /\ lastAccept' = FALSE /\ aliveFails' = 0
  BY CleanupEffect
<1>2. TypeOK'
  BY <1>1 DEF TypeOK, Count
<1>3. Stages'
  BY <1>1 DEF Stages, isConnected
<1>4. NothingLeaks'
  BY <1>1 DEF NothingLeaks, Count
<1>5. ListenersValid'
  BY <1>1, SessionAssumption DEF ListenersValid, Desired
<1>6. CompleteOrGone' /\ PinnedKeyOnly' /\ Quiet' /\ OwnFailuresOnly'
  BY <1>1 DEF CompleteOrGone, PinnedKeyOnly, Quiet, OwnFailuresOnly, isConnected
<1> QED BY <1>2, <1>3, <1>4, <1>5, <1>6 DEF SessionInv

\* Every failure of connect() ends like that.
LEMMA GiveUpIsSafe ==
  ASSUME SessionInv, pc \in Connecting, GiveUp
  PROVE  SessionInv'
<1>1. healthFails = 0
  BY DEF SessionInv, Quiet
<1> QED
  BY <1>1, CleanIsSafe DEF GiveUp, SessionInv, TypeOK

-----------------------------------------------------------------------------
LEMMA InitSafe == Init => SessionInv
<1> SUFFICES ASSUME Init PROVE SessionInv
  OBVIOUS
<1>1. TypeOK
  BY DEF Init, TypeOK, NoRun
<1>2. Stages /\ CompleteOrGone /\ PinnedKeyOnly /\ Quiet /\ OwnFailuresOnly
  BY DEF Init, Stages, CompleteOrGone, PinnedKeyOnly, Quiet, OwnFailuresOnly,
         isConnected, Connecting
<1>3. NothingLeaks /\ ListenersValid
  BY SessionAssumption DEF Init, NothingLeaks, ListenersValid, Count, Desired
<1> QED BY <1>1, <1>2, <1>3 DEF SessionInv

-----------------------------------------------------------------------------
(* connect() *)

LEMMA connectSafe == SessionInv /\ connect => SessionInv'
<1> SUFFICES ASSUME SessionInv, connect PROVE SessionInv'
  OBVIOUS
<1>0. ~isConnected /\ healthFails = 0 /\ pc = "idle"
  BY DEF connect, SessionInv, Quiet
<1>1. CASE session = "null"
  <2>1. /\ pc' = "tcp" /\ session' = "null" /\ fd' = fd /\ listeners' = listeners
        /\ acceptFails' = 0 /\ lastAccept' = FALSE /\ aliveFails' = aliveFails
        /\ openFds' = openFds /\ sessions' = sessions
        /\ polled' = polled /\ healthFails' = healthFails
        /\ configured' = configured /\ dead' = dead /\ serverKey' = serverKey
        /\ loggedIn' = loggedIn /\ run' = run
    BY <1>1 DEF connect, resetAcceptState
  <2>2. ~fd /\ listeners = 0 /\ aliveFails = 0
    BY <1>0, <1>1 DEF SessionInv, Stages, Quiet, isConnected
  <2>6. TypeOK
    BY DEF SessionInv
  <2>3. TypeOK'
    BY <2>1, <2>6 DEF TypeOK
  <2>7. NothingLeaks'
    BY <1>1, <2>1 DEF SessionInv, NothingLeaks, Count
  <2>4. Stages' /\ CompleteOrGone' /\ PinnedKeyOnly' /\ Quiet' /\ OwnFailuresOnly'
    BY <1>0, <2>1, <2>2 DEF Stages, CompleteOrGone, PinnedKeyOnly, Quiet,
                            OwnFailuresOnly, isConnected
  <2>5. ListenersValid'
    BY <2>1, <2>2, SessionAssumption DEF ListenersValid, Desired
  <2> QED BY <2>3, <2>4, <2>5, <2>7 DEF SessionInv
<1>2. CASE session # "null"
  <2>1. cleanupSession
    BY <1>2 DEF connect
  <2>2. /\ listeners' = 0 /\ fd' = FALSE /\ session' \in {"null", "nonblocking"}
        /\ openFds' = 0 /\ sessions' = Count(session' # "null")
        /\ acceptFails' = 0 /\ lastAccept' = FALSE /\ aliveFails' = 0
    BY <2>1, CleanupEffect
  <2>3. /\ polled' = polled /\ healthFails' = 0 /\ configured' = configured
        /\ dead' = dead /\ serverKey' = serverKey /\ loggedIn' = loggedIn
        /\ run' = run
        /\ pc' = IF session' = "null" THEN "tcp" ELSE "idle"
    BY <1>0 DEF connect
  <2>4. TypeOK'
    BY <2>2, <2>3 DEF SessionInv, TypeOK, Count
  <2>7. NothingLeaks'
    BY <2>2 DEF NothingLeaks, Count
  <2>5. Stages' /\ CompleteOrGone' /\ PinnedKeyOnly' /\ Quiet' /\ OwnFailuresOnly'
    BY <2>2, <2>3 DEF Stages, CompleteOrGone, PinnedKeyOnly, Quiet,
                      OwnFailuresOnly, isConnected
  <2>6. ListenersValid'
    BY <2>2, SessionAssumption DEF ListenersValid, Desired
  <2> QED BY <2>4, <2>5, <2>6, <2>7 DEF SessionInv
<1> QED BY <1>1, <1>2

LEMMA tcpConnectSafe == SessionInv /\ tcpConnect => SessionInv'
<1> SUFFICES ASSUME SessionInv, tcpConnect PROVE SessionInv'
  OBVIOUS
<1>1. pc = "tcp" /\ session = "null" /\ ~fd /\ listeners = 0 /\ openFds = 0
  BY DEF tcpConnect, SessionInv, Stages, NothingLeaks, Count
<1>2. acceptFails = 0 /\ aliveFails = 0 /\ healthFails = 0
  BY <1>1 DEF SessionInv, Quiet, isConnected
<1>7. openFds' \in Nat
  BY <1>1 DEF tcpConnect
<1>8. fd' \in BOOLEAN /\ pc' \in {"idle", "handshake"}
  BY Zenon DEF tcpConnect
<1>3. TypeOK'
  BY <1>7, <1>8 DEF tcpConnect, counters, SessionInv, TypeOK
<1>6. NothingLeaks'
  BY <1>1 DEF tcpConnect, SessionInv, NothingLeaks, Count
<1>4. Stages' /\ CompleteOrGone' /\ PinnedKeyOnly' /\ Quiet' /\ OwnFailuresOnly'
  BY <1>1, <1>2 DEF tcpConnect, counters, Stages, CompleteOrGone, PinnedKeyOnly,
                    Quiet, OwnFailuresOnly, isConnected, Connecting
<1>5. ListenersValid'
  BY <1>1 DEF tcpConnect, SessionInv, ListenersValid
<1> QED BY <1>3, <1>4, <1>5, <1>6 DEF SessionInv

LEMMA handshakeSafe == SessionInv /\ handshake => SessionInv'
<1> SUFFICES ASSUME SessionInv, handshake PROVE SessionInv'
  OBVIOUS
<1>1. pc = "handshake" /\ session = "null" /\ fd /\ listeners = 0 /\ sessions = 0
  BY DEF handshake, SessionInv, Stages, NothingLeaks, Count
<1>2. acceptFails = 0 /\ aliveFails = 0 /\ healthFails = 0
  BY <1>1 DEF SessionInv, Quiet, isConnected
<1>8. sessions' = 1 /\ run' \in [accept : Nat, alive : Nat, health : Nat]
  BY <1>1 DEF handshake, NoRun
<1>9. loggedIn' \in BOOLEAN /\ configured' \in BOOLEAN /\ dead' \in BOOLEAN
  BY Zenon DEF handshake
<1>10. /\ pc' = "hostkey" /\ session' = "blocking" /\ serverKey' \in Keys
       /\ fd' = fd /\ listeners' = listeners /\ polled' = polled
       /\ acceptFails' = acceptFails /\ lastAccept' = lastAccept
       /\ aliveFails' = aliveFails /\ healthFails' = healthFails
       /\ openFds' = openFds
  BY DEF handshake, counters
<1>3. TypeOK'
  BY <1>8, <1>9, <1>10 DEF SessionInv, TypeOK
<1>7. NothingLeaks'
  BY <1>1 DEF handshake, SessionInv, NothingLeaks, Count
<1>4. Stages' /\ CompleteOrGone' /\ PinnedKeyOnly'
  BY <1>1 DEF handshake, Stages, CompleteOrGone, PinnedKeyOnly, isConnected
<1>5. Quiet' /\ OwnFailuresOnly'
  BY <1>2 DEF handshake, counters, Quiet, OwnFailuresOnly, NoRun
<1>6. ListenersValid'
  BY <1>1 DEF handshake, SessionInv, ListenersValid
<1> QED BY <1>3, <1>4, <1>5, <1>6, <1>7 DEF SessionInv

LEMMA hostKeySafe == SessionInv /\ verifyHostKeyStep => SessionInv'
<1> SUFFICES ASSUME SessionInv, verifyHostKeyStep PROVE SessionInv'
  OBVIOUS
<1> USE DEF verifyHostKeyStep, counters, history
<1>1. pc = "hostkey" /\ session = "blocking" /\ fd /\ listeners = 0
  BY DEF SessionInv, Stages
<1>2. TypeOK' /\ NothingLeaks'
  BY DEF SessionInv, TypeOK, NothingLeaks
<1>3. Stages' /\ CompleteOrGone'
  BY <1>1 DEF Stages, CompleteOrGone, isConnected
<1>4. PinnedKeyOnly'
  BY DEF PinnedKeyOnly, HostKeyAccepted
<1>5. Quiet' /\ OwnFailuresOnly' /\ ListenersValid'
  BY <1>1 DEF SessionInv, Quiet, OwnFailuresOnly, ListenersValid, isConnected,
              Connecting
<1> QED BY <1>2, <1>3, <1>4, <1>5 DEF SessionInv

LEMMA authenticateSafe == SessionInv /\ authenticate => SessionInv'
<1> SUFFICES ASSUME SessionInv, authenticate PROVE SessionInv'
  OBVIOUS
<1> USE DEF authenticate, counters
<1>1. pc = "auth" /\ session = "blocking" /\ fd /\ listeners = 0
  BY DEF SessionInv, Stages
<1>2. TypeOK' /\ NothingLeaks'
  BY SessionAssumption DEF SessionInv, TypeOK, NothingLeaks
<1>3. Stages' /\ CompleteOrGone' /\ PinnedKeyOnly'
  BY <1>1 DEF SessionInv, Stages, CompleteOrGone, PinnedKeyOnly, isConnected
<1>4. Quiet' /\ OwnFailuresOnly' /\ ListenersValid'
  BY <1>1 DEF SessionInv, Quiet, OwnFailuresOnly, ListenersValid, isConnected,
              Connecting
<1> QED BY <1>2, <1>3, <1>4 DEF SessionInv

LEMMA createListenersSafe == SessionInv /\ createListeners => SessionInv'
<1> SUFFICES ASSUME SessionInv, createListeners PROVE SessionInv'
  OBVIOUS
<1>1. /\ pc = "listen" /\ session = "blocking" /\ fd /\ loggedIn
      /\ listeners \in Nat /\ listeners < Desired /\ Desired \in Int
  BY SessionAssumption DEF createListeners, SessionInv, TypeOK, Stages, Desired
<1>2. healthFails = 0 /\ acceptFails = 0 /\ aliveFails = 0
  BY <1>1 DEF SessionInv, Quiet, Connecting
<1>3. /\ listeners' = listeners + 1 /\ healthFails' = 0
      /\ fd' = fd /\ polled' = polled /\ acceptFails' = acceptFails
      /\ lastAccept' = lastAccept /\ aliveFails' = aliveFails
      /\ configured' = configured /\ dead' = dead /\ openFds' = openFds
      /\ sessions' = sessions /\ serverKey' = serverKey /\ loggedIn' = loggedIn
      /\ run' = run
  BY <1>2 DEF createListeners, history
<1>4. \/ pc' = "idle" /\ session' = "nonblocking" /\ listeners' = Desired
      \/ pc' = "listen" /\ session' = "blocking"
  BY <1>1 DEF createListeners
<1>5. TypeOK' /\ NothingLeaks'
  BY <1>1, <1>3, <1>4 DEF SessionInv, TypeOK, NothingLeaks, Count
<1>6. ListenersValid'
  BY <1>1, <1>3, <1>4 DEF ListenersValid
<1>7. Stages' /\ CompleteOrGone' /\ PinnedKeyOnly'
  BY <1>1, <1>3, <1>4 DEF SessionInv, Stages, CompleteOrGone, PinnedKeyOnly,
                          isConnected
<1>8. Quiet' /\ OwnFailuresOnly'
  BY <1>1, <1>2, <1>3 DEF SessionInv, TypeOK, Quiet, OwnFailuresOnly
<1> QED BY <1>5, <1>6, <1>7, <1>8 DEF SessionInv

-----------------------------------------------------------------------------
(* loop() *)

\* A step of loop() that leaves the session as it is preserves the invariant
\* if its counters stay within the failures of this session.
LEMMA SameSessionSafe ==
  ASSUME SessionInv, isConnected, session = "nonblocking",
         pc' \in {"idle", "keepalive", "accept"},
         session' = session, fd' = fd, listeners' = listeners,
         openFds' = openFds, sessions' = sessions, serverKey' = serverKey,
         loggedIn' = loggedIn, configured' = configured, dead' \in BOOLEAN,
         polled' \in Nat, lastAccept' \in BOOLEAN,
         acceptFails' \in Nat, aliveFails' \in Nat, healthFails' \in Nat,
         run' \in [accept : Nat, alive : Nat, health : Nat],
         acceptFails' <= run'.accept, aliveFails' <= run'.alive,
         healthFails' <= run'.health
  PROVE  SessionInv'
<1>1. pc \in {"idle", "keepalive", "accept"}
  BY DEF SessionInv, Stages, TypeOK, isConnected
<1>2. TypeOK' /\ NothingLeaks'
  BY DEF SessionInv, TypeOK, NothingLeaks
<1>3. Stages' /\ CompleteOrGone' /\ PinnedKeyOnly'
  BY <1>1 DEF SessionInv, Stages, CompleteOrGone, PinnedKeyOnly, isConnected
<1>4. Quiet' /\ OwnFailuresOnly'
  BY DEF Quiet, OwnFailuresOnly, isConnected, Connecting
<1>5. ListenersValid'
  BY DEF SessionInv, ListenersValid
<1> QED BY <1>2, <1>3, <1>4, <1>5 DEF SessionInv

\* In loop() the session is connected and non-blocking.
LEMMA InLoop ==
  ASSUME SessionInv, \/ pc \in {"keepalive", "accept"}
                     \/ pc = "idle" /\ isConnected
  PROVE  /\ isConnected /\ session = "nonblocking"
         /\ acceptFails \in Nat /\ aliveFails \in Nat /\ healthFails \in Nat
         /\ run \in [accept : Nat, alive : Nat, health : Nat]
         /\ acceptFails <= run.accept /\ aliveFails <= run.alive
         /\ healthFails <= run.health
BY DEF SessionInv, Stages, CompleteOrGone, OwnFailuresOnly, TypeOK

LEMMA LoseSessionSafe ==
  ASSUME SessionInv, LoseSession, polled' = polled, configured' = configured,
         dead' = dead, serverKey' = serverKey, loggedIn' = loggedIn,
         run' \in [accept : Nat, alive : Nat, health : Nat]
  PROVE  SessionInv'
BY CleanIsSafe DEF LoseSession, SessionInv, TypeOK

LEMMA checkConnectionSafe ==
  ASSUME NEW ok \in BOOLEAN, SessionInv, checkConnection(ok)
  PROVE  SessionInv'
<1>1. /\ isConnected /\ session = "nonblocking"
      /\ acceptFails \in Nat /\ aliveFails \in Nat /\ healthFails \in Nat
      /\ run \in [accept : Nat, alive : Nat, health : Nat]
      /\ acceptFails <= run.accept /\ aliveFails <= run.alive
      /\ healthFails <= run.health
  BY InLoop DEF checkConnection
<1> DEFINE fails == IF ok THEN 0 ELSE healthFails + 1
           h == IF ok THEN 0 ELSE run.health + 1
<1>2. fails \in Nat /\ h \in Nat /\ fails <= h
  BY <1>1
<1>3. /\ run' = [run EXCEPT !.health = h]
      /\ polled' = polled /\ configured' = configured /\ dead' = dead
      /\ serverKey' = serverKey /\ loggedIn' = loggedIn
  BY DEF checkConnection
<1>4. /\ run' \in [accept : Nat, alive : Nat, health : Nat]
      /\ run'.accept = run.accept /\ run'.alive = run.alive /\ run'.health = h
  BY <1>1, <1>2, <1>3
<1>5. CASE fails >= FatalThreshold
  <2>1. LoseSession
    BY <1>5 DEF checkConnection
  <2> QED BY <2>1, <1>3, <1>4, LoseSessionSafe
<1>6. CASE ~(fails >= FatalThreshold)
  <2>1. /\ healthFails' = fails /\ pc' = "keepalive" /\ session' = session
        /\ fd' = fd /\ listeners' = listeners /\ acceptFails' = acceptFails
        /\ lastAccept' = lastAccept /\ aliveFails' = aliveFails
        /\ openFds' = openFds /\ sessions' = sessions
    BY <1>6 DEF checkConnection
  <2>2. polled \in Nat /\ lastAccept \in BOOLEAN /\ dead \in BOOLEAN
    BY DEF SessionInv, TypeOK
  <2> HIDE DEF fails, h
  <2> QED BY <1>1, <1>2, <1>3, <1>4, <2>1, <2>2, SameSessionSafe
<1> QED BY <1>5, <1>6

LEMMA SkipKeepaliveSafe == SessionInv /\ SkipKeepalive => SessionInv'
<1> SUFFICES ASSUME SessionInv, SkipKeepalive PROVE SessionInv'
  OBVIOUS
<1>1. /\ isConnected /\ session = "nonblocking"
      /\ acceptFails \in Nat /\ aliveFails \in Nat /\ healthFails \in Nat
      /\ run \in [accept : Nat, alive : Nat, health : Nat]
      /\ acceptFails <= run.accept /\ aliveFails <= run.alive
      /\ healthFails <= run.health
  BY InLoop DEF SkipKeepalive
<1>2. lastAccept \in BOOLEAN /\ dead \in BOOLEAN
  BY DEF SessionInv, TypeOK
<1> QED BY <1>1, <1>2, SameSessionSafe DEF SkipKeepalive, counters, history

LEMMA sendKeepaliveSafe ==
  ASSUME NEW sent \in BOOLEAN, SessionInv, sendKeepalive(sent)
  PROVE  SessionInv'
<1>1. /\ isConnected /\ session = "nonblocking"
      /\ acceptFails \in Nat /\ aliveFails \in Nat /\ healthFails \in Nat
      /\ run \in [accept : Nat, alive : Nat, health : Nat]
      /\ acceptFails <= run.accept /\ aliveFails <= run.alive
      /\ healthFails <= run.health
  BY InLoop DEF sendKeepalive
<1> DEFINE fails == IF sent THEN 0 ELSE aliveFails + 1
           h == IF sent THEN 0 ELSE run.alive + 1
<1>2. fails \in Nat /\ h \in Nat /\ fails <= h
  BY <1>1
<1>3. /\ run' = [run EXCEPT !.alive = h]
      /\ configured' = configured /\ dead' = dead
      /\ serverKey' = serverKey /\ loggedIn' = loggedIn
  BY DEF sendKeepalive
<1>4. /\ run' \in [accept : Nat, alive : Nat, health : Nat]
      /\ run'.accept = run.accept /\ run'.alive = h /\ run'.health = run.health
  BY <1>1, <1>2, <1>3
<1>5. CASE fails >= FatalThreshold
  <2>1. LoseSession /\ polled' = polled
    BY <1>5 DEF sendKeepalive
  <2> QED BY <2>1, <1>3, <1>4, LoseSessionSafe
<1>6. CASE ~(fails >= FatalThreshold)
  <2>1. /\ aliveFails' = fails /\ pc' = "accept" /\ polled' = 0
        /\ session' = session /\ fd' = fd /\ listeners' = listeners
        /\ acceptFails' = acceptFails /\ lastAccept' = lastAccept
        /\ healthFails' = healthFails
        /\ openFds' = openFds /\ sessions' = sessions
    BY <1>6 DEF sendKeepalive
  <2>2. lastAccept \in BOOLEAN /\ dead \in BOOLEAN
    BY DEF SessionInv, TypeOK
  <2> HIDE DEF fails, h
  <2> QED BY <1>1, <1>2, <1>3, <1>4, <2>1, <2>2, SameSessionSafe
<1> QED BY <1>5, <1>6

LEMMA SkipListenerSafe == SessionInv /\ SkipListener => SessionInv'
<1> SUFFICES ASSUME SessionInv, SkipListener PROVE SessionInv'
  OBVIOUS
<1>1. /\ isConnected /\ session = "nonblocking"
      /\ acceptFails \in Nat /\ aliveFails \in Nat /\ healthFails \in Nat
      /\ run \in [accept : Nat, alive : Nat, health : Nat]
      /\ acceptFails <= run.accept /\ aliveFails <= run.alive
      /\ healthFails <= run.health
  BY InLoop DEF SkipListener, Polling
<1>2. lastAccept \in BOOLEAN /\ dead \in BOOLEAN /\ polled' \in Nat
  BY DEF SessionInv, TypeOK, SkipListener
<1> QED BY <1>1, <1>2, SameSessionSafe DEF SkipListener, Polling, counters, history

LEMMA recordAcceptSuccessSafe == SessionInv /\ recordAcceptSuccess => SessionInv'
<1> SUFFICES ASSUME SessionInv, recordAcceptSuccess PROVE SessionInv'
  OBVIOUS
<1>1. /\ isConnected /\ session = "nonblocking"
      /\ acceptFails \in Nat /\ aliveFails \in Nat /\ healthFails \in Nat
      /\ run \in [accept : Nat, alive : Nat, health : Nat]
      /\ acceptFails <= run.accept /\ aliveFails <= run.alive
      /\ healthFails <= run.health
  BY InLoop DEF recordAcceptSuccess, Polling
<1>2. /\ acceptFails' = 0 /\ lastAccept' = FALSE
      /\ run' = [run EXCEPT !.accept = 0]
      /\ pc' \in {"idle", "accept"} /\ polled' \in {0, polled}
      /\ session' = session /\ fd' = fd /\ listeners' = listeners
      /\ aliveFails' = aliveFails /\ healthFails' = healthFails
      /\ configured' = configured /\ dead' = dead /\ openFds' = openFds
      /\ sessions' = sessions /\ serverKey' = serverKey /\ loggedIn' = loggedIn
  BY DEF recordAcceptSuccess, resetAcceptState, Polling
<1>3. /\ run' \in [accept : Nat, alive : Nat, health : Nat]
      /\ run'.accept = 0 /\ run'.alive = run.alive /\ run'.health = run.health
  BY <1>1, <1>2
<1>4. dead \in BOOLEAN /\ polled' \in Nat
  BY <1>2 DEF SessionInv, TypeOK
<1>5. acceptFails' \in Nat /\ acceptFails' <= run'.accept
  BY <1>2, <1>3
<1>6. lastAccept' \in BOOLEAN
  BY <1>2, Zenon
<1> QED BY <1>1, <1>2, <1>3, <1>4, <1>5, <1>6, SameSessionSafe

LEMMA recordAcceptNoChannelSafe ==
  ASSUME NEW fatal \in BOOLEAN, SessionInv, recordAcceptNoChannel(fatal)
  PROVE  SessionInv'
<1>1. /\ isConnected /\ session = "nonblocking"
      /\ acceptFails \in Nat /\ aliveFails \in Nat /\ healthFails \in Nat
      /\ run \in [accept : Nat, alive : Nat, health : Nat]
      /\ acceptFails <= run.accept /\ aliveFails <= run.alive
      /\ healthFails <= run.health
  BY InLoop DEF recordAcceptNoChannel, Polling
<1> DEFINE fails == IF fatal THEN acceptFails + 1 ELSE 0
           h == IF fatal THEN run.accept + 1 ELSE 0
<1>2. fails \in Nat /\ h \in Nat /\ fails <= h
  BY <1>1
<1>3. /\ acceptFails' = fails /\ lastAccept' = fatal
      /\ run' = [run EXCEPT !.accept = h]
      /\ pc' = "accept" /\ polled' = polled + 1
      /\ session' = session /\ fd' = fd /\ listeners' = listeners
      /\ aliveFails' = aliveFails /\ healthFails' = healthFails
      /\ configured' = configured /\ dead' = dead /\ openFds' = openFds
      /\ sessions' = sessions /\ serverKey' = serverKey /\ loggedIn' = loggedIn
  BY DEF recordAcceptNoChannel, Polling
<1>4. /\ run' \in [accept : Nat, alive : Nat, health : Nat]
      /\ run'.accept = h /\ run'.alive = run.alive /\ run'.health = run.health
  BY <1>1, <1>2, <1>3
<1>5. dead \in BOOLEAN /\ polled' \in Nat
  BY <1>3 DEF SessionInv, TypeOK
<1> HIDE DEF fails, h
<1> QED BY <1>1, <1>2, <1>3, <1>4, <1>5, SameSessionSafe

LEMMA AcceptDoneSafe == SessionInv /\ AcceptDone => SessionInv'
<1> SUFFICES ASSUME SessionInv, AcceptDone PROVE SessionInv'
  OBVIOUS
<1>1. /\ isConnected /\ session = "nonblocking"
      /\ acceptFails \in Nat /\ aliveFails \in Nat /\ healthFails \in Nat
      /\ run \in [accept : Nat, alive : Nat, health : Nat]
      /\ acceptFails <= run.accept /\ aliveFails <= run.alive
      /\ healthFails <= run.health
  BY InLoop DEF AcceptDone
<1>2. /\ polled' = polled /\ configured' = configured /\ dead' = dead
      /\ serverKey' = serverKey /\ loggedIn' = loggedIn /\ run' = run
  BY DEF AcceptDone
<1>3. CASE hasFatalAcceptFailure
  <2>1. LoseSession
    BY <1>3 DEF AcceptDone
  <2> QED BY <1>1, <1>2, <2>1, LoseSessionSafe
<1>4. CASE ~hasFatalAcceptFailure
  <2>1. /\ pc' = "idle" /\ session' = session /\ fd' = fd
        /\ listeners' = listeners /\ acceptFails' = acceptFails
        /\ lastAccept' = lastAccept /\ aliveFails' = aliveFails
        /\ healthFails' = healthFails /\ openFds' = openFds
        /\ sessions' = sessions
    BY <1>4 DEF AcceptDone, counters
  <2>2. polled \in Nat /\ lastAccept \in BOOLEAN /\ dead \in BOOLEAN
    BY DEF SessionInv, TypeOK
  <2> QED BY <1>1, <1>2, <2>1, <2>2, SameSessionSafe
<1> QED BY <1>3, <1>4

LEMMA disconnectSafe == SessionInv /\ disconnect => SessionInv'
<1> SUFFICES ASSUME SessionInv, disconnect PROVE SessionInv'
  OBVIOUS
<1>1. run \in [accept : Nat, alive : Nat, health : Nat]
  BY DEF SessionInv, TypeOK
<1> QED BY <1>1, LoseSessionSafe DEF disconnect

LEMMA TransportDiesSafe == SessionInv /\ TransportDies => SessionInv'
<1> SUFFICES ASSUME SessionInv, TransportDies PROVE SessionInv'
  OBVIOUS
<1> USE DEF TransportDies, counters, history
<1>1. TypeOK'
  BY DEF SessionInv, TypeOK
<1>2. Stages' /\ CompleteOrGone' /\ PinnedKeyOnly' /\ Quiet' /\ OwnFailuresOnly'
  BY DEF SessionInv, Stages, CompleteOrGone, PinnedKeyOnly, Quiet,
         OwnFailuresOnly, isConnected
<1>3. NothingLeaks' /\ ListenersValid'
  BY DEF SessionInv, NothingLeaks, ListenersValid
<1> QED BY <1>1, <1>2, <1>3 DEF SessionInv

LEMMA StutterSafe == SessionInv /\ UNCHANGED vars => SessionInv'
<1> SUFFICES ASSUME SessionInv, UNCHANGED vars PROVE SessionInv'
  OBVIOUS
<1> USE DEF vars, counters, history
<1>1. TypeOK'
  BY DEF SessionInv, TypeOK
<1>2. Stages' /\ CompleteOrGone' /\ PinnedKeyOnly' /\ Quiet' /\ OwnFailuresOnly'
  BY DEF SessionInv, Stages, CompleteOrGone, PinnedKeyOnly, Quiet,
         OwnFailuresOnly, isConnected
<1>3. NothingLeaks' /\ ListenersValid'
  BY DEF SessionInv, NothingLeaks, ListenersValid
<1> QED BY <1>1, <1>2, <1>3 DEF SessionInv

-----------------------------------------------------------------------------
\* The inductive invariant of SSHSession holds in every reachable state.
THEOREM SessionInvariant == Spec => []SessionInv
<1>1. SessionInv /\ [Next]_vars => SessionInv'
  <2> SUFFICES ASSUME SessionInv, [Next]_vars PROVE SessionInv'
    OBVIOUS
  <2>1. CASE connect               BY <2>1, connectSafe
  <2>2. CASE tcpConnect            BY <2>2, tcpConnectSafe
  <2>3. CASE handshake             BY <2>3, handshakeSafe
  <2>4. CASE HandshakeFails
    BY <2>4, GiveUpIsSafe DEF HandshakeFails, Connecting
  <2>5. CASE verifyHostKeyStep     BY <2>5, hostKeySafe
  <2>6. CASE HostKeyRejected
    BY <2>6, GiveUpIsSafe DEF HostKeyRejected, Connecting
  <2>7. CASE authenticate          BY <2>7, authenticateSafe
  <2>8. CASE AuthenticationFails
    BY <2>8, GiveUpIsSafe DEF AuthenticationFails, Connecting
  <2>9. CASE createListeners       BY <2>9, createListenersSafe
  <2>10. CASE ListenerFails
    BY <2>10, GiveUpIsSafe DEF ListenerFails, Connecting
  <2>11. CASE LoopStep
    <3>1. CASE \E ok \in BOOLEAN : checkConnection(ok)
      BY <3>1, checkConnectionSafe
    <3>2. CASE SkipKeepalive       BY <3>2, SkipKeepaliveSafe
    <3>3. CASE \E sent \in BOOLEAN : sendKeepalive(sent)
      BY <3>3, sendKeepaliveSafe
    <3>4. CASE SkipListener        BY <3>4, SkipListenerSafe
    <3>5. CASE recordAcceptSuccess BY <3>5, recordAcceptSuccessSafe
    <3>6. CASE \E fatal \in BOOLEAN : recordAcceptNoChannel(fatal)
      BY <3>6, recordAcceptNoChannelSafe
    <3>7. CASE AcceptDone          BY <3>7, AcceptDoneSafe
    <3> QED BY <2>11, <3>1, <3>2, <3>3, <3>4, <3>5, <3>6, <3>7 DEF LoopStep
  <2>12. CASE disconnect           BY <2>12, disconnectSafe
  <2>13. CASE TransportDies        BY <2>13, TransportDiesSafe
  <2>14. CASE UNCHANGED vars       BY <2>14, StutterSafe
  <2> QED
    BY <2>1, <2>2, <2>3, <2>4, <2>5, <2>6, <2>7, <2>8, <2>9, <2>10, <2>11,
       <2>12, <2>13, <2>14 DEF Next
<1> QED BY <1>1, InitSafe, PTL DEF Spec

\* cleanupSession closes every socket exactly once and at most one libssh2
\* session is ever allocated, on every path through connect() and teardown.
THEOREM SessionLeaksNothing == Spec => []NothingLeaks
BY SessionInvariant, PTL DEF SessionInv

\* Types; never more listeners than the configuration allows.
THEOREM SessionTypeCorrect == Spec => []TypeOK
BY SessionInvariant, PTL DEF SessionInv

\* A session outside connect() is complete, its listeners belong to it.
THEOREM SessionComplete == Spec => [](CompleteOrGone /\ ListenersValid)
<1>1. SessionInv => CompleteOrGone /\ ListenersValid
  BY DEF SessionInv
<1> QED BY <1>1, SessionInvariant, PTL

\* A server with another host key than the pinned one is never logged in to.
THEOREM SessionPinned == Spec => []PinnedKeyOnly
BY SessionInvariant, PTL DEF SessionInv

\* No error counter survives the session it was counted on.
THEOREM SessionOwnFailures == Spec => []OwnFailuresOnly
BY SessionInvariant, PTL DEF SessionInv
=============================================================================
