---------------------------- MODULE ClientSocket ----------------------------
(***************************************************************************)
(* The websocket of the mobile client: SignalServiceMessageReceiver, with  *)
(* the login and logout interactors that drive it and the session token of *)
(* SigmaStore.  Dart runs one callback at a time, so an action is what     *)
(* happens between two awaits: the connectivity listener, an attempt that  *)
(* starts, the handshake that ends well or badly, the reconnect timer, a   *)
(* channel that closes, a logout that disconnects at once and clears the   *)
(* storage and the database later.                                         *)
(***************************************************************************)
EXTENDS Integers

CONSTANTS
  Accounts,  \* users who log in on the device
  None

ASSUME AccountsAssumption == None \notin Accounts

VARIABLES
  net,         \* what the platform calls connected: mobile, wifi or ethernet
  probe,       \* the constructor's await of isConnected
  online,      \* _isDeviceOnline
  user,        \* _currentUserId
  token,       \* AccountStore._authToken: the account whose token is in memory
  stored,      \* the same in the secure storage
  status,      \* _currentStatus
  attempt,     \* _isConnecting: the account whose token the attempt took
  channel,     \* _channel with its subscription: the account it was opened for
  peer,        \* the server's end of the channel is alive
  timer,       \* _reconnectTimer is armed
  loggingOut,  \* LogoutInteractor: the await it stands at
  wake         \* a "connected" event is on its way to the status listeners

sockVars == <<net, probe, online, user, token, stored, status, attempt, channel,
              peer, timer, loggingOut, wake>>

Statuses == {"disconnected", "connecting", "connected", "waitingNetwork"}

\* What a freshly started process holds; net and stored are not its own.
FreshSocket ==
  /\ probe = "asked"
  /\ online = FALSE /\ user = None
  /\ status = "disconnected"
  /\ attempt = None /\ channel = None /\ peer = FALSE
  /\ timer = FALSE /\ loggingOut = "no" /\ wake = FALSE

SocketInit ==
  /\ net \in BOOLEAN
  /\ token = None /\ stored = None
  /\ FreshSocket

-----------------------------------------------------------------------------
\* _establishConnection up to its first await, with the values u and on of
\* _currentUserId and _isDeviceOnline: the guards, then the timer and the old
\* channel go and the attempt takes the token.
Establish(u, on) ==
  IF u = None \/ ~on \/ attempt # None \/ status = "connected"
    THEN UNCHANGED <<status, attempt, channel, timer>>
    ELSE /\ timer' = FALSE
         /\ channel' = None
         /\ IF token = None
              THEN status' = "disconnected" /\ UNCHANGED attempt
              ELSE status' = "connecting" /\ attempt' = token

\* Faulty variant: nothing is scheduled after a drop.
HandleDisconnectionGivesUp ==
  /\ attempt' = None
  /\ channel' = None
  /\ status' = IF online THEN "disconnected" ELSE "waitingNetwork"
  /\ UNCHANGED timer

\* _handleDisconnection: without a network the socket waits for it, otherwise
\* a reconnect is scheduled while somebody is logged in.
HandleDisconnection ==
  /\ attempt' = None
  /\ channel' = None
  /\ status' = IF online THEN "disconnected" ELSE "waitingNetwork"
  /\ timer' = IF online /\ user # None THEN TRUE ELSE timer

-----------------------------------------------------------------------------
\* The platform answers the constructor's question ...
ProbeAnswers ==
  /\ probe = "asked"
  /\ probe' = IF net THEN "online" ELSE "offline"
  /\ UNCHANGED <<net, online, user, token, stored, status, attempt, channel, peer,
                 timer, loggingOut, wake>>

\* ... and the constructor goes on: it stores the answer, whatever happened to
\* the network or to the socket since, and only now listens to changes.
ProbeReturns ==
  /\ probe \in {"online", "offline"}
  /\ online' = (probe = "online")
  /\ probe' = "done"
  /\ UNCHANGED <<net, user, token, stored, status, attempt, channel, peer, timer,
                 loggingOut, wake>>

\* The network comes or goes.  A change nobody listens to yet is dropped.
NetChangesUnheard ==
  /\ probe # "done"
  /\ net' = ~net
  /\ UNCHANGED <<probe, online, user, token, stored, status, attempt, channel, peer,
                 timer, loggingOut, wake>>

\* The connectivity listener hears of a network, the first one or another.
NetReturns ==
  /\ probe = "done"
  /\ net' = TRUE /\ online' = TRUE
  /\ IF ~online \/ status = "waitingNetwork"
       THEN Establish(user, TRUE)
       ELSE UNCHANGED <<status, attempt, channel, timer>>
  /\ UNCHANGED <<probe, user, token, stored, peer, loggingOut, wake>>

\* It hears that the network is gone: the channel is closed.  An attempt in
\* flight is left to itself.
NetGoes ==
  /\ probe = "done" /\ net
  /\ net' = FALSE /\ online' = FALSE
  /\ status' = "waitingNetwork"
  /\ channel' = None
  /\ UNCHANGED <<probe, user, token, stored, attempt, peer, timer, loggingOut, wake>>

-----------------------------------------------------------------------------
\* SigmaStore.account.saveSession, when a verification code was accepted or an
\* account created: the token is in memory at once ...
SaveSession(a) ==
  /\ token = None /\ loggingOut = "no"
  /\ token' = a
  /\ UNCHANGED <<net, probe, online, user, stored, status, attempt, channel, peer,
                 timer, loggingOut, wake>>

\* ... and in the storage when saveSession returns.
SessionStored ==
  /\ token # None /\ stored # token
  /\ stored' = token
  /\ UNCHANGED <<net, probe, online, user, token, status, attempt, channel, peer,
                 timer, loggingOut, wake>>

\* LoginInteractor, after a login or when the app starts with a session:
\* connect() notes the user and leaves a live socket or an attempt alone.
Connect ==
  /\ token # None /\ stored = token /\ user = None
  /\ user' = token
  /\ IF status = "connected" \/ attempt # None
       THEN UNCHANGED <<status, attempt, channel, timer>>
       ELSE IF ~online
         THEN status' = "waitingNetwork" /\ UNCHANGED <<attempt, channel, timer>>
         ELSE Establish(token, online)
  /\ UNCHANGED <<net, probe, online, token, stored, peer, loggingOut, wake>>

\* LogoutInteractor calls disconnect(), which forgets the user and closes the
\* channel, and goes on into account.clear(), which drops the token: both before
\* the first await.  The reconnect timer and an attempt in flight stay.
Logout ==
  /\ user # None
  /\ user' = None /\ token' = None
  /\ channel' = None
  /\ status' = "disconnected"
  /\ loggingOut' = "storage"
  /\ UNCHANGED <<net, probe, online, stored, attempt, peer, timer, wake>>

\* The token is gone from the storage; the tables are next.
StorageCleared ==
  /\ loggingOut = "storage"
  /\ stored' = None
  /\ loggingOut' = "tables"
  /\ UNCHANGED <<net, probe, online, user, token, status, attempt, channel, peer,
                 timer, wake>>

\* clearAll() ends the logout by clearing the account once more.
LogoutEnds ==
  /\ loggingOut = "tables"
  /\ token' = None /\ stored' = None
  /\ loggingOut' = "no"
  /\ UNCHANGED <<net, probe, online, user, status, attempt, channel, peer,
                 timer, wake>>

-----------------------------------------------------------------------------
\* Faulty variant: the flag of the attempt is never lowered.
AttemptSucceedsStays ==
  /\ attempt # None
  /\ channel' = attempt
  /\ peer' = TRUE
  /\ status' = "connected"
  /\ wake' = TRUE
  /\ UNCHANGED <<net, probe, online, user, token, stored, attempt, timer, loggingOut>>

\* The handshake succeeds.  Nothing is checked again: the user may have logged
\* out and the network may be reported gone (a network that is neither mobile,
\* wifi nor ethernet still carries a handshake).
AttemptSucceeds ==
  /\ attempt # None
  /\ attempt' = None
  /\ channel' = attempt
  /\ peer' = TRUE
  /\ status' = "connected"
  /\ wake' = TRUE
  /\ UNCHANGED <<net, probe, online, user, token, stored, timer, loggingOut>>

\* The handshake fails or takes more than 15 seconds.
AttemptFails ==
  /\ attempt # None
  /\ HandleDisconnection
  /\ UNCHANGED <<net, probe, online, user, token, stored, peer, loggingOut, wake>>

\* The server, or the network, drops its end of the channel without a word.
PeerVanishes ==
  /\ channel # None /\ peer
  /\ peer' = FALSE
  /\ UNCHANGED <<net, probe, online, user, token, stored, status, attempt, channel,
                 timer, loggingOut, wake>>

\* The channel reports that it closed (onDone, onError).
ChannelCloses ==
  /\ channel # None
  /\ HandleDisconnection
  /\ peer' = FALSE
  /\ UNCHANGED <<net, probe, online, user, token, stored, loggingOut, wake>>

\* The heartbeat heard nothing for more than 60 seconds.
HeartbeatExpires ==
  /\ channel # None /\ status = "connected" /\ ~peer
  /\ HandleDisconnection
  /\ UNCHANGED <<net, probe, online, user, token, stored, peer, loggingOut, wake>>

\* The reconnect timer fires.
TimerFires ==
  /\ timer
  /\ IF status # "connected" /\ online /\ user # None /\ attempt = None
       THEN Establish(user, online)
       ELSE timer' = FALSE /\ UNCHANGED <<status, attempt, channel>>
  /\ UNCHANGED <<net, probe, online, user, token, stored, peer, loggingOut, wake>>

\* The process starts anew and loads the session the storage holds.
RestartSocket ==
  /\ probe' = "asked"
  /\ online' = FALSE /\ user' = None
  /\ status' = "disconnected"
  /\ attempt' = None /\ channel' = None /\ peer' = FALSE
  /\ timer' = FALSE /\ loggingOut' = "no" /\ wake' = FALSE
  /\ token' = stored
  /\ UNCHANGED <<net, stored>>

SocketSteps ==
  \/ ProbeAnswers \/ ProbeReturns
  \/ AttemptSucceeds \/ AttemptFails
  \/ HeartbeatExpires \/ TimerFires

\* Steps of the socket that no listener of another component takes part in;
\* LogoutEnds, RestartSocket and the delivery of wake do more than this.
SocketNext ==
  \/ SocketSteps
  \/ NetChangesUnheard \/ NetReturns \/ NetGoes
  \/ \E a \in Accounts : SaveSession(a)
  \/ SessionStored \/ Connect \/ Logout \/ StorageCleared
  \/ PeerVanishes \/ ChannelCloses

-----------------------------------------------------------------------------
SocketTypeOK ==
  /\ net \in BOOLEAN /\ online \in BOOLEAN /\ peer \in BOOLEAN
  /\ timer \in BOOLEAN /\ wake \in BOOLEAN
  /\ loggingOut \in {"no", "storage", "tables"}
  /\ probe \in {"asked", "online", "offline", "done"}
  /\ user \in Accounts \cup {None}
  /\ token \in Accounts \cup {None} /\ stored \in Accounts \cup {None}
  /\ attempt \in Accounts \cup {None}
  /\ channel \in Accounts \cup {None}
  /\ status \in Statuses

\* isConnected, on which every sender and the job manager rely, says that there
\* is a channel, and an attempt is never made beside an open one.
StatusTellsChannel ==
  /\ (status = "connected") = (channel # None)
  /\ attempt # None => channel = None

\* A socket that lost or never got its connection, for a user who is logged in,
\* tries again: an attempt is in flight or the reconnect timer is armed.
RetryIsArmed ==
  (status \in {"disconnected", "connecting"} /\ user # None) => (attempt # None \/ timer)

\* What LogoutInteractor says of disconnect(): it keeps new input from coming
\* in, so no channel is open while nobody is logged in.
LogoutDisconnects == user = None => channel = None
=============================================================================
