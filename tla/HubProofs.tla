----------------------------- MODULE HubProofs -----------------------------
(***************************************************************************)
(* Proofs about Hub for every set of users and connections: the types, that *)
(* no registered session is ever lost, what an eviction reaches, that the  *)
(* gauge of open sessions is right, and that Hub implements Sessions.      *)
(***************************************************************************)
EXTENDS Hub, FiniteSetTheorems, TLAPS

LEMMA TypeInit == Init => TypeOK
<1> SUFFICES ASSUME Init
             PROVE  TypeOK
  OBVIOUS
<1> USE HubAssumption DEF Init, HandlerStates, TeardownStates, Closers
<1>1. connections \in [Users -> SUBSET Conns]
      /\ \A u \in Users : \A c \in connections[u] : UserOf[c] = u
  OBVIOUS
<1>2. handler \in [Conns -> HandlerStates] /\ teardown \in [Conns -> TeardownStates]
  OBVIOUS
<1>3. closing \in [Closers -> SUBSET Conns] /\ current \in [Closers -> Conns \cup {None}]
  OBVIOUS
<1>4. loop \in [pc : {"select", "closing", "stopped"}, conn : {None}]
  OBVIOUS
<1>5. advertised \subseteq Users /\ active \in Int /\ older \in [Conns -> SUBSET Conns]
  OBVIOUS
<1>6. stop \in BOOLEAN
  BY Zenon
<1> QED
  BY <1>1, <1>2, <1>3, <1>4, <1>5, <1>6 DEF TypeOK

LEMMA TypeStep == TypeOK /\ [Next]_vars => TypeOK'
<1> SUFFICES ASSUME TypeOK, [Next]_vars
             PROVE  TypeOK'
  OBVIOUS
<1> USE HubAssumption DEF TypeOK, HandlerStates, TeardownStates, Closers
<1>1. ASSUME NEW c \in Conns, Accept(c) PROVE TypeOK'
  BY <1>1 DEF Accept
<1>2. ASSUME NEW c \in Conns, CloseUser(c) PROVE TypeOK'
  <2>1. older' \in [Conns -> SUBSET Conns]
    BY <1>2 DEF CloseUser, SessionsOf
  <2> QED
    BY <1>2, <2>1 DEF CloseUser, TakeSessions
<1>3. ASSUME NEW c \in Conns, OfferRegistration(c) PROVE TypeOK'
  BY <1>3 DEF OfferRegistration
<1>4. ASSUME NEW c \in Conns, Start(c) PROVE TypeOK'
  BY <1>4 DEF Start
<1>5. ASSUME NEW c \in Conns, ReadFrame(c) PROVE TypeOK'
  BY <1>5 DEF ReadFrame
<1>6. ASSUME NEW c \in Conns, HandleFrame(c) PROVE TypeOK'
  BY <1>6 DEF HandleFrame
<1>7. ASSUME NEW c \in Conns, ReadFails(c) PROVE TypeOK'
  BY <1>7 DEF ReadFails, EnterTeardown
<1>8. ASSUME NEW c \in Conns, WriteFails(c) PROVE TypeOK'
  BY <1>8 DEF WriteFails, EnterTeardown
<1>9. ASSUME NEW c \in Conns, CloseSocket(c) PROVE TypeOK'
  BY <1>9 DEF CloseSocket
<1>10. ASSUME NEW c \in Conns, RemoveFromMap(c) PROVE TypeOK'
  BY <1>10 DEF RemoveFromMap
<1>11. ASSUME NEW c \in Conns, Withdraw(c) PROVE TypeOK'
  BY <1>11 DEF Withdraw
<1>12. ASSUME NEW k \in Closers, TeardownReturns(k) PROVE TypeOK'
  BY <1>12 DEF TeardownReturns
<1>13. ASSUME NEW k \in Closers, NEW d \in Conns, CallTeardown(k, d) PROVE TypeOK'
  BY <1>13 DEF CallTeardown, EnterTeardown
<1>14. ASSUME NEW c \in Conns, RunReceive(c) PROVE TypeOK'
  BY <1>14 DEF RunReceive
<1>15. CASE RunInsert
  BY <1>15 DEF RunInsert
<1>16. CASE RunAnnounce
  BY <1>16 DEF RunAnnounce
<1>17. CASE RunCloseAll
  BY <1>17 DEF RunCloseAll
<1>18. CASE RunStops
  BY <1>18 DEF RunStops
<1>19. CASE Shutdown
  BY <1>19 DEF Shutdown
<1>20. ASSUME NEW u \in Users, RemoteConnected(u) PROVE TypeOK'
  BY <1>20 DEF RemoteConnected, TakeSessions
<1>21. CASE UNCHANGED vars
  BY <1>21 DEF vars
<1> QED
  BY <1>1, <1>2, <1>3, <1>4, <1>5, <1>6, <1>7, <1>8, <1>9, <1>10, <1>11,
     <1>12, <1>13, <1>14, <1>15, <1>16, <1>17, <1>18, <1>19, <1>20, <1>21
  DEF Next, TeardownSteps, CloserSteps, RunSteps

(* In every reachable state the variables have their types.                *)
THEOREM TypeCorrect == Spec => []TypeOK
BY TypeInit, TypeStep, PTL DEF Spec

-----------------------------------------------------------------------------
(* NoLostSession is not inductive: taking u's sessions overwrites the list  *)
(* of the closer, so that list must be known to be empty, and Run must have *)
(* emptied the map for good before it stops.                                *)
ListsReady ==
  /\ \A c \in Conns : handler[c] \in {"idle", "accepted"} => closing[c] = {}
  /\ loop.pc \in {"select", "insert", "announce", "stopped"} => closing[RunLoop] = {}
  /\ loop.pc \in {"closing", "stopped"} => \A u \in Users : connections[u] = {}

SessionInv == TypeOK /\ ListsReady /\ NoLostSession

LEMMA SessionInvInit == Init => SessionInv
<1> SUFFICES ASSUME Init
             PROVE  ListsReady /\ NoLostSession
  BY TypeInit DEF SessionInv
<1>1. ListsReady
  BY DEF Init, ListsReady, Closers
<1>2. NoLostSession
  BY DEF Init, NoLostSession, Inserted
<1> QED
  BY <1>1, <1>2

LEMMA SessionInvStep == SessionInv /\ [Next]_vars => SessionInv'
<1> SUFFICES ASSUME SessionInv, [Next]_vars
             PROVE  SessionInv'
  OBVIOUS
<1>0. TypeOK'
  BY TypeStep DEF SessionInv
<1> USE HubAssumption, <1>0 DEF SessionInv, TypeOK, ListsReady, NoLostSession,
        Inserted, Doomed, Closers, HandlerStates
<1>1. ASSUME NEW c \in Conns, Accept(c) PROVE SessionInv'
  BY <1>1 DEF Accept
<1>2. ASSUME NEW c \in Conns, CloseUser(c) PROVE SessionInv'
  BY <1>2 DEF CloseUser, TakeSessions
<1>3. ASSUME NEW c \in Conns, OfferRegistration(c) PROVE SessionInv'
  BY <1>3 DEF OfferRegistration
<1>4. ASSUME NEW c \in Conns, Start(c) PROVE SessionInv'
  BY <1>4 DEF Start
<1>5. ASSUME NEW c \in Conns, ReadFrame(c) PROVE SessionInv'
  BY <1>5 DEF ReadFrame
<1>6. ASSUME NEW c \in Conns, HandleFrame(c) PROVE SessionInv'
  BY <1>6 DEF HandleFrame
<1>7. ASSUME NEW c \in Conns, ReadFails(c) PROVE SessionInv'
  BY <1>7 DEF ReadFails, EnterTeardown
<1>8. ASSUME NEW c \in Conns, WriteFails(c) PROVE SessionInv'
  BY <1>8 DEF WriteFails, EnterTeardown
<1>9. ASSUME NEW c \in Conns, CloseSocket(c) PROVE SessionInv'
  BY <1>9 DEF CloseSocket
<1>10. ASSUME NEW c \in Conns, RemoveFromMap(c) PROVE SessionInv'
  BY <1>10 DEF RemoveFromMap
<1>11. ASSUME NEW c \in Conns, Withdraw(c) PROVE SessionInv'
  BY <1>11 DEF Withdraw
<1>12. ASSUME NEW k \in Closers, TeardownReturns(k) PROVE SessionInv'
  BY <1>12 DEF TeardownReturns
<1>13. ASSUME NEW k \in Closers, NEW d \in Conns, CallTeardown(k, d) PROVE SessionInv'
  BY <1>13 DEF CallTeardown, EnterTeardown
<1>14. ASSUME NEW c \in Conns, RunReceive(c) PROVE SessionInv'
  BY <1>14 DEF RunReceive
<1>15. CASE RunInsert
  BY <1>15 DEF RunInsert
<1>16. CASE RunAnnounce
  BY <1>16 DEF RunAnnounce
<1>17. CASE RunCloseAll
  BY <1>17 DEF RunCloseAll
<1>18. CASE RunStops
  BY <1>18 DEF RunStops
<1>19. CASE Shutdown
  BY <1>19 DEF Shutdown
<1>20. ASSUME NEW u \in Users, RemoteConnected(u) PROVE SessionInv'
  BY <1>20 DEF RemoteConnected, TakeSessions
<1>21. CASE UNCHANGED vars
  BY <1>21 DEF vars
<1> QED
  BY <1>1, <1>2, <1>3, <1>4, <1>5, <1>6, <1>7, <1>8, <1>9, <1>10, <1>11,
     <1>12, <1>13, <1>14, <1>15, <1>16, <1>17, <1>18, <1>19, <1>20, <1>21
  DEF Next, TeardownSteps, CloserSteps, RunSteps

(* A registered session nobody has torn down is in the map or on the list of *)
(* a goroutine about to close it, however upgrades, evictions, failures and  *)
(* shutdown interleave.                                                      *)
THEOREM NoSessionIsLost == Spec => []NoLostSession
<1>1. SessionInv => NoLostSession
  BY DEF SessionInv
<1> QED
  BY <1>1, SessionInvInit, SessionInvStep, PTL DEF Spec

(* Once Run has returned, the map is empty and stays so, and an open session *)
(* is on the list of a goroutine other than Run.                             *)
THEOREM ShutdownLeavesNothing == Spec => []StoppedHubIsEmpty
<1>1. SessionInv => StoppedHubIsEmpty
  BY HubAssumption DEF SessionInv, TypeOK, ListsReady, NoLostSession,
     StoppedHubIsEmpty, Doomed
<1> QED
  BY <1>1, SessionInvInit, SessionInvStep, PTL DEF Spec
-----------------------------------------------------------------------------
(* Eviction: what CloseUser found registered is torn down or on a list from *)
(* that moment on, not only when the handler has finished its own list.     *)
EvictionTakes ==
  \A c \in Conns : handler[c] \in {"evicting", "registering"} =>
    \A d \in older[c] : teardown[d] # "none" \/ Doomed(d)

LEMMA EvictionStep == SessionInv /\ EvictionTakes /\ [Next]_vars => EvictionTakes'
<1> SUFFICES ASSUME SessionInv, EvictionTakes, [Next]_vars
             PROVE  EvictionTakes'
  OBVIOUS
<1> USE HubAssumption DEF SessionInv, TypeOK, ListsReady, NoLostSession,
        EvictionTakes, Inserted, Doomed, Closers, HandlerStates
<1>1. ASSUME NEW c \in Conns, Accept(c) PROVE EvictionTakes'
  BY <1>1 DEF Accept
<1>2. ASSUME NEW c \in Conns, CloseUser(c) PROVE EvictionTakes'
  BY <1>2 DEF CloseUser, TakeSessions, SessionsOf
<1>3. ASSUME NEW c \in Conns, OfferRegistration(c) PROVE EvictionTakes'
  BY <1>3 DEF OfferRegistration
<1>4. ASSUME NEW c \in Conns, Start(c) PROVE EvictionTakes'
  BY <1>4 DEF Start
<1>5. ASSUME NEW c \in Conns, ReadFrame(c) PROVE EvictionTakes'
  BY <1>5 DEF ReadFrame
<1>6. ASSUME NEW c \in Conns, HandleFrame(c) PROVE EvictionTakes'
  BY <1>6 DEF HandleFrame
<1>7. ASSUME NEW c \in Conns, ReadFails(c) PROVE EvictionTakes'
  BY <1>7 DEF ReadFails, EnterTeardown
<1>8. ASSUME NEW c \in Conns, WriteFails(c) PROVE EvictionTakes'
  BY <1>8 DEF WriteFails, EnterTeardown
<1>9. ASSUME NEW c \in Conns, CloseSocket(c) PROVE EvictionTakes'
  BY <1>9 DEF CloseSocket
<1>10. ASSUME NEW c \in Conns, RemoveFromMap(c) PROVE EvictionTakes'
  BY <1>10 DEF RemoveFromMap
<1>11. ASSUME NEW c \in Conns, Withdraw(c) PROVE EvictionTakes'
  BY <1>11 DEF Withdraw
<1>12. ASSUME NEW k \in Closers, TeardownReturns(k) PROVE EvictionTakes'
  BY <1>12 DEF TeardownReturns
<1>13. ASSUME NEW k \in Closers, NEW d \in Conns, CallTeardown(k, d) PROVE EvictionTakes'
  BY <1>13 DEF CallTeardown, EnterTeardown
<1>14. ASSUME NEW c \in Conns, RunReceive(c) PROVE EvictionTakes'
  BY <1>14 DEF RunReceive
<1>15. CASE RunInsert
  BY <1>15 DEF RunInsert
<1>16. CASE RunAnnounce
  BY <1>16 DEF RunAnnounce
<1>17. CASE RunCloseAll
  BY <1>17 DEF RunCloseAll
<1>18. CASE RunStops
  BY <1>18 DEF RunStops
<1>19. CASE Shutdown
  BY <1>19 DEF Shutdown
<1>20. ASSUME NEW u \in Users, RemoteConnected(u) PROVE EvictionTakes'
  BY <1>20 DEF RemoteConnected, TakeSessions
<1>21. CASE UNCHANGED vars
  BY <1>21 DEF vars
<1> QED
  BY <1>1, <1>2, <1>3, <1>4, <1>5, <1>6, <1>7, <1>8, <1>9, <1>10, <1>11,
     <1>12, <1>13, <1>14, <1>15, <1>16, <1>17, <1>18, <1>19, <1>20, <1>21
  DEF Next, TeardownSteps, CloserSteps, RunSteps

(* When a handler registers its session, every session the map had held when *)
(* it evicted is torn down or on the list of a goroutine that will do it.    *)
THEOREM OlderAreEvicted == Spec => []EvictsOlder
<1>1. Init => EvictionTakes
  BY DEF Init, EvictionTakes
<1>2. EvictionTakes => EvictsOlder
  BY DEF EvictionTakes, EvictsOlder
<1> QED
  BY <1>1, <1>2, EvictionStep, SessionInvInit, SessionInvStep, PTL DEF Spec
-----------------------------------------------------------------------------
(* The gauge.                                                              *)

\* The sessions Run has counted in, and those a teardown has counted out: one
\* is counted out, at times, before it is counted in.
Counted == {c \in Conns : /\ handler[c] \in {"starting", "serving", "handling", "gone"}
                          /\ loop.conn # c}
Withdrawn == {c \in Conns : teardown[c] = "done"}

\* Who is torn down, or about to be, has been received by Run.
Received == {c \in Conns : handler[c] \in {"starting", "serving", "handling", "gone"}}

GaugeInv ==
  /\ \A u \in Users : connections[u] \subseteq Received
  /\ \A k \in Closers : closing[k] \subseteq Received
  /\ \A k \in Closers : current[k] # None => current[k] \in closing[k]
  /\ \A c \in Conns : teardown[c] # "none" => c \in Received
  /\ loop.conn # None => loop.conn \in Received
  /\ IsFiniteSet(Counted) /\ IsFiniteSet(Withdrawn)
  /\ active = Cardinality(Counted) - Cardinality(Withdrawn)

LEMMA GaugeInit == Init => GaugeInv
<1> SUFFICES ASSUME Init
             PROVE  GaugeInv
  OBVIOUS
<1>1. Counted = {} /\ Withdrawn = {}
  BY DEF Init, Counted, Withdrawn
<1> QED
  BY <1>1, FS_EmptySet DEF Init, GaugeInv, Received, Closers

\* Where neither goroutine counts, the gauge and the two sets stay.
LEMMA Uncounted ==
  ASSUME GaugeInv, Counted' = Counted, Withdrawn' = Withdrawn, active' = active
  PROVE  /\ IsFiniteSet(Counted') /\ IsFiniteSet(Withdrawn')
         /\ active' = Cardinality(Counted') - Cardinality(Withdrawn')
  BY DEF GaugeInv

LEMMA GaugeStep == SessionInv /\ GaugeInv /\ [Next]_vars => GaugeInv'
<1> SUFFICES ASSUME SessionInv, GaugeInv, [Next]_vars
             PROVE  GaugeInv'
  OBVIOUS
<1>a. ASSUME NEW S, NEW T, NEW x, IsFiniteSet(S), x \notin S, T = S \cup {x}
      PROVE  IsFiniteSet(T) /\ Cardinality(T) = Cardinality(S) + 1 /\ Cardinality(S) \in Nat
  BY <1>a, FS_AddElement, FS_CardinalityType
<1>e. IsFiniteSet(Counted) /\ IsFiniteSet(Withdrawn)
  BY DEF GaugeInv
<1>b. Cardinality(Counted) \in Nat /\ Cardinality(Withdrawn) \in Nat
  BY FS_CardinalityType DEF GaugeInv
<1> DEFINE Places ==
      /\ \A u \in Users : connections[u] \subseteq Received
      /\ \A k \in Closers : closing[k] \subseteq Received
      /\ \A k \in Closers : current[k] # None => current[k] \in closing[k]
      /\ \A c \in Conns : teardown[c] # "none" => c \in Received
      /\ loop.conn # None => loop.conn \in Received
<1>c. Places' /\ Counted' = Counted /\ Withdrawn' = Withdrawn /\ active' = active => GaugeInv'
  BY Uncounted DEF GaugeInv
<1>d. Places
  BY DEF GaugeInv
<1> USE HubAssumption, <1>d DEF SessionInv, ListsReady, TypeOK, HandlerStates, TeardownStates, Closers, Received
<1>1. ASSUME NEW c \in Conns, Accept(c) PROVE GaugeInv'
  <2>1. Places'
    BY <1>1 DEF Accept
  <2>2. Counted' = Counted /\ Withdrawn' = Withdrawn /\ active' = active
    BY <1>1 DEF Accept, Counted, Withdrawn
  <2> QED
    BY <2>1, <2>2, <1>c
<1>2. ASSUME NEW c \in Conns, CloseUser(c) PROVE GaugeInv'
  <2>1. Places'
    BY <1>2 DEF CloseUser, TakeSessions
  <2>2. Counted' = Counted /\ Withdrawn' = Withdrawn /\ active' = active
    BY <1>2 DEF CloseUser, TakeSessions, Counted, Withdrawn
  <2> QED
    BY <2>1, <2>2, <1>c
<1>3. ASSUME NEW c \in Conns, OfferRegistration(c) PROVE GaugeInv'
  <2>1. Places'
    BY <1>3 DEF OfferRegistration
  <2>2. Counted' = Counted /\ Withdrawn' = Withdrawn /\ active' = active
    BY <1>3 DEF OfferRegistration, Counted, Withdrawn
  <2> QED
    BY <2>1, <2>2, <1>c
<1>4. ASSUME NEW c \in Conns, Start(c) PROVE GaugeInv'
  <2>1. Places'
    BY <1>4 DEF Start
  <2>2. Counted' = Counted /\ Withdrawn' = Withdrawn /\ active' = active
    BY <1>4 DEF Start, Counted, Withdrawn
  <2> QED
    BY <2>1, <2>2, <1>c
<1>5. ASSUME NEW c \in Conns, ReadFrame(c) PROVE GaugeInv'
  <2>1. Places'
    BY <1>5 DEF ReadFrame
  <2>2. Counted' = Counted /\ Withdrawn' = Withdrawn /\ active' = active
    BY <1>5 DEF ReadFrame, Counted, Withdrawn
  <2> QED
    BY <2>1, <2>2, <1>c
<1>6. ASSUME NEW c \in Conns, HandleFrame(c) PROVE GaugeInv'
  <2>1. Places'
    BY <1>6 DEF HandleFrame
  <2>2. Counted' = Counted /\ Withdrawn' = Withdrawn /\ active' = active
    BY <1>6 DEF HandleFrame, Counted, Withdrawn
  <2> QED
    BY <2>1, <2>2, <1>c
<1>7. ASSUME NEW c \in Conns, ReadFails(c) PROVE GaugeInv'
  <2>1. Places'
    BY <1>7 DEF ReadFails, EnterTeardown
  <2>2. Counted' = Counted /\ Withdrawn' = Withdrawn /\ active' = active
    BY <1>7 DEF ReadFails, EnterTeardown, Counted, Withdrawn
  <2> QED
    BY <2>1, <2>2, <1>c
<1>8. ASSUME NEW c \in Conns, WriteFails(c) PROVE GaugeInv'
  <2>1. Places'
    BY <1>8 DEF WriteFails, EnterTeardown, Inserted
  <2>2. Counted' = Counted /\ Withdrawn' = Withdrawn /\ active' = active
    BY <1>8 DEF WriteFails, EnterTeardown, Inserted, Counted, Withdrawn
  <2> QED
    BY <2>1, <2>2, <1>c
<1>9. ASSUME NEW c \in Conns, CloseSocket(c) PROVE GaugeInv'
  <2>1. Places'
    BY <1>9 DEF CloseSocket
  <2>2. Counted' = Counted /\ Withdrawn' = Withdrawn /\ active' = active
    BY <1>9 DEF CloseSocket, Counted, Withdrawn
  <2> QED
    BY <2>1, <2>2, <1>c
<1>10. ASSUME NEW c \in Conns, RemoveFromMap(c) PROVE GaugeInv'
  <2>1. Places'
    BY <1>10 DEF RemoveFromMap
  <2>2. Counted' = Counted /\ Withdrawn' = Withdrawn /\ active' = active
    BY <1>10 DEF RemoveFromMap, Counted, Withdrawn
  <2> QED
    BY <2>1, <2>2, <1>c
<1>11. ASSUME NEW c \in Conns, Withdraw(c) PROVE GaugeInv'
  <2>1. Places'
    BY <1>11 DEF Withdraw
  <2>2. Counted' = Counted /\ Withdrawn' = Withdrawn \cup {c} /\ c \notin Withdrawn
    BY <1>11 DEF Withdraw, Counted, Withdrawn
  <2>3. IsFiniteSet(Withdrawn') /\ Cardinality(Withdrawn') = Cardinality(Withdrawn) + 1
    BY <2>2, <1>a, <1>e, Zenon
  <2>4. active' = active - 1
    BY <1>11 DEF Withdraw
  <2>5. active = Cardinality(Counted) - Cardinality(Withdrawn)
    BY DEF GaugeInv
  <2>6. IsFiniteSet(Counted') /\ active' = Cardinality(Counted') - Cardinality(Withdrawn')
    BY <2>2, <2>3, <2>4, <2>5, <1>b, <1>e
  <2> QED
    BY <2>1, <2>3, <2>6, Zenon DEF GaugeInv
<1>12. ASSUME NEW k \in Closers, TeardownReturns(k) PROVE GaugeInv'
  <2>1. Places'
    BY <1>12 DEF TeardownReturns
  <2>2. Counted' = Counted /\ Withdrawn' = Withdrawn /\ active' = active
    BY <1>12 DEF TeardownReturns, Counted, Withdrawn
  <2> QED
    BY <2>1, <2>2, <1>c
<1>13. ASSUME NEW k \in Closers, NEW d \in Conns, CallTeardown(k, d) PROVE GaugeInv'
  <2>1. Places'
    BY <1>13 DEF CallTeardown, EnterTeardown
  <2>2. Counted' = Counted /\ Withdrawn' = Withdrawn /\ active' = active
    BY <1>13 DEF CallTeardown, EnterTeardown, Counted, Withdrawn
  <2> QED
    BY <2>1, <2>2, <1>c
<1>14. ASSUME NEW c \in Conns, RunReceive(c) PROVE GaugeInv'
  <2>1. Places'
    BY <1>14 DEF RunReceive
  <2>2. Counted' = Counted /\ Withdrawn' = Withdrawn /\ active' = active
    BY <1>14 DEF RunReceive, Counted, Withdrawn
  <2> QED
    BY <2>1, <2>2, <1>c
<1>15. CASE RunInsert
  <2>1. Places'
    BY <1>15 DEF RunInsert
  <2>2. Counted' = Counted /\ Withdrawn' = Withdrawn /\ active' = active
    BY <1>15 DEF RunInsert, Counted, Withdrawn
  <2> QED
    BY <2>1, <2>2, <1>c
<1>16. CASE RunAnnounce
  <2>0. PICK c \in Conns : loop.conn = c
    BY <1>16 DEF RunAnnounce
  <2>1. Places'
    BY <1>16 DEF RunAnnounce
  <2>2. Counted' = Counted \cup {c} /\ c \notin Counted /\ Withdrawn' = Withdrawn
    BY <1>16, <2>0 DEF RunAnnounce, Counted, Withdrawn
  <2>3. IsFiniteSet(Counted') /\ Cardinality(Counted') = Cardinality(Counted) + 1
    BY <2>2, <1>a, <1>e, Zenon
  <2>4. active' = active + 1
    BY <1>16 DEF RunAnnounce
  <2>5. active = Cardinality(Counted) - Cardinality(Withdrawn)
    BY DEF GaugeInv
  <2>6. active' = Cardinality(Counted') - Cardinality(Withdrawn')
    BY <2>2, <2>3, <2>4, <2>5, <1>b
  <2> QED
    BY <2>1, <2>2, <2>3, <2>6, <1>e DEF GaugeInv
<1>17. CASE RunCloseAll
  <2>1. Places'
    BY <1>17 DEF RunCloseAll
  <2>2. Counted' = Counted /\ Withdrawn' = Withdrawn /\ active' = active
    BY <1>17 DEF RunCloseAll, Counted, Withdrawn
  <2> QED
    BY <2>1, <2>2, <1>c
<1>18. CASE RunStops
  <2>1. Places'
    BY <1>18 DEF RunStops
  <2>2. Counted' = Counted /\ Withdrawn' = Withdrawn /\ active' = active
    BY <1>18 DEF RunStops, Counted, Withdrawn
  <2> QED
    BY <2>1, <2>2, <1>c
<1>19. CASE Shutdown
  <2>1. Places'
    BY <1>19 DEF Shutdown
  <2>2. Counted' = Counted /\ Withdrawn' = Withdrawn /\ active' = active
    BY <1>19 DEF Shutdown, Counted, Withdrawn
  <2> QED
    BY <2>1, <2>2, <1>c
<1>20. ASSUME NEW u \in Users, RemoteConnected(u) PROVE GaugeInv'
  <2>1. Places'
    BY <1>20 DEF RemoteConnected, TakeSessions
  <2>2. Counted' = Counted /\ Withdrawn' = Withdrawn /\ active' = active
    BY <1>20 DEF RemoteConnected, TakeSessions, Counted, Withdrawn
  <2> QED
    BY <2>1, <2>2, <1>c
<1>21. CASE UNCHANGED vars
  <2>1. Places'
    BY <1>21 DEF vars
  <2>2. Counted' = Counted /\ Withdrawn' = Withdrawn /\ active' = active
    BY <1>21 DEF vars, Counted, Withdrawn
  <2> QED
    BY <2>1, <2>2, <1>c
<1> QED
  BY <1>1, <1>2, <1>3, <1>4, <1>5, <1>6, <1>7, <1>8, <1>9, <1>10, <1>11,
     <1>12, <1>13, <1>14, <1>15, <1>16, <1>17, <1>18, <1>19, <1>20, <1>21
  DEF Next, TeardownSteps, CloserSteps, RunSteps

(* Between registrations and teardowns the gauge is the number of sessions   *)
(* that are not torn down, for any number of connections.                    *)
THEOREM GaugeIsRight == Spec => []GaugeMatches
<1>1. SessionInv /\ GaugeInv => GaugeMatches
  <2> SUFFICES ASSUME TypeOK, GaugeInv, Settled
               PROVE  active = Cardinality({c \in Conns : Inserted(c) /\ teardown[c] = "none"})
    BY DEF GaugeMatches, SessionInv
  <2> DEFINE Open == {c \in Conns : Inserted(c) /\ teardown[c] = "none"}
  <2>1. loop.conn = None
    BY DEF TypeOK, Settled
  <2>2. Open = Counted \ Withdrawn /\ Withdrawn \subseteq Counted
    BY <2>1, HubAssumption DEF Settled, GaugeInv, Inserted, Counted, Withdrawn, Received,
       TypeOK, TeardownStates
  <2>3. IsFiniteSet(Counted) /\ IsFiniteSet(Withdrawn) /\ IsFiniteSet(Open)
    BY <2>2, FS_Subset DEF GaugeInv
  <2>4. Open \cup Withdrawn = Counted /\ Open \cap Withdrawn = {}
    BY <2>2
  <2>5. Cardinality(Counted) = Cardinality(Open) + Cardinality(Withdrawn) - Cardinality({})
    BY <2>3, <2>4, FS_Union
  <2>6. Cardinality(Open) \in Nat /\ Cardinality(Withdrawn) \in Nat
    BY <2>3, FS_CardinalityType
  <2> QED
    BY <2>5, <2>6, FS_EmptySet DEF GaugeInv
<1>2. Init => SessionInv /\ GaugeInv
  BY SessionInvInit, GaugeInit
<1>3. SessionInv /\ GaugeInv /\ [Next]_vars => (SessionInv /\ GaugeInv)'
  BY SessionInvStep, GaugeStep
<1> QED
  BY <1>1, <1>2, <1>3, PTL DEF Spec

-----------------------------------------------------------------------------
(* The life of a session.                                                  *)

\* Where a session is: a teardown that has begun closes it, whatever the map
\* still says of it; one that Run received and has not filed is handed over;
\* one that is open and out of the map is on a closer's list (NoLostSession).
Place == [c \in Conns |->
  IF teardown[c] # "none" THEN "closed"
  ELSE IF c \notin Received THEN "new"
  ELSE IF loop.pc = "insert" /\ loop.conn = c THEN "handed"
  ELSE IF c \in connections[UserOf[c]] THEN "listed" ELSE "taken"]

Lives == INSTANCE Sessions WITH place <- Place

LEMMA LifeInit == Init => Lives!SessionsInit
BY DEF Init, Lives!SessionsInit, Place, Received

\* A teardown begins, or had begun.
LEMMA LifeCloses ==
  ASSUME SessionInv, GaugeInv, NEW c \in Conns, c \in Received,
         EnterTeardown(c), Received' = Received, UNCHANGED <<loop, connections>>
  PROVE  [Lives!SessionsNext]_Place
<1>1. CASE teardown[c] = "none"
  <2>1. Place[c] \in {"handed", "listed", "taken"} /\ Place' = [Place EXCEPT ![c] = "closed"]
    BY <1>1 DEF Place, EnterTeardown, SessionInv, TypeOK
  <2>2. Lives!Close(c)
    BY <2>1 DEF Lives!Close
  <2> QED
    BY <2>2 DEF Lives!SessionsNext
<1>2. CASE teardown[c] # "none"
  <2>1. teardown' = teardown
    BY <1>2 DEF EnterTeardown, SessionInv, TypeOK
  <2>2. Place' = Place
    BY <2>1 DEF Place
  <2> QED
    BY <2>2
<1> QED
  BY <1>1, <1>2

\* A closer takes sessions out of the map.
LEMMA LifeTakes ==
  ASSUME SessionInv, GaugeInv, NEW V \in SUBSET Users,
         connections' = [u \in Users |-> IF u \in V THEN {} ELSE connections[u]],
         Received' = Received, teardown' = teardown,
         loop' = loop \/ (loop.pc # "insert" /\ loop'.pc # "insert")
  PROVE  [Lives!SessionsNext]_Place
<1> DEFINE some == {c \in Conns : Place[c] = "listed" /\ UserOf[c] \in V}
<1>1. some \subseteq Lives!Listed /\ some \in SUBSET Conns
  BY DEF Lives!Listed
<1>2. Place' = [c \in Conns |-> IF c \in some THEN "taken" ELSE Place[c]]
  <2>1. \A c \in Conns : UserOf[c] \in Users
    BY HubAssumption
  <2>2. ASSUME NEW c \in Conns PROVE Place'[c] = IF c \in some THEN "taken" ELSE Place[c]
    <3>1. (loop.pc = "insert" /\ loop.conn = c) <=> (loop'.pc = "insert" /\ loop'.conn = c)
      OBVIOUS
    <3>2. c \in connections'[UserOf[c]] <=> c \in connections[UserOf[c]] /\ UserOf[c] \notin V
      BY <2>1
    <3> QED
      BY <3>1, <3>2 DEF Place
  <2> QED
    BY <2>2 DEF Place
<1> HIDE DEF some
<1>3. Lives!Take(some)
  BY <1>1, <1>2 DEF Lives!Take
<1> QED
  BY <1>1, <1>3 DEF Lives!SessionsNext

LEMMA LifeStep == SessionInv /\ GaugeInv /\ [Next]_vars => [Lives!SessionsNext]_Place
<1> SUFFICES ASSUME SessionInv, GaugeInv, [Next]_vars
             PROVE  [Lives!SessionsNext]_Place
  OBVIOUS
<1>t. /\ connections \in [Users -> SUBSET Conns]
      /\ \A u \in Users : \A c \in connections[u] : UserOf[c] = u
      /\ handler \in [Conns -> HandlerStates]
      /\ teardown \in [Conns -> TeardownStates]
      /\ \A c \in Conns : UserOf[c] \in Users
  BY HubAssumption DEF SessionInv, TypeOK
<1>g. /\ \A u \in Users : connections[u] \subseteq Received
      /\ \A k \in Closers : closing[k] \subseteq Received
      /\ \A c \in Conns : teardown[c] # "none" => c \in Received
  BY DEF GaugeInv
<1>s. Received' = Received /\ UNCHANGED <<teardown, loop, connections>> => Place' = Place
  BY DEF Place
<1>1. ASSUME NEW c \in Conns,
             Accept(c) \/ OfferRegistration(c) \/ Start(c) \/ ReadFrame(c) \/ HandleFrame(c)
      PROVE  [Lives!SessionsNext]_Place
  <2>1. Received' = Received
    BY <1>1, <1>t DEF Accept, OfferRegistration, Start, ReadFrame, HandleFrame, Received
  <2>2. UNCHANGED <<teardown, loop, connections>>
    BY <1>1 DEF Accept, OfferRegistration, Start, ReadFrame, HandleFrame
  <2> QED
    BY <1>s, <2>1, <2>2
<1>2. ASSUME NEW c \in Conns, CloseUser(c) PROVE [Lives!SessionsNext]_Place
  <2>1. Received' = Received
    BY <1>2, <1>t DEF CloseUser, Received
  <2>2. UNCHANGED <<teardown, loop>>
        /\ connections' = [u \in Users |-> IF u \in {UserOf[c]} THEN {} ELSE connections[u]]
    BY <1>2, <1>t DEF CloseUser, TakeSessions
  <2>3. {UserOf[c]} \in SUBSET Users
    BY <1>t
  <2> QED
    BY <2>1, <2>2, <2>3, LifeTakes
<1>3. ASSUME NEW c \in Conns, ReadFails(c) PROVE [Lives!SessionsNext]_Place
  <2>1. c \in Received /\ Received' = Received
    BY <1>3, <1>t DEF ReadFails, Received
  <2> QED
    BY <1>3, <2>1, LifeCloses DEF ReadFails
<1>4. ASSUME NEW c \in Conns, WriteFails(c) PROVE [Lives!SessionsNext]_Place
  <2>1. c \in Received /\ Received' = Received
    BY <1>4 DEF WriteFails, Inserted, Received
  <2> QED
    BY <1>4, <2>1, LifeCloses DEF WriteFails
<1>5. ASSUME NEW k \in Closers, NEW d \in Conns, CallTeardown(k, d)
      PROVE  [Lives!SessionsNext]_Place
  <2>1. d \in Received /\ Received' = Received
    BY <1>5, <1>g DEF CallTeardown, Received
  <2> QED
    BY <1>5, <2>1, LifeCloses DEF CallTeardown
<1>6. ASSUME NEW c \in Conns, CloseSocket(c) \/ RemoveFromMap(c) \/ Withdraw(c)
      PROVE  [Lives!SessionsNext]_Place
  <2>1. Received' = Received /\ loop' = loop
    BY <1>6 DEF CloseSocket, RemoveFromMap, Withdraw, Received
  <2>2. /\ teardown[c] # "none" /\ teardown'[c] # "none"
        /\ \A d \in Conns \ {c} : teardown'[d] = teardown[d]
    BY <1>6, <1>t DEF CloseSocket, RemoveFromMap, Withdraw
  <2>3. \A d \in Conns \ {c} : d \in connections'[UserOf[d]] <=> d \in connections[UserOf[d]]
    BY <1>6, <1>t DEF CloseSocket, RemoveFromMap, Withdraw
  <2>4. ASSUME NEW d \in Conns PROVE Place'[d] = Place[d]
    BY <2>1, <2>2, <2>3 DEF Place
  <2>5. Place' = Place
    BY <2>4 DEF Place
  <2> QED
    BY <2>5
<1>7. ASSUME NEW k \in Closers, TeardownReturns(k) PROVE [Lives!SessionsNext]_Place
  BY <1>7, <1>s DEF TeardownReturns, Received
<1>8. ASSUME NEW c \in Conns, RunReceive(c) PROVE [Lives!SessionsNext]_Place
  <2>1. /\ loop.pc = "select" /\ loop' = [pc |-> "insert", conn |-> c]
        /\ UNCHANGED <<teardown, connections>>
        /\ handler[c] = "registering" /\ handler' = [handler EXCEPT ![c] = "starting"]
    BY <1>8 DEF RunReceive
  <2>2. c \notin Received /\ Received' = Received \cup {c} /\ teardown[c] = "none"
    BY <1>t, <1>g, <2>1 DEF Received
  <2>3. Place[c] = "new" /\ \A d \in Conns : Place[d] # "handed"
    BY <2>1, <2>2 DEF Place
  <2>4. ASSUME NEW d \in Conns
        PROVE  Place'[d] = IF d = c THEN "handed" ELSE IF d \in {} THEN "closed" ELSE Place[d]
    BY <2>1, <2>2 DEF Place
  <2>5. Lives!Hand(c, {})
    BY <2>3, <2>4 DEF Lives!Hand, Lives!Listed, Place
  <2> QED
    BY <2>5 DEF Lives!SessionsNext
<1>9. CASE RunInsert
  <2> DEFINE c == loop.conn
  <2>1. /\ loop.pc = "insert" /\ loop' = [loop EXCEPT !.pc = "announce"]
        /\ connections' = [connections EXCEPT ![UserOf[c]] = connections[UserOf[c]] \cup {c}]
        /\ teardown' = teardown /\ handler' = handler
    BY <1>9 DEF RunInsert
  <2>2. c \in Conns /\ c \in Received /\ Received' = Received /\ loop'.pc = "announce"
    BY <2>1, HubAssumption DEF SessionInv, TypeOK, GaugeInv, Received
  <2> HIDE DEF c
  <2>3. /\ c \in connections'[UserOf[c]]
        /\ \A d \in Conns \ {c} : d \in connections'[UserOf[d]] <=> d \in connections[UserOf[d]]
    BY <1>t, <2>1, <2>2
  <2>4. ASSUME NEW d \in Conns \ {c} PROVE Place'[d] = Place[d]
    BY <2>1, <2>2, <2>3 DEF Place, c
  <2>5. CASE teardown[c] = "none"
    <3>1. Place[c] = "handed" /\ Place'[c] = "listed"
      BY <2>1, <2>2, <2>3, <2>5 DEF Place, c
    <3>2. \A d \in Conns : Place'[d] = IF d = c THEN "listed" ELSE Place[d]
      BY <2>4, <3>1
    <3>3. Place' = [Place EXCEPT ![c] = "listed"]
      <4>1. /\ Place = [d \in Conns |-> Place[d]]
            /\ Place' = [d \in Conns |-> Place'[d]]
        BY DEF Place
      <4> QED
        BY <2>2, <3>2, <4>1
    <3>4. Lives!Enter(c)
      BY <3>1, <3>3 DEF Lives!Enter
    <3> QED
      BY <2>2, <3>4 DEF Lives!SessionsNext
  <2>6. CASE teardown[c] # "none"
    <3>1. Place[c] = "closed" /\ Place'[c] = "closed"
      BY <2>1, <2>2, <2>6 DEF Place
    <3>2. \A d \in Conns : Place'[d] = Place[d]
      BY <2>4, <3>1
    <3>3. Place' = Place
      BY <3>2 DEF Place
    <3> QED
      BY <3>3
  <2> QED
    BY <2>5, <2>6
<1>10. CASE RunAnnounce \/ RunStops
  <2>1. Received' = Received /\ UNCHANGED <<teardown, connections>>
        /\ loop.pc # "insert" /\ loop'.pc # "insert"
    BY <1>10 DEF RunAnnounce, RunStops, Received, SessionInv, TypeOK
  <2>2. Place' = Place
    BY <2>1 DEF Place
  <2> QED
    BY <2>2
<1>11. CASE RunCloseAll
  <2>1. /\ Received' = Received /\ teardown' = teardown
        /\ loop.pc # "insert" /\ loop'.pc # "insert"
        /\ connections' = [u \in Users |-> IF u \in Users THEN {} ELSE connections[u]]
    BY <1>11 DEF RunCloseAll, Received, SessionInv, TypeOK
  <2>2. Users \in SUBSET Users
    OBVIOUS
  <2> QED
    BY <2>1, <2>2, LifeTakes
<1>12. CASE Shutdown \/ UNCHANGED vars
  BY <1>12, <1>s DEF Shutdown, vars, Received
<1>13. ASSUME NEW u \in Users, RemoteConnected(u) PROVE [Lives!SessionsNext]_Place
  <2>1. /\ Received' = Received /\ UNCHANGED <<teardown, loop>>
        /\ connections' = [v \in Users |-> IF v \in {u} THEN {} ELSE connections[v]]
    BY <1>13, <1>t DEF RemoteConnected, TakeSessions, Received
  <2>2. {u} \in SUBSET Users
    OBVIOUS
  <2> QED
    BY <2>1, <2>2, LifeTakes
<1> QED
  BY <1>1, <1>2, <1>3, <1>4, <1>5, <1>6, <1>7, <1>8, <1>9, <1>10, <1>11, <1>12, <1>13
  DEF Next, TeardownSteps, CloserSteps, RunSteps

\* The hub keeps the promise of Sessions, with closers, teardowns and Run at
\* any point: one session at a time is received and not yet filed, none enters
\* the map twice, and what left it never comes back open (hub.go
\* registerConnection, unregisterConnection, CloseUser and closeAll together).
THEOREM HubImplementsSessions == Spec => Lives!SessionsSpec
<1>1. Init => Lives!SessionsInit
  BY LifeInit
<1>2. SessionInv /\ GaugeInv /\ [Next]_vars => [Lives!SessionsNext]_Place
  BY LifeStep
<1>3. Init => SessionInv /\ GaugeInv
  BY SessionInvInit, GaugeInit
<1>4. SessionInv /\ GaugeInv /\ [Next]_vars => (SessionInv /\ GaugeInv)'
  BY SessionInvStep, GaugeStep
<1> QED
  BY <1>1, <1>2, <1>3, <1>4, PTL DEF Spec, Lives!SessionsSpec
=============================================================================
