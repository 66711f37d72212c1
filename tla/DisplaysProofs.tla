--------------------------- MODULE DisplaysProofs ---------------------------
(***************************************************************************)
(* Proofs about Displays, for every set of targets, displays and requests.  *)
(* The inductive invariant says what the thread of the manager has in hand  *)
(* while it holds displayMutex_, that a display is registered for as long   *)
(* as a request holds it, and how the clock of a display relates to the     *)
(* waiting of a request and to the messages of a page.                      *)
(***************************************************************************)
EXTENDS Displays, FiniteSetTheorems, TLAPS

\* What the manager's thread has in hand.  The destructor, once it sweeps, does
\* not let go of the mutex before nothing is registered.
CallAgrees ==
    /\ call.op \in {"create", "created"} =>
         manager = "active" /\ call.target \in Target /\ displays[call.target] = NULL
    /\ call.op = "created" =>
         /\ call.display \in Display /\ object[call.display] = "alive"
         /\ call.display \notin Registered
         /\ \A r \in Reader : pointer[r] # call.display
    /\ call.op \in {"tearDown", "delete"} =>
         call.display \in Display /\ call.display \notin Registered
    /\ manager = "closing" =>
         call.op \in {"sweep", "tearDown", "delete"} /\ Registered \subseteq call.todo
    /\ manager = "gone" => Registered = {}

\* What a patch request works with.
PointersAgree ==
    \A r \in Reader :
        /\ step[r] = "found" => pointer[r] \in Target
        /\ step[r] \in {"acquired", "released"} => pointer[r] \in Display
        /\ step[r] = "acquired" /\ manager \in {"active", "orphaned"} =>
             pointer[r] \in Registered

\* A display that a request released is registered and was used since, or the
\* request waits for more than two periods.
PatienceIsBounded ==
    \A r \in Reader :
        step[r] = "released" /\ manager \in {"active", "orphaned"} =>
            \/ pointer[r] \in Registered /\ idle[pointer[r]] <= wait[r]
            \/ wait[r] >= 2

\* The clock of a page's display has not ticked since the page was heard, or
\* once, and then its next message is on its way.
PageIsHeard ==
    \A t \in Target :
        attached[t] /\ ~lost[t] /\ inbox[t] # "newDisplay" /\ manager = "active" =>
            \/ /\ displays[t] # NULL
               /\ idle[displays[t]] <= IF inbox[t] = "message" THEN 1 ELSE 0
            \/ call.op \in {"create", "created"} /\ call.target = t

Inv ==
    /\ TypeOK
    /\ CallAgrees
    /\ PointersAgree
    /\ RegistryAgrees
    /\ PatienceIsBounded
    /\ PageIsHeard

-----------------------------------------------------------------------------
\* Nothing is registered, and nothing under way, at first.
LEMMA InitInv == Init => Inv
<1> SUFFICES ASSUME Init PROVE Inv
  OBVIOUS
<1> USE DEF Init
<1>1. TypeOK
  BY DEF TypeOK, Idle, Op
<1>2. CallAgrees /\ PointersAgree /\ PatienceIsBounded /\ PageIsHeard
  BY DEF CallAgrees, PointersAgree, PatienceIsBounded, PageIsHeard, Idle
<1>3. RegistryAgrees
  BY DEF RegistryAgrees, Registered
<1> QED BY <1>1, <1>2, <1>3 DEF Inv

\* The destructor sweeps under the mutex until the manager is gone.
LEMMA ManagerIsHere ==
    ASSUME Inv, manager # "gone", MutexFree
    PROVE  manager \in {"active", "orphaned"}
  BY DEF Inv, TypeOK, CallAgrees, MutexFree

\* A request that holds a display is counted.
LEMMA HolderIsCounted ==
    ASSUME Inv, NEW r \in Reader, step[r] = "acquired", manager \in {"active", "orphaned"}
    PROVE  /\ pointer[r] \in Display
           /\ useCount[pointer[r]] \in Nat \ {0}
           /\ useCount[pointer[r]] = Cardinality(Holders(pointer[r]))
<1>2. pointer[r] \in Display /\ pointer[r] \in Registered
  BY DEF Inv, PointersAgree
<1>3. useCount[pointer[r]] = Cardinality(Holders(pointer[r]))
  BY <1>2 DEF Inv, RegistryAgrees
<1>4. r \in Holders(pointer[r])
  BY DEF Holders
<1>5. IsFiniteSet(Holders(pointer[r]))
  BY ReaderAssumption, FS_Subset DEF Holders
<1>6. Cardinality(Holders(pointer[r])) \in Nat \ {0}
  BY <1>4, <1>5, FS_CardinalityType, FS_EmptySet
<1> QED BY <1>2, <1>3, <1>6

\* Every step keeps the types.
LEMMA TypeStep == Inv /\ [Next]_vars => TypeOK'
<1> SUFFICES ASSUME Inv, [Next]_vars PROVE TypeOK'
  OBVIOUS
<1> USE NullAssumption DEF Inv, TypeOK, Op
<1>1. ASSUME NEW t \in Target, ReconnectDisplay(t) PROVE TypeOK'
  BY <1>1 DEF ReconnectDisplay, registryVars, pageVars, readerVars
<1>2. ASSUME NEW t \in Target, Disconnect(t) PROVE TypeOK'
  BY <1>2 DEF Disconnect, registryVars, pageVars, readerVars
<1>3. ASSUME NEW t \in Target, LoseMessage(t) PROVE TypeOK'
  BY <1>3 DEF LoseMessage, registryVars, pageVars, readerVars, Received
<1>4. CASE Tick
  BY <1>4 DEF Tick, registryVars, pageVars, readerVars, NextTick
<1>5. ASSUME NEW t \in Target, UseDisplay(t) PROVE TypeOK'
  BY <1>5 DEF UseDisplay, registryVars, pageVars, readerVars, Received, Restarted
<1>6. ASSUME NEW t \in Target, DropMessage(t) PROVE TypeOK'
  BY <1>6 DEF DropMessage, registryVars, pageVars, readerVars, Received
<1>7. ASSUME NEW t \in Target, GetNewDisplay(t) PROVE TypeOK'
  BY <1>7 DEF GetNewDisplay, registryVars, pageVars, readerVars, Received, Idle
<1>8. CASE CreateDisplayInstance
  <2>1. call.target \in Target
    BY <1>8 DEF CreateDisplayInstance, CallAgrees
  <2>2. CASE \E d \in Display :
               /\ object' = [object EXCEPT ![d] = "alive"]
               /\ call' = [call EXCEPT !.op = "created", !.display = d]
               /\ UNCHANGED lost
    <3>1. PICK d \in Display : /\ object' = [object EXCEPT ![d] = "alive"]
                               /\ call' = [call EXCEPT !.op = "created", !.display = d]
                               /\ UNCHANGED lost
      BY <2>2
    <3> QED BY <1>8, <3>1 DEF CreateDisplayInstance, readerVars
  <2>3. CASE /\ call' = Idle /\ UNCHANGED object
             /\ lost' = [lost EXCEPT ![call.target] = attached[call.target]]
    BY <1>8, <2>1, <2>3 DEF CreateDisplayInstance, Idle, readerVars
  <2> QED BY <1>8, <2>2, <2>3 DEF CreateDisplayInstance
<1>9. CASE InsertDisplay
  <2>1. call.target \in Target /\ call.display \in Display
    BY <1>9 DEF InsertDisplay, CallAgrees
  <2>2. call' \in [op : Op, target : Target \cup {NULL}, display : Display \cup {NULL},
                   todo : SUBSET Display]
    BY <1>9 DEF InsertDisplay, Idle
  <2> QED BY <1>9, <2>1, <2>2 DEF InsertDisplay, Restarted, pageVars, readerVars
<1>10. CASE KillObsoleteDisplays
  BY <1>10 DEF KillObsoleteDisplays, registryVars, pageVars, readerVars, Idle, Registered
<1>11. ASSUME NEW d \in Display, SpareDisplay(d) PROVE TypeOK'
  BY <1>11 DEF SpareDisplay, registryVars, pageVars, readerVars, Idle
<1>12. ASSUME NEW d \in Display, RemoveDisplay(d) PROVE TypeOK'
  <2>1. call' \in [op : Op, target : Target \cup {NULL}, display : Display \cup {NULL},
                   todo : SUBSET Display]
    BY <1>12 DEF RemoveDisplay
  <2>2. displays' \in [Target -> Display \cup {NULL}]
    BY <1>12 DEF RemoveDisplay
  <2>3. useCount' \in [Display -> Nat \cup {NULL}] /\ idle' \in [Display -> 0..3]
    BY <1>12 DEF RemoveDisplay, Restarted
  <2> QED BY <1>12, <2>1, <2>2, <2>3 DEF RemoveDisplay, pageVars, readerVars
<1>13. CASE TearDownDisplayInstance
  BY <1>13 DEF TearDownDisplayInstance, registryVars, pageVars, readerVars
<1>14. CASE DeleteDisplay
  <2>1. call' \in [op : Op, target : Target \cup {NULL}, display : Display \cup {NULL},
                   todo : SUBSET Display]
    <3>1. CASE call.todo = {}
      BY <1>14, <3>1 DEF DeleteDisplay, Idle
    <3>2. CASE call.todo # {}
      <4>1. call' = [call EXCEPT !.op = "sweep", !.display = NULL]
        BY <1>14, <3>2 DEF DeleteDisplay
      <4> QED BY <4>1
    <3> QED BY <3>1, <3>2
  <2>2. manager' \in {"active", "orphaned", "closing", "gone"}
    BY <1>14 DEF DeleteDisplay
  <2> QED BY <1>14, <2>1, <2>2 DEF DeleteDisplay, pageVars, readerVars
<1>15. CASE SessionDestroyed
  BY <1>15 DEF SessionDestroyed, registryVars, pageVars, readerVars
<1>16. CASE DestroyManager
  <2>1. Registered \subseteq Display
    BY DEF Registered
  <2>2. call' \in [op : Op, target : Target \cup {NULL}, display : Display \cup {NULL},
                   todo : SUBSET Display]
    BY <1>16, <2>1 DEF DestroyManager, Idle
  <2>3. manager' \in {"active", "orphaned", "closing", "gone"}
    BY <1>16 DEF DestroyManager
  <2>4. UNCHANGED <<object, displays, useCount, idle, pageVars, readerVars>>
    BY <1>16 DEF DestroyManager
  <2> QED BY <2>2, <2>3, <2>4 DEF pageVars, readerVars
<1>17. ASSUME NEW r \in Reader, NEW t \in Target, HandlePatchRequest(r, t) PROVE TypeOK'
  BY <1>17 DEF HandlePatchRequest, registryVars, pageVars, readerVars, Finish, Restart
<1>18. ASSUME NEW r \in Reader, AcquireDisplay(r) PROVE TypeOK'
  <2>1. pointer[r] \in Target
    BY <1>18 DEF AcquireDisplay, PointersAgree
  <2>2. displays[pointer[r]] # NULL => displays[pointer[r]] \in Display
                                       /\ useCount[displays[pointer[r]]] \in Nat
    BY <2>1 DEF RegistryAgrees, Registered
  <2>3. useCount' \in [Display -> Nat \cup {NULL}] /\ idle' \in [Display -> 0..3]
    BY <1>18, <2>2 DEF AcquireDisplay, Restarted
  <2>4. /\ step' \in [Reader -> {"idle", "found", "acquired", "released"}]
        /\ pointer' \in [Reader -> Display \cup Target \cup {NULL}]
        /\ wait' \in [Reader -> 0..3]
    BY <1>18, <2>2 DEF AcquireDisplay, Finish, Restart
  <2> QED BY <1>18, <2>3, <2>4 DEF AcquireDisplay, pageVars
<1>19. ASSUME NEW r \in Reader, ReleaseDisplay(r) PROVE TypeOK'
  <2>1. pointer[r] \in Display /\ useCount[pointer[r]] \in Nat \ {0}
    BY <1>19, ManagerIsHere, HolderIsCounted DEF ReleaseDisplay
  <2>2. useCount' \in [Display -> Nat \cup {NULL}]
    BY <1>19, <2>1 DEF ReleaseDisplay
  <2> QED BY <1>19, <2>1, <2>2 DEF ReleaseDisplay, Restarted, Restart, pageVars
<1>20. ASSUME NEW r \in Reader, OutlivedByManager(r) PROVE TypeOK'
  BY <1>20 DEF OutlivedByManager, registryVars, pageVars, readerVars, Finish, Restart
<1>21. ASSUME NEW r \in Reader, TakePatch(r) PROVE TypeOK'
  BY <1>21 DEF TakePatch, registryVars, pageVars, readerVars, Finish, Restart
<1>22. CASE UNCHANGED vars
  BY <1>22 DEF vars
<1> QED
  BY <1>1, <1>2, <1>3, <1>4, <1>5, <1>6, <1>7, <1>8, <1>9, <1>10, <1>11, <1>12, <1>13, <1>14, <1>15, <1>16, <1>17, <1>18, <1>19, <1>20, <1>21, <1>22
  DEF Next, SessionThread, HandleMessage, MainThread, ConnectionThread, Page

\* The thread of the manager goes from one step of its call to the next.
LEMMA CallStep == Inv /\ [Next]_vars => CallAgrees'
<1> SUFFICES ASSUME Inv, [Next]_vars PROVE CallAgrees'
  OBVIOUS
<1> USE NullAssumption DEF Inv, TypeOK, CallAgrees, Registered, Op
<1>1. ASSUME NEW t \in Target, ReconnectDisplay(t) PROVE CallAgrees'
  BY <1>1 DEF ReconnectDisplay, registryVars, pageVars, readerVars
<1>2. ASSUME NEW t \in Target, Disconnect(t) PROVE CallAgrees'
  BY <1>2 DEF Disconnect, registryVars, pageVars, readerVars
<1>3. ASSUME NEW t \in Target, LoseMessage(t) PROVE CallAgrees'
  BY <1>3 DEF LoseMessage, registryVars, pageVars, readerVars, Received
<1>4. CASE Tick
  BY <1>4 DEF Tick, registryVars, pageVars, readerVars, NextTick
<1>5. ASSUME NEW t \in Target, UseDisplay(t) PROVE CallAgrees'
  BY <1>5 DEF UseDisplay, registryVars, pageVars, readerVars, Received, Restarted, MutexFree
<1>6. ASSUME NEW t \in Target, DropMessage(t) PROVE CallAgrees'
  BY <1>6 DEF DropMessage, registryVars, pageVars, readerVars, Received, MutexFree
<1>7. ASSUME NEW t \in Target, GetNewDisplay(t) PROVE CallAgrees'
  BY <1>7 DEF GetNewDisplay, registryVars, pageVars, readerVars, Received, MutexFree, Idle
<1>8. CASE CreateDisplayInstance
  <2>1. CASE call' = Idle
    BY <1>8, <2>1 DEF CreateDisplayInstance, Idle
  <2>2. ASSUME NEW d \in Display, object[d] = "free", Unreferenced(d),
               object' = [object EXCEPT ![d] = "alive"],
               call' = [call EXCEPT !.op = "created", !.display = d]
        PROVE  CallAgrees'
    <3>1. d \notin Registered
      BY <2>2 DEF RegistryAgrees
    <3>2. call'.op = "created" /\ call'.display = d /\ call'.target = call.target
      BY <2>2
    <3>3. call.op = "create" /\ object'[d] = "alive"
      BY <1>8, <2>2 DEF CreateDisplayInstance
    <3> QED BY <1>8, <2>2, <3>1, <3>2, <3>3 DEF CreateDisplayInstance, readerVars, Unreferenced
  <2> QED BY <1>8, <2>1, <2>2 DEF CreateDisplayInstance
<1>9. CASE InsertDisplay
  BY <1>9 DEF InsertDisplay, registryVars, pageVars, readerVars, Restarted, Idle
<1>10. CASE KillObsoleteDisplays
  BY <1>10 DEF KillObsoleteDisplays, registryVars, pageVars, readerVars, MutexFree, Idle
<1>11. ASSUME NEW d \in Display, SpareDisplay(d) PROVE CallAgrees'
  BY <1>11 DEF SpareDisplay, registryVars, pageVars, readerVars, Idle
<1>12. ASSUME NEW d \in Display, RemoveDisplay(d) PROVE CallAgrees'
  BY <1>12 DEF RemoveDisplay, registryVars, pageVars, readerVars, Restarted, MaybeObsolete
<1>13. CASE TearDownDisplayInstance
  BY <1>13 DEF TearDownDisplayInstance, registryVars, pageVars, readerVars
<1>14. CASE DeleteDisplay
  <2>1. CASE call.todo = {}
    BY <1>14, <2>1 DEF DeleteDisplay, Idle
  <2>2. CASE call.todo # {}
    <3>1. call'.op = "sweep" /\ call'.todo = call.todo /\ UNCHANGED <<manager, useCount>>
      BY <1>14, <2>2 DEF DeleteDisplay
    <3> QED BY <1>14, <3>1 DEF DeleteDisplay
  <2> QED BY <2>1, <2>2
<1>15. CASE SessionDestroyed
  BY <1>15 DEF SessionDestroyed, registryVars, pageVars, readerVars, MutexFree
<1>16. CASE DestroyManager
  <2>1. CASE Registered = {}
    BY <1>16, <2>1 DEF DestroyManager, MutexFree
  <2>2. CASE Registered # {}
    <3>1. call'.op = "sweep" /\ call'.todo = Registered /\ useCount' = useCount
      BY <1>16, <2>2 DEF DestroyManager, Idle
    <3> QED BY <1>16, <2>2, <3>1 DEF DestroyManager
  <2> QED BY <2>1, <2>2
<1>17. ASSUME NEW r \in Reader, NEW t \in Target, HandlePatchRequest(r, t) PROVE CallAgrees'
  BY <1>17, TargetAssumption DEF HandlePatchRequest, registryVars
<1>18. ASSUME NEW r \in Reader, AcquireDisplay(r) PROVE CallAgrees'
  BY <1>18 DEF AcquireDisplay, registryVars, pageVars, readerVars, Restarted, Finish, Restart, MutexFree
<1>19. ASSUME NEW r \in Reader, ReleaseDisplay(r) PROVE CallAgrees'
  BY <1>19 DEF ReleaseDisplay, registryVars, pageVars, readerVars, Restarted, Finish, Restart, MutexFree
<1>20. ASSUME NEW r \in Reader, OutlivedByManager(r) PROVE CallAgrees'
  BY <1>20 DEF OutlivedByManager, registryVars, pageVars, readerVars, Finish, Restart
<1>21. ASSUME NEW r \in Reader, TakePatch(r) PROVE CallAgrees'
  BY <1>21 DEF TakePatch, registryVars, pageVars, readerVars, Finish, Restart
<1>22. CASE UNCHANGED vars
  BY <1>22 DEF vars
<1> QED
  BY <1>1, <1>2, <1>3, <1>4, <1>5, <1>6, <1>7, <1>8, <1>9, <1>10, <1>11,
     <1>12, <1>13, <1>14, <1>15, <1>16, <1>17, <1>18, <1>19, <1>20, <1>21, <1>22
  DEF Next, SessionThread, HandleMessage, MainThread, ConnectionThread, Page

\* A display is not taken from a request that holds it, but by the destructor.
LEMMA PointerStep == Inv /\ [Next]_vars => PointersAgree'
<1> SUFFICES ASSUME Inv, [Next]_vars PROVE PointersAgree'
  OBVIOUS
<1> USE NullAssumption DEF Inv, TypeOK, PointersAgree, CallAgrees, Registered
<1>1. ASSUME NEW t \in Target, ReconnectDisplay(t) PROVE PointersAgree'
  BY <1>1 DEF ReconnectDisplay, registryVars, pageVars, readerVars
<1>2. ASSUME NEW t \in Target, Disconnect(t) PROVE PointersAgree'
  BY <1>2 DEF Disconnect, registryVars, pageVars, readerVars
<1>3. ASSUME NEW t \in Target, LoseMessage(t) PROVE PointersAgree'
  BY <1>3 DEF LoseMessage, registryVars, pageVars, readerVars, Received
<1>4. CASE Tick
  BY <1>4 DEF Tick, registryVars, pageVars, readerVars, NextTick
<1>5. ASSUME NEW t \in Target, UseDisplay(t) PROVE PointersAgree'
  BY <1>5 DEF UseDisplay, registryVars, pageVars, readerVars, Received, Restarted, MutexFree
<1>6. ASSUME NEW t \in Target, DropMessage(t) PROVE PointersAgree'
  BY <1>6 DEF DropMessage, registryVars, pageVars, readerVars, Received, MutexFree
<1>7. ASSUME NEW t \in Target, GetNewDisplay(t) PROVE PointersAgree'
  BY <1>7 DEF GetNewDisplay, registryVars, pageVars, readerVars, Received, MutexFree, Idle
<1>8. CASE CreateDisplayInstance
  BY <1>8 DEF CreateDisplayInstance, registryVars, pageVars, readerVars, Idle, Unreferenced
<1>9. CASE InsertDisplay
  BY <1>9 DEF InsertDisplay, registryVars, pageVars, readerVars, Restarted, Idle
<1>10. CASE KillObsoleteDisplays
  BY <1>10 DEF KillObsoleteDisplays, registryVars, pageVars, readerVars, MutexFree, Idle
<1>11. ASSUME NEW d \in Display, SpareDisplay(d) PROVE PointersAgree'
  BY <1>11 DEF SpareDisplay, registryVars, pageVars, readerVars, Idle
<1>12. ASSUME NEW d \in Display, RemoveDisplay(d) PROVE PointersAgree'
  <2>1. ASSUME NEW r \in Reader, step[r] = "acquired", manager \in {"active", "orphaned"}
        PROVE  pointer[r] # d
    BY <1>12, <2>1, HolderIsCounted DEF RemoveDisplay, MaybeObsolete
  <2> QED BY <1>12, <2>1 DEF RemoveDisplay, readerVars
<1>13. CASE TearDownDisplayInstance
  BY <1>13 DEF TearDownDisplayInstance, registryVars, pageVars, readerVars
<1>14. CASE DeleteDisplay
  BY <1>14 DEF DeleteDisplay, registryVars, pageVars, readerVars, Idle
<1>15. CASE SessionDestroyed
  BY <1>15 DEF SessionDestroyed, registryVars, pageVars, readerVars, MutexFree
<1>16. CASE DestroyManager
  BY <1>16 DEF DestroyManager, registryVars, pageVars, readerVars, MutexFree, Idle
<1>17. ASSUME NEW r \in Reader, NEW t \in Target, HandlePatchRequest(r, t) PROVE PointersAgree'
  BY <1>17 DEF HandlePatchRequest, registryVars, pageVars, readerVars, Finish, Restart
<1>18. ASSUME NEW r \in Reader, AcquireDisplay(r) PROVE PointersAgree'
  <2>1. pointer[r] \in Target
    BY <1>18 DEF AcquireDisplay
  <2>2. displays[pointer[r]] # NULL => /\ displays[pointer[r]] \in Display
                                       /\ useCount[displays[pointer[r]]] \in Nat
    BY <2>1 DEF RegistryAgrees
  <2> QED BY <1>18, <2>2 DEF AcquireDisplay, Finish
<1>19. ASSUME NEW r \in Reader, ReleaseDisplay(r) PROVE PointersAgree'
  <2>1. pointer[r] \in Display /\ useCount[pointer[r]] \in Nat \ {0}
    BY <1>19, ManagerIsHere, HolderIsCounted DEF ReleaseDisplay
  <2> QED BY <1>19, <2>1 DEF ReleaseDisplay
<1>20. ASSUME NEW r \in Reader, OutlivedByManager(r) PROVE PointersAgree'
  BY <1>20 DEF OutlivedByManager, registryVars, pageVars, readerVars, Finish, Restart
<1>21. ASSUME NEW r \in Reader, TakePatch(r) PROVE PointersAgree'
  BY <1>21 DEF TakePatch, registryVars, pageVars, readerVars, Finish, Restart
<1>22. CASE UNCHANGED vars
  BY <1>22 DEF vars
<1> QED
  BY <1>1, <1>2, <1>3, <1>4, <1>5, <1>6, <1>7, <1>8, <1>9, <1>10, <1>11,
     <1>12, <1>13, <1>14, <1>15, <1>16, <1>17, <1>18, <1>19, <1>20, <1>21, <1>22
  DEF Next, SessionThread, HandleMessage, MainThread, ConnectionThread, Page

\* A request that has let go of a display is ahead of its clock.
LEMMA PatienceStep == Inv /\ [Next]_vars => PatienceIsBounded'
<1> SUFFICES ASSUME Inv, [Next]_vars PROVE PatienceIsBounded'
  OBVIOUS
<1> USE NullAssumption DEF Inv, TypeOK, PatienceIsBounded, PointersAgree, CallAgrees, Registered
<1>1. ASSUME NEW t \in Target, ReconnectDisplay(t) PROVE PatienceIsBounded'
  BY <1>1 DEF ReconnectDisplay, registryVars, pageVars, readerVars
<1>2. ASSUME NEW t \in Target, Disconnect(t) PROVE PatienceIsBounded'
  BY <1>2 DEF Disconnect, registryVars, pageVars, readerVars
<1>3. ASSUME NEW t \in Target, LoseMessage(t) PROVE PatienceIsBounded'
  BY <1>3 DEF LoseMessage, registryVars, pageVars, readerVars, Received
<1>4. CASE Tick
  BY <1>4 DEF Tick, registryVars, pageVars, readerVars, NextTick
<1>5. ASSUME NEW t \in Target, UseDisplay(t) PROVE PatienceIsBounded'
  BY <1>5 DEF UseDisplay, registryVars, pageVars, readerVars, Received, Restarted, MutexFree
<1>6. ASSUME NEW t \in Target, DropMessage(t) PROVE PatienceIsBounded'
  BY <1>6 DEF DropMessage, registryVars, pageVars, readerVars, Received, MutexFree
<1>7. ASSUME NEW t \in Target, GetNewDisplay(t) PROVE PatienceIsBounded'
  BY <1>7 DEF GetNewDisplay, registryVars, pageVars, readerVars, Received, MutexFree, Idle
<1>8. CASE CreateDisplayInstance
  BY <1>8 DEF CreateDisplayInstance, registryVars, pageVars, readerVars, Idle, Unreferenced
<1>9. CASE InsertDisplay
  BY <1>9 DEF InsertDisplay, registryVars, pageVars, readerVars, Restarted, Idle
<1>10. CASE KillObsoleteDisplays
  BY <1>10 DEF KillObsoleteDisplays, registryVars, pageVars, readerVars, MutexFree, Idle
<1>11. ASSUME NEW d \in Display, SpareDisplay(d) PROVE PatienceIsBounded'
  BY <1>11 DEF SpareDisplay, registryVars, pageVars, readerVars, Idle
<1>12. ASSUME NEW d \in Display, RemoveDisplay(d) PROVE PatienceIsBounded'
  BY <1>12 DEF RemoveDisplay, registryVars, pageVars, readerVars, Restarted, MaybeObsolete
<1>13. CASE TearDownDisplayInstance
  BY <1>13 DEF TearDownDisplayInstance, registryVars, pageVars, readerVars
<1>14. CASE DeleteDisplay
  BY <1>14 DEF DeleteDisplay, registryVars, pageVars, readerVars, Idle
<1>15. CASE SessionDestroyed
  BY <1>15 DEF SessionDestroyed, registryVars, pageVars, readerVars, MutexFree
<1>16. CASE DestroyManager
  BY <1>16 DEF DestroyManager, registryVars, pageVars, readerVars, MutexFree, Idle
<1>17. ASSUME NEW r \in Reader, NEW t \in Target, HandlePatchRequest(r, t) PROVE PatienceIsBounded'
  BY <1>17 DEF HandlePatchRequest, registryVars, pageVars, readerVars, Finish, Restart
<1>18. ASSUME NEW r \in Reader, AcquireDisplay(r) PROVE PatienceIsBounded'
  BY <1>18 DEF AcquireDisplay, registryVars, pageVars, readerVars, Restarted, Finish, Restart, MutexFree
<1>19. ASSUME NEW r \in Reader, ReleaseDisplay(r) PROVE PatienceIsBounded'
  <2>1. pointer[r] \in Display /\ useCount[pointer[r]] \in Nat \ {0}
    BY <1>19, ManagerIsHere, HolderIsCounted DEF ReleaseDisplay
  <2>2. \A d \in Registered : useCount'[d] # NULL
    BY <1>19, <2>1 DEF ReleaseDisplay
  <2>3. idle'[pointer[r]] = 0 /\ wait'[r] = 0 /\ pointer[r] \in Registered
    BY <1>19, <2>1 DEF ReleaseDisplay, Restarted, Restart
  <2>4. \A q \in Reader \ {r} : wait'[q] = wait[q] /\ step'[q] = step[q]
    BY <1>19 DEF ReleaseDisplay, Restart
  <2>5. \A d \in Display : idle'[d] \in 0..3 /\ idle'[d] <= idle[d]
    BY <1>19 DEF ReleaseDisplay, Restarted
  <2>6. ASSUME NEW q \in Reader \ {r}, step'[q] = "released",
               manager' \in {"active", "orphaned"}
        PROVE  \/ pointer'[q] \in Registered' /\ idle'[pointer'[q]] <= wait'[q]
               \/ wait'[q] >= 2
    <3>1. pointer'[q] = pointer[q] /\ pointer[q] \in Display /\ manager' = manager
      BY <1>19, <2>4, <2>6 DEF ReleaseDisplay
    <3>2. \/ pointer[q] \in Registered /\ idle[pointer[q]] <= wait[q]
          \/ wait[q] >= 2
      BY <2>4, <2>6, <3>1
    <3> QED BY <2>2, <2>4, <2>5, <3>1, <3>2
  <2>7. pointer'[r] \in Registered' /\ idle'[pointer'[r]] <= wait'[r]
    BY <1>19, <2>1, <2>2, <2>3 DEF ReleaseDisplay
  <2> QED BY <2>6, <2>7
<1>20. ASSUME NEW r \in Reader, OutlivedByManager(r) PROVE PatienceIsBounded'
  BY <1>20 DEF OutlivedByManager, registryVars, pageVars, readerVars, Finish, Restart
<1>21. ASSUME NEW r \in Reader, TakePatch(r) PROVE PatienceIsBounded'
  BY <1>21 DEF TakePatch, registryVars, pageVars, readerVars, Finish, Restart
<1>22. CASE UNCHANGED vars
  BY <1>22 DEF vars
<1> QED
  BY <1>1, <1>2, <1>3, <1>4, <1>5, <1>6, <1>7, <1>8, <1>9, <1>10, <1>11,
     <1>12, <1>13, <1>14, <1>15, <1>16, <1>17, <1>18, <1>19, <1>20, <1>21, <1>22
  DEF Next, SessionThread, HandleMessage, MainThread, ConnectionThread, Page

\* A page is heard once per period, and what others do restarts the clock too.
LEMMA PageStep == Inv /\ [Next]_vars => PageIsHeard'
<1> SUFFICES ASSUME Inv, [Next]_vars PROVE PageIsHeard'
  OBVIOUS
<1> USE NullAssumption DEF Inv, TypeOK, PageIsHeard, CallAgrees, RegistryAgrees, Registered
<1>1. ASSUME NEW t \in Target, ReconnectDisplay(t) PROVE PageIsHeard'
  BY <1>1 DEF ReconnectDisplay, registryVars, pageVars, readerVars
<1>2. ASSUME NEW t \in Target, Disconnect(t) PROVE PageIsHeard'
  BY <1>2 DEF Disconnect, registryVars, pageVars, readerVars
<1>3. ASSUME NEW t \in Target, LoseMessage(t) PROVE PageIsHeard'
  BY <1>3 DEF LoseMessage, registryVars, pageVars, readerVars, Received
<1>4. CASE Tick
  BY <1>4 DEF Tick, registryVars, pageVars, readerVars, NextTick
<1>5. ASSUME NEW t \in Target, UseDisplay(t) PROVE PageIsHeard'
  BY <1>5 DEF UseDisplay, registryVars, pageVars, readerVars, Received, Restarted, MutexFree
<1>6. ASSUME NEW t \in Target, DropMessage(t) PROVE PageIsHeard'
  BY <1>6 DEF DropMessage, registryVars, pageVars, readerVars, Received, MutexFree
<1>7. ASSUME NEW t \in Target, GetNewDisplay(t) PROVE PageIsHeard'
  BY <1>7 DEF GetNewDisplay, registryVars, pageVars, readerVars, Received, MutexFree, Idle
<1>8. CASE CreateDisplayInstance
  <2>1. CASE call' = Idle /\ lost' = [lost EXCEPT ![call.target] = attached[call.target]]
    <3>1. \A t \in Target : t # call.target => lost'[t] = lost[t]
      BY <2>1
    <3>2. call.op = "create" /\ call.target \in Target
      BY <1>8 DEF CreateDisplayInstance
    <3>3. lost'[call.target] = attached[call.target]
      BY <2>1, <3>2
    <3>4. UNCHANGED <<attached, inbox, manager, displays, idle>>
      BY <1>8 DEF CreateDisplayInstance
    <3>5. ASSUME NEW t \in Target, attached[t], ~lost'[t], inbox[t] # "newDisplay",
                 manager = "active"
          PROVE  displays[t] # NULL /\ idle[displays[t]] <= IF inbox[t] = "message" THEN 1 ELSE 0
      <4>1. t # call.target
        BY <3>3, <3>5
      <4> QED BY <3>1, <3>2, <3>5, <4>1
    <3> QED BY <3>4, <3>5
  <2>2. ASSUME NEW d \in Display, call' = [call EXCEPT !.op = "created", !.display = d],
               UNCHANGED lost
        PROVE  PageIsHeard'
    BY <1>8, <2>2 DEF CreateDisplayInstance
  <2> QED BY <1>8, <2>1, <2>2 DEF CreateDisplayInstance
<1>9. CASE InsertDisplay
  BY <1>9 DEF InsertDisplay, registryVars, pageVars, readerVars, Restarted, Idle
<1>10. CASE KillObsoleteDisplays
  BY <1>10 DEF KillObsoleteDisplays, registryVars, pageVars, readerVars, MutexFree, Idle
<1>11. ASSUME NEW d \in Display, SpareDisplay(d) PROVE PageIsHeard'
  BY <1>11 DEF SpareDisplay, registryVars, pageVars, readerVars, Idle
<1>12. ASSUME NEW d \in Display, RemoveDisplay(d) PROVE PageIsHeard'
  BY <1>12 DEF RemoveDisplay, registryVars, pageVars, readerVars, Restarted, MaybeObsolete
<1>13. CASE TearDownDisplayInstance
  BY <1>13 DEF TearDownDisplayInstance, registryVars, pageVars, readerVars
<1>14. CASE DeleteDisplay
  BY <1>14 DEF DeleteDisplay, registryVars, pageVars, readerVars, Idle
<1>15. CASE SessionDestroyed
  BY <1>15 DEF SessionDestroyed, registryVars, pageVars, readerVars, MutexFree
<1>16. CASE DestroyManager
  BY <1>16 DEF DestroyManager, registryVars, pageVars, readerVars, MutexFree, Idle
<1>17. ASSUME NEW r \in Reader, NEW t \in Target, HandlePatchRequest(r, t) PROVE PageIsHeard'
  BY <1>17 DEF HandlePatchRequest, registryVars, pageVars, readerVars, Finish, Restart
<1>18. ASSUME NEW r \in Reader, AcquireDisplay(r) PROVE PageIsHeard'
  BY <1>18 DEF AcquireDisplay, registryVars, pageVars, readerVars, Restarted, Finish, Restart, MutexFree
<1>19. ASSUME NEW r \in Reader, ReleaseDisplay(r) PROVE PageIsHeard'
  BY <1>19 DEF ReleaseDisplay, registryVars, pageVars, readerVars, Restarted, Finish, Restart, MutexFree
<1>20. ASSUME NEW r \in Reader, OutlivedByManager(r) PROVE PageIsHeard'
  BY <1>20 DEF OutlivedByManager, registryVars, pageVars, readerVars, Finish, Restart
<1>21. ASSUME NEW r \in Reader, TakePatch(r) PROVE PageIsHeard'
  BY <1>21 DEF TakePatch, registryVars, pageVars, readerVars, Finish, Restart
<1>22. CASE UNCHANGED vars
  BY <1>22 DEF vars
<1> QED
  BY <1>1, <1>2, <1>3, <1>4, <1>5, <1>6, <1>7, <1>8, <1>9, <1>10, <1>11,
     <1>12, <1>13, <1>14, <1>15, <1>16, <1>17, <1>18, <1>19, <1>20, <1>21, <1>22
  DEF Next, SessionThread, HandleMessage, MainThread, ConnectionThread, Page

\* A new use count, that of the new holders, for one registered display.
LEMMA UsesAgree ==
    ASSUME RegistryAgrees, NULL \notin Nat, UNCHANGED <<object, displays>>,
           NEW e \in Display, e \in Registered,
           useCount'[e] \in Nat, useCount'[e] = Cardinality(Holders(e)'),
           \A d \in Display \ {e} : useCount'[d] = useCount[d],
           \A d \in Display \ {e} : Holders(d)' = Holders(d)
    PROVE  RegistryAgrees'
<1>1. Registered' = Registered
  BY DEF Registered
<1>2. \A d \in Registered : useCount'[d] = Cardinality(Holders(d)')
  <2> TAKE d \in Registered
  <2>1. d \in Display /\ useCount[d] = Cardinality(Holders(d))
    BY DEF RegistryAgrees, Registered
  <2> QED BY <2>1
<1> QED BY <1>1, <1>2 DEF RegistryAgrees

\* The tables agree after every step.  The steps that touch neither them nor the
\* holders of a display come first.
LEMMA RegistryStep == Inv /\ [Next]_vars => RegistryAgrees'
<1> SUFFICES ASSUME Inv, [Next]_vars PROVE RegistryAgrees'
  OBVIOUS
<1> USE NullAssumption DEF Inv
<1>1. ASSUME UNCHANGED <<object, displays, useCount>>,
             \A d \in Registered : Holders(d)' = Holders(d)
      PROVE  RegistryAgrees'
  BY <1>1 DEF RegistryAgrees, Registered
<1>2. ASSUME UNCHANGED <<object, displays, useCount, step, pointer>>
      PROVE  RegistryAgrees'
  BY <1>1, <1>2 DEF Holders
<1>3. ASSUME NEW t \in Target,
             Page(t) \/ HandleMessage(t)
      PROVE  RegistryAgrees'
  BY <1>2, <1>3
     DEF Page, ReconnectDisplay, Disconnect, LoseMessage, HandleMessage, UseDisplay, DropMessage,
         GetNewDisplay, registryVars, readerVars
<1>4. CASE Tick \/ KillObsoleteDisplays \/ SessionDestroyed \/ DestroyManager
  BY <1>2, <1>4
     DEF Tick, KillObsoleteDisplays, SessionDestroyed, DestroyManager, readerVars
<1>5. ASSUME NEW d \in Display, SpareDisplay(d) PROVE RegistryAgrees'
  BY <1>2, <1>5 DEF SpareDisplay, readerVars
<1>6. CASE CreateDisplayInstance
  <2>1. \A d \in Display : Holders(d)' = Holders(d)
    BY <1>6 DEF CreateDisplayInstance, readerVars, Holders
  <2>2. UNCHANGED <<displays, useCount>>
    BY <1>6 DEF CreateDisplayInstance
  <2>3. \A d \in Display : object[d] = "alive" => object'[d] = "alive"
    BY <1>6 DEF CreateDisplayInstance, TypeOK
  <2> QED BY <2>1, <2>2, <2>3 DEF RegistryAgrees, Registered
<1>7. CASE InsertDisplay
  <2> DEFINE e == call.display
             t == call.target
  <2>1. /\ e \in Display /\ t \in Target /\ object[e] = "alive" /\ e \notin Registered
        /\ displays[t] = NULL
    BY <1>7 DEF InsertDisplay, CallAgrees
  <2>2. \A d \in Display : Holders(d)' = Holders(d)
    BY <1>7 DEF InsertDisplay, readerVars, Holders
  <2>3. Holders(e) = {}
    BY <1>7 DEF InsertDisplay, CallAgrees, Holders
  <2>4. \A u \in Target : displays[u] # e
    BY <2>1 DEF RegistryAgrees
  <2>5. /\ useCount' = [useCount EXCEPT ![e] = 0]
        /\ displays' = [displays EXCEPT ![t] = e] /\ object' = object
    BY <1>7 DEF InsertDisplay
  <2> HIDE DEF e, t
  <2>6. Registered' = Registered \cup {e}
    BY <2>1, <2>5 DEF Registered, TypeOK
  <2>7. Cardinality({}) = 0
    BY FS_EmptySet
  <2>8. ASSUME NEW d \in Registered'
        PROVE  /\ object'[d] = "alive" /\ useCount'[d] = Cardinality(Holders(d)')
               /\ \E u \in Target : displays'[u] = d
    <3>1. CASE d = e
      BY <2>1, <2>2, <2>3, <2>5, <2>7, <3>1 DEF TypeOK
    <3>2. CASE d # e
      <4>1. d \in Registered
        BY <2>6, <3>2
      <4>2. PICK u \in Target : displays[u] = d
        BY <4>1 DEF RegistryAgrees
      <4>3. u # t /\ displays'[u] = d
        BY <2>1, <2>5, <4>1, <4>2 DEF TypeOK, Registered
      <4>4. d \in Display /\ object[d] = "alive" /\ useCount[d] = Cardinality(Holders(d))
        BY <4>1 DEF RegistryAgrees, Registered
      <4>5. useCount'[d] = useCount[d]
        BY <2>5, <3>2, <4>4 DEF TypeOK
      <4>6. Cardinality(Holders(d)') = Cardinality(Holders(d))
        BY <2>2, <4>4
      <4> QED BY <2>5, <4>3, <4>4, <4>5, <4>6
    <3> QED BY <3>1, <3>2
  <2>9. \A u \in Target : displays'[u] # NULL => displays'[u] \in Registered'
    BY <2>1, <2>5, <2>6 DEF RegistryAgrees, TypeOK
  <2>10. \A u, v \in Target : displays'[u] = displays'[v] /\ displays'[u] # NULL => u = v
    BY <2>1, <2>4, <2>5 DEF RegistryAgrees, TypeOK
  <2> QED BY <2>8, <2>9, <2>10 DEF RegistryAgrees
<1>8. ASSUME NEW d \in Display, RemoveDisplay(d) PROVE RegistryAgrees'
  <2>1. \A e \in Display : Holders(e)' = Holders(e)
    BY <1>8 DEF RemoveDisplay, readerVars, Holders
  <2>2. /\ useCount' = [useCount EXCEPT ![d] = NULL] /\ object' = object
        /\ displays' = [t \in Target |-> IF displays[t] = d THEN NULL ELSE displays[t]]
    BY <1>8 DEF RemoveDisplay
  <2>3. Registered' = Registered \ {d}
    BY <2>2 DEF Registered, TypeOK
  <2>4. ASSUME NEW e \in Registered'
        PROVE  /\ object'[e] = "alive" /\ useCount'[e] = Cardinality(Holders(e)')
               /\ \E t \in Target : displays'[t] = e
    <3>1. e \in Registered /\ e # d /\ e \in Display
      BY <2>3 DEF Registered
    <3>2. PICK t \in Target : displays[t] = e
      BY <3>1 DEF RegistryAgrees
    <3>3. displays'[t] = e
      BY <2>2, <3>1, <3>2
    <3>4. object[e] = "alive" /\ useCount[e] = Cardinality(Holders(e))
      BY <3>1 DEF RegistryAgrees
    <3>5. useCount'[e] = useCount[e] /\ object'[e] = object[e]
      BY <2>2, <3>1 DEF TypeOK
    <3>6. Cardinality(Holders(e)') = Cardinality(Holders(e))
      BY <2>1, <3>1
    <3> QED BY <3>2, <3>3, <3>4, <3>5, <3>6
  <2>5. \A t \in Target : displays'[t] # NULL => displays'[t] \in Registered'
    BY <2>2, <2>3 DEF RegistryAgrees
  <2>6. \A t, u \in Target : displays'[t] = displays'[u] /\ displays'[t] # NULL => t = u
    BY <2>2 DEF RegistryAgrees
  <2> QED BY <2>4, <2>5, <2>6 DEF RegistryAgrees
<1>9. CASE TearDownDisplayInstance \/ DeleteDisplay
  <2>1. call.display \in Display /\ call.display \notin Registered
    BY <1>9 DEF TearDownDisplayInstance, DeleteDisplay, CallAgrees
  <2>2. \A d \in Display : Holders(d)' = Holders(d)
    BY <1>9 DEF TearDownDisplayInstance, DeleteDisplay, readerVars, Holders
  <2>3. /\ UNCHANGED <<displays, useCount>>
        /\ \A d \in Display \ {call.display} : object'[d] = object[d]
    BY <1>9 DEF TearDownDisplayInstance, DeleteDisplay, TypeOK
  <2> QED BY <2>1, <2>2, <2>3 DEF RegistryAgrees, Registered
<1>10. ASSUME NEW r \in Reader, NEW t \in Target, HandlePatchRequest(r, t)
       PROVE  RegistryAgrees'
  <2>1. \A d \in Display : Holders(d)' = Holders(d)
    BY <1>10 DEF HandlePatchRequest, Holders, TypeOK
  <2> QED BY <1>1, <1>10, <2>1 DEF HandlePatchRequest, registryVars, Registered
<1>11. ASSUME NEW r \in Reader, TakePatch(r) PROVE RegistryAgrees'
  <2>1. \A d \in Display : Holders(d)' = Holders(d)
    BY <1>11 DEF TakePatch, Finish, Holders, TypeOK
  <2> QED BY <1>1, <1>11, <2>1 DEF TakePatch, registryVars, Registered
<1>12. ASSUME NEW r \in Reader, OutlivedByManager(r) PROVE RegistryAgrees'
  <2>1. Registered = {}
    BY <1>12 DEF OutlivedByManager, CallAgrees
  <2> QED BY <1>1, <1>12, <2>1 DEF OutlivedByManager, registryVars
<1>13. ASSUME NEW r \in Reader, AcquireDisplay(r) PROVE RegistryAgrees'
  <2>1. UNCHANGED <<object, displays>> /\ pointer[r] \in Target /\ step[r] = "found"
    BY <1>13 DEF AcquireDisplay, PointersAgree
  <2>2. CASE displays[pointer[r]] = NULL
    <3>1. \A d \in Display : Holders(d)' = Holders(d)
      BY <1>13, <2>1, <2>2 DEF AcquireDisplay, Finish, Holders, TypeOK
    <3> QED BY <1>1, <1>13, <2>2, <3>1 DEF AcquireDisplay, Registered
  <2>3. CASE displays[pointer[r]] # NULL
    <3>1. PICK e \in Display : e = displays[pointer[r]]
      BY <2>1, <2>3 DEF TypeOK
    <3>2. e \in Registered
      BY <2>1, <2>3, <3>1 DEF RegistryAgrees
    <3>3. /\ useCount' = [useCount EXCEPT ![e] = @ + 1]
          /\ step' = [step EXCEPT ![r] = "acquired"] /\ pointer' = [pointer EXCEPT ![r] = e]
      BY <1>13, <2>3, <3>1 DEF AcquireDisplay
    <3>4. Holders(e)' = Holders(e) \cup {r} /\ r \notin Holders(e)
      BY <2>1, <3>3 DEF Holders, TypeOK
    <3>5. pointer[r] \notin Display
      BY <2>1, TargetAssumption
    <3>6. ASSUME NEW d \in Display \ {e} PROVE Holders(d)' = Holders(d)
      BY <3>3, <3>5, <3>6 DEF Holders, TypeOK
    <3>7. Cardinality(Holders(e)') = Cardinality(Holders(e)) + 1
      <4>1. IsFiniteSet(Holders(e))
        BY ReaderAssumption, FS_Subset DEF Holders
      <4> QED BY <3>4, <4>1, FS_AddElement
    <3>8. useCount[e] \in Nat /\ useCount[e] = Cardinality(Holders(e))
      BY <3>2 DEF RegistryAgrees, Registered, TypeOK
    <3>9. useCount'[e] = Cardinality(Holders(e)')
      BY <3>3, <3>7, <3>8 DEF TypeOK
    <3>10. \A d \in Display \ {e} : useCount'[d] = useCount[d]
      BY <3>3 DEF TypeOK
    <3>11. useCount'[e] \in Nat
      BY <3>3, <3>8 DEF TypeOK
    <3> QED BY <2>1, <3>2, <3>6, <3>9, <3>10, <3>11, UsesAgree
  <2> QED BY <2>2, <2>3
<1>14. ASSUME NEW r \in Reader, ReleaseDisplay(r) PROVE RegistryAgrees'
  <2>1. PICK e \in Display : e = pointer[r]
    BY <1>14, ManagerIsHere, HolderIsCounted DEF ReleaseDisplay
  <2>2. /\ useCount[e] \in Nat \ {0} /\ useCount[e] = Cardinality(Holders(e))
        /\ r \in Holders(e) /\ e \in Registered
    BY <1>14, <2>1, ManagerIsHere, HolderIsCounted DEF ReleaseDisplay, Holders, Registered
  <2>3. /\ useCount' = [useCount EXCEPT ![e] = @ - 1]
        /\ step' = [step EXCEPT ![r] = "released"] /\ UNCHANGED <<object, displays, pointer>>
    BY <1>14, <2>1 DEF ReleaseDisplay
  <2>4. Holders(e)' = Holders(e) \ {r}
    BY <2>1, <2>3 DEF Holders, TypeOK
  <2>5. ASSUME NEW d \in Display \ {e} PROVE Holders(d)' = Holders(d)
    BY <2>1, <2>3, <2>5 DEF Holders, TypeOK
  <2>6. Cardinality(Holders(e)') = Cardinality(Holders(e)) - 1
    <3>1. IsFiniteSet(Holders(e))
      BY ReaderAssumption, FS_Subset DEF Holders
    <3> QED BY <2>2, <2>4, <3>1, FS_RemoveElement
  <2>7. useCount'[e] = Cardinality(Holders(e)')
    BY <2>2, <2>3, <2>6 DEF TypeOK
  <2>8. \A d \in Display \ {e} : useCount'[d] = useCount[d]
    BY <2>3 DEF TypeOK
  <2>9. useCount'[e] \in Nat
    BY <2>2, <2>3 DEF TypeOK
  <2> QED BY <2>2, <2>3, <2>5, <2>7, <2>8, <2>9, UsesAgree
<1>15. CASE UNCHANGED vars
  BY <1>2, <1>15 DEF vars
<1> QED
  BY <1>3, <1>4, <1>5, <1>6, <1>7, <1>8, <1>9, <1>10, <1>11, <1>12, <1>13, <1>14, <1>15
  DEF Next, SessionThread, MainThread, ConnectionThread

\* The inductive invariant holds throughout.
LEMMA InvHolds == Spec => []Inv
<1>1. Init => Inv
  BY InitInv
<1>2. Inv /\ [Next]_vars => Inv'
  BY TypeStep, CallStep, PointerStep, RegistryStep, PatienceStep, PageStep DEF Inv
<1> QED BY <1>1, <1>2, PTL DEF Spec

-----------------------------------------------------------------------------
(* The state of the manager is well typed: the use count of a display, an   *)
(* int that displayResources_ keeps, never falls below zero.                *)
THEOREM TypeCorrect == Spec => []TypeOK
<1>1. Inv => TypeOK
  BY DEF Inv
<1> QED BY <1>1, InvHolds, PTL

(* displays_ and displayResources_ agree, and the use count of a display is *)
(* the number of its holders, however patch requests, messages, sweeps and  *)
(* the destruction of the manager interleave.                               *)
THEOREM RegistryCorrect == Spec => []RegistryAgrees
<1>1. Inv => RegistryAgrees
  BY DEF Inv
<1> QED BY <1>1, InvHolds, PTL

(* The pointer a patch request takes out of acquireDisplay is good for two  *)
(* periods after releaseDisplay, which it is used after.                    *)
THEOREM PatienceCorrect == Spec => []PatienceProtectsPatch
<1>1. Inv => PatienceProtectsPatch
  BY DEF Inv, TypeOK, PatienceIsBounded, PointersAgree, RegistryAgrees, Registered,
         PatienceProtectsPatch
<1> QED BY <1>1, InvHolds, PTL

(* killObsoleteDisplays takes no display from a page that stays connected,  *)
(* sends its keepAlive() and loses no message.                              *)
THEOREM KeepAliveCorrect == Spec => []KeepAliveProtectsDisplay
<1>1. Inv => KeepAliveProtectsDisplay
  BY DEF Inv, PageIsHeard, KeepAliveProtectsDisplay
<1> QED BY <1>1, InvHolds, PTL
=============================================================================
