----------------------- MODULE ServiceLauncherProofs -----------------------
(* Safety of ServiceLauncher for any number of containers and of changes    *)
(* to the files.                                                            *)
EXTENDS ServiceLauncher, TLAPS

\* A process without the watcher that nobody asked to stop: no callback stops
\* its services, and the exit code is set wherever the loop gives up.
Undisturbed ==
  /\ pending = {} /\ ~closed
  /\ pc \in {"set", "waiters", "failed"} => restart
  /\ pc \in {"import", "run", "again"} => ~restart
  /\ pc \in {"check", "ended"} => restart \/ exitCode \/ disk.kind = "package"
  /\ pc = "ended" => ~restart
  /\ pc = "run" => \A c \in Containers :
       /\ told[c] => exitCode
       /\ state[c] = "returned" => told[c]

UndisturbedUnasked == ~watching /\ ~asked => Undisturbed

IndInv == TypeOK /\ UndisturbedUnasked

LEMMA InitInv == Init => IndInv
<1> SUFFICES ASSUME Init PROVE IndInv
  OBVIOUS
<1>1. TypeOK
  <2>1. {disk, seen} \subseteq [version : 0..MaxSaves, touched : 0..1, kind : Kinds]
    BY LauncherAssumption DEF Init
  <2>2. loaded \in [version : 0..MaxSaves, kind : Kinds]
    BY LauncherAssumption DEF Init
  <2>3. /\ state \in [Containers -> {"none", "starting", "started", "returned"}]
        /\ told \in [Containers -> BOOLEAN]
        /\ pc \in {"check", "set", "waiters", "import", "run", "again", "failed", "ended", "killed"}
    BY DEF Init
  <2>4. /\ watching \in BOOLEAN /\ restart \in BOOLEAN /\ restarting \in BOOLEAN
        /\ closed \in BOOLEAN /\ exitCode \in BOOLEAN /\ handlers \in BOOLEAN /\ asked \in BOOLEAN
        /\ pending \subseteq {"reader", "handler", "task"}
    BY Zenon DEF Init
  <2> QED
    BY <2>1, <2>2, <2>3, <2>4 DEF TypeOK
<1>2. UndisturbedUnasked
  BY DEF Init, UndisturbedUnasked, Undisturbed
<1> QED
  BY <1>1, <1>2 DEF IndInv

-----------------------------------------------------------------------------
\* What an iteration leaves of the callbacks are callbacks, and none of none.
LEMMA AdvancedCallbacks ==
  ASSUME NEW callbacks \in SUBSET {"reader", "handler", "task"}
  PROVE  /\ Advanced(callbacks) \subseteq {"reader", "handler", "task"}
         /\ callbacks = {} => Advanced(callbacks) = {}
  BY DEF Advanced

\* The watcher looks at the files: what it knows and what it decides.
LEMMA WatcherTypes ==
  ASSUME TypeOK, WatcherRestart
  PROVE  seen' = disk /\ restart' \in BOOLEAN
<1>1. Importable(disk.kind) \in BOOLEAN
  BY DEF Importable
<1> QED
  BY <1>1, Zenon DEF TypeOK, WatcherRestart

LEMMA TypeStep == TypeOK /\ [Next]_vars => TypeOK'
<1> SUFFICES ASSUME TypeOK, [Next]_vars PROVE TypeOK'
  OBVIOUS
<1>0. Advanced(pending) \subseteq {"reader", "handler", "task"}
  BY AdvancedCallbacks DEF TypeOK
<1> USE <1>0 DEF TypeOK, launcher, files
<1>1. CASE Check
  BY <1>1 DEF Check
<1>2. CASE SetWaiters
  <2>1. restart' \in BOOLEAN /\ seen' \in {disk, seen}
    BY <1>2, WatcherTypes DEF SetWaiters
  <2> QED
    BY <1>2, <2>1 DEF SetWaiters
<1>3. CASE WaitersSet
  <2>1. ("task" \in pending) \in BOOLEAN
    OBVIOUS
  <2>2. closed' \in BOOLEAN
    BY <1>3, <2>1, Zenon DEF WaitersSet
  <2> QED
    BY <1>3, <2>2 DEF WaitersSet
<1>4. CASE Import
  BY <1>4 DEF Import
<1>5. CASE ImportSyntaxError
  BY <1>5 DEF ImportSyntaxError
<1>6. CASE ImportError
  BY <1>6 DEF ImportError
<1>7. CASE TryAgain
  BY <1>7 DEF TryAgain
<1>8. CASE AllReturned
  BY <1>8 DEF AllReturned
<1>9. CASE RetryFailed
  BY <1>9 DEF RetryFailed
<1>10. CASE Callbacks
  BY <1>10 DEF Callbacks
<1>11. CASE Watch
  <2>1. restart' \in BOOLEAN /\ seen' = disk
    BY <1>11, WatcherTypes DEF Watch
  <2> QED
    BY <1>11, <2>1 DEF Watch
<1>12. ASSUME NEW c \in Containers, Start(c) PROVE TypeOK'
  BY <1>12 DEF Start
<1>13. ASSUME NEW c \in Containers, Return(c) PROVE TypeOK'
  BY <1>13 DEF Return
<1>14. CASE Exit
  BY <1>14 DEF Exit
<1>15. CASE Signal
  BY <1>15 DEF Signal
<1>16. CASE Kill
  BY <1>16 DEF Kill
<1>17. ASSUME NEW kind \in Kinds, Save(kind) PROVE TypeOK'
  <2>1. disk.version + 1 \in 0..MaxSaves
    BY <1>17, LauncherAssumption DEF Save
  <2>2. disk' \in [version : 0..MaxSaves, touched : 0..1, kind : Kinds]
    BY <1>17, <2>1 DEF Save
  <2> QED
    BY <1>17, <2>2 DEF Save
<1>18. CASE Touch
  BY <1>18 DEF Touch
<1>19. CASE UNCHANGED vars
  BY <1>19 DEF vars
<1> QED
  BY <1>1, <1>2, <1>3, <1>4, <1>5, <1>6, <1>7, <1>8, <1>9, <1>10, <1>11, <1>12, <1>13, <1>14,
     <1>15, <1>16, <1>17, <1>18, <1>19 DEF Next, Launch

LEMMA UndisturbedStep == IndInv /\ [Next]_vars => UndisturbedUnasked'
<1> SUFFICES ASSUME IndInv, [Next]_vars, ~watching', ~asked' PROVE Undisturbed'
  BY DEF UndisturbedUnasked
<1>1. ~watching /\ ~asked
  <2>1. CASE Launch
    BY <2>1 DEF Launch, Check, SetWaiters, WaitersSet, Import, ImportSyntaxError, ImportError,
                TryAgain, AllReturned, RetryFailed
  <2>2. CASE Callbacks \/ Watch \/ Kill \/ Touch \/ UNCHANGED vars
    BY <2>2 DEF Callbacks, Watch, Kill, Touch, vars
  <2>3. ASSUME NEW c \in Containers, Start(c) \/ Return(c) PROVE ~watching /\ ~asked
    BY <2>3 DEF Start, Return
  <2>4. ASSUME NEW kind \in Kinds, Save(kind) PROVE ~watching /\ ~asked
    BY <2>4 DEF Save
  <2>5. ~Exit /\ ~Signal
    BY DEF Exit, Signal
  <2> QED
    BY <2>1, <2>2, <2>3, <2>4, <2>5 DEF Next
<1>2. Undisturbed /\ TypeOK /\ Advanced(pending) = {}
  BY <1>1, AdvancedCallbacks DEF IndInv, UndisturbedUnasked, Undisturbed, TypeOK
<1> USE <1>1, <1>2 DEF Undisturbed, TypeOK, launcher, files
<1>3. CASE Check
  BY <1>3 DEF Check
<1>4. CASE SetWaiters
  BY <1>4 DEF SetWaiters, Changed
<1>5. CASE WaitersSet
  BY <1>5 DEF WaitersSet
<1>6. CASE Import
  BY <1>6 DEF Import
<1>7. CASE ImportSyntaxError
  BY <1>7 DEF ImportSyntaxError
<1>8. CASE ImportError
  BY <1>8 DEF ImportError
<1>9. CASE TryAgain
  BY <1>9 DEF TryAgain
<1>10. CASE AllReturned
  BY <1>10, LauncherAssumption DEF AllReturned
<1>11. CASE RetryFailed
  BY <1>11 DEF RetryFailed
<1>12. ASSUME NEW c \in Containers, Start(c) PROVE Undisturbed'
  BY <1>12 DEF Start
<1>13. ASSUME NEW c \in Containers, Return(c) PROVE Undisturbed'
  BY <1>13 DEF Return
<1>14. CASE Kill
  BY <1>14 DEF Kill
<1>15. CASE UNCHANGED vars
  BY <1>15 DEF vars
<1>16. ~(Callbacks \/ Watch \/ Exit \/ Signal)
  BY DEF Callbacks, Watch, Changed, Exit, Signal
<1> QED
  BY <1>3, <1>4, <1>5, <1>6, <1>7, <1>8, <1>9, <1>10, <1>11, <1>12, <1>13, <1>14, <1>15, <1>16
     DEF Next, Launch

LEMMA Invariance == Spec => []IndInv
<1>1. IndInv /\ [Next]_vars => IndInv'
  BY TypeStep, UndisturbedStep DEF IndInv
<1> QED
  BY InitInv, <1>1, PTL DEF Spec

-----------------------------------------------------------------------------
\* The types: whatever arrives when, the loop of launcher.py 264-362 is in one
\* of its places.
THEOREM TypeCorrect == Spec => []TypeOK
<1>1. IndInv => TypeOK
  BY DEF IndInv
<1> QED
  BY Invariance, <1>1, PTL

\* A process without the watcher that ends unasked says so in its exit code:
\* a service that fails to start or to be imported is not taken for one that
\* has finished (launcher.py 286-356).
THEOREM FailuresReported == Spec => []UnaskedEndIsAnError
<1>1. IndInv => UnaskedEndIsAnError
  BY DEF IndInv, UndisturbedUnasked, Undisturbed, UnaskedEndIsAnError
<1> QED
  BY Invariance, <1>1, PTL
=============================================================================
