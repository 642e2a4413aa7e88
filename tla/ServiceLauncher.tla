--------------------------- MODULE ServiceLauncher ---------------------------
(***************************************************************************)
(* The launcher of a process (tomodachi/launcher.py) with its containers,  *)
(* signals, and the watcher of the source files (tomodachi/watcher.py).    *)
(*                                                                         *)
(* The launcher alternates between plain code, in which nothing else runs  *)
(* but the signal handlers of Python, and run_until_complete, in which the *)
(* event loop runs containers, watcher and pending callbacks.  When a      *)
(* future that it waits for is done the loop finishes its iteration and    *)
(* returns; callbacks that are left over run the next time.  A signal that *)
(* arrives at any time calls stop_services through three such callbacks:   *)
(* the reader of the wake-up descriptor, the handler, and the task         *)
(* _stop_services; a changed file through the task alone.                  *)
(***************************************************************************)
EXTENDS Integers

CONSTANTS Containers,   \* one ServiceContainer per service file
          MaxSaves      \* bound: how often the source files change

ASSUME LauncherAssumption == Containers # {} /\ MaxSaves \in Nat

VARIABLES
  watching,    \* the file watcher is enabled (no --production)
  pc,          \* where run_until_complete of the launcher is
  restart,     \* restart_services
  restarting,  \* this is not the first round
  closed,      \* _close_waiter has a result
  exitCode,    \* SERVICE_EXIT_CODE is not zero
  handlers,    \* the loop has its signal handlers
  pending,     \* callbacks that lead to _stop_services
  disk, seen,  \* the source files, and what the watcher knows of them
  loaded,      \* the version that the containers run
  state, told, \* of each container, and whether its _close_waiter has a result
  asked        \* a signal or tomodachi.exit() asked the process to stop

vars == <<watching, pc, restart, restarting, closed, exitCode, handlers, pending,
          disk, seen, loaded, state, told, asked>>
launcher == <<restarting, exitCode, handlers>>
files == <<disk, seen, loaded>>

(* What importing and starting the code of a version does: a service that
   works, one that fails to start, a syntax error, another error on import, a
   package name that is taken.                                              *)
Kinds == {"works", "fails", "syntax", "error", "package"}
Importable(kind) == kind \in {"works", "fails"}
Finished == pc \in {"ended", "killed"}

Init ==
  /\ watching \in BOOLEAN
  /\ pc = "check" /\ restart = TRUE /\ restarting = FALSE
  /\ closed = FALSE /\ exitCode = FALSE /\ handlers = TRUE
  /\ pending = {} /\ asked = FALSE
  /\ disk \in [version : {0}, touched : {0}, kind : Kinds]
  /\ seen = disk /\ loaded = [version |-> 0, kind |-> disk.kind]
  /\ state = [c \in Containers |-> "none"]
  /\ told = [c \in Containers |-> FALSE]

-----------------------------------------------------------------------------
(* The restart loop of run_until_complete *)

Check ==
  /\ pc = "check"
  /\ pc' = IF restart THEN "set" ELSE "ended"
  /\ UNCHANGED <<watching, restart, closed, launcher, pending, files, state, told, asked>>

(* One iteration of the loop moves every callback a step on. *)
Advanced(callbacks) ==
  (IF "reader" \in callbacks THEN {"handler"} ELSE {})
    \cup (IF "handler" \in callbacks THEN {"task"} ELSE {})

(* _watcher_restart for files that changed: the code is imported, and only
   when that works are the services stopped.                               *)
Changed == watching /\ disk # seen
WatcherRestart ==
  /\ seen' = disk
  /\ IF disk.version = seen.version THEN UNCHANGED restart
     ELSE restart' = Importable(disk.kind)

(* Mutant of WatcherStops: the watcher asks for a restart and stops nobody. *)
WatcherStopsNobody == FALSE

WatcherStops == disk.version # seen.version /\ Importable(disk.kind)

(* loop.run_until_complete(_set_waiters()), first iteration: a task left over
   finds the old waiters, then there are new ones; the watcher may run too.  *)
SetWaiters ==
  /\ pc = "set"
  /\ pc' = "waiters" /\ closed' = FALSE /\ exitCode' = FALSE
  /\ \/ /\ pending' = Advanced(pending)
        /\ UNCHANGED <<restart, seen>>
     \/ /\ Changed /\ WatcherRestart
        /\ pending' = Advanced(pending) \cup (IF WatcherStops THEN {"task"} ELSE {})
  /\ UNCHANGED <<watching, restarting, handlers, disk, loaded, state, told, asked>>

(* Second and last iteration, and restart_services = False.  A task that runs
   now closes the new waiter, but knows only the containers of the last round. *)
WaitersSet ==
  /\ pc = "waiters"
  /\ pc' = "import" /\ restart' = FALSE
  /\ closed' = ("task" \in pending)
  /\ pending' = Advanced(pending)
  /\ UNCHANGED <<watching, launcher, files, state, told, asked>>

(* import_service_file for every service file, and the containers.         *)
Import ==
  /\ pc = "import" /\ Importable(disk.kind)
  /\ pc' = "run" /\ loaded' = [version |-> disk.version, kind |-> disk.kind]
  /\ state' = [c \in Containers |-> "starting"]
  /\ told' = [c \in Containers |-> FALSE]
  /\ UNCHANGED <<watching, restart, closed, launcher, pending, disk, seen, asked>>

(* except ServicePackageError, and except (SyntaxError, IndentationError). *)
ImportSyntaxError ==
  /\ pc = "import" /\ disk.kind \in {"syntax", "package"}
  /\ pc' = "check" /\ restarting' = TRUE
  /\ exitCode' = (exitCode \/ (disk.kind = "syntax" /\ ~restart))
  /\ UNCHANGED <<watching, restart, closed, handlers, pending, files, state, told, asked>>

(* Mutant: an exception in the first round leaves the exit code alone. *)
ImportErrorUnreported ==
  /\ pc = "import" /\ disk.kind = "error"
  /\ IF restarting THEN pc' = "again" /\ UNCHANGED launcher
                   ELSE /\ pc' = "check" /\ restarting' = TRUE
                        /\ handlers' = FALSE /\ UNCHANGED exitCode
  /\ UNCHANGED <<watching, restart, closed, pending, files, state, told, asked>>

(* except Exception: in a later round the launcher sleeps 1.5 seconds, in the
   first one it gives up its signal handlers.                              *)
ImportError ==
  /\ pc = "import" /\ disk.kind = "error"
  /\ IF restarting THEN pc' = "again" /\ UNCHANGED launcher
                   ELSE /\ pc' = "check" /\ restarting' = TRUE
                        /\ handlers' = FALSE /\ exitCode' = (exitCode \/ ~restart)
  /\ UNCHANGED <<watching, restart, closed, pending, files, state, told, asked>>

(* After the sleep: another round, unless the services were told to stop. *)
TryAgain ==
  /\ pc = "again"
  /\ pc' = "check"
  /\ IF closed THEN handlers' = FALSE /\ exitCode' = (exitCode \/ ~restart) /\ UNCHANGED restart
               ELSE restart' = TRUE /\ UNCHANGED <<handlers, exitCode>>
  /\ UNCHANGED <<watching, restarting, closed, pending, files, state, told, asked>>

(* All containers have returned.  After a failed restart there is another
   round, once 1.5 seconds have passed.                                    *)
AllReturned ==
  /\ pc = "run" /\ \A c \in Containers : state[c] = "returned"
  /\ restarting' = TRUE
  /\ IF restarting /\ exitCode /\ ~closed
     THEN pc' = "failed" /\ restart' = TRUE
     ELSE pc' = "check" /\ UNCHANGED restart
  /\ UNCHANGED <<watching, closed, exitCode, handlers, pending, files, state, told, asked>>

RetryFailed ==
  /\ pc = "failed"
  /\ pc' = "check"
  /\ UNCHANGED <<watching, restart, closed, launcher, pending, files, state, told, asked>>

-----------------------------------------------------------------------------
(* What the event loop runs while the launcher waits *)

Looping == pc \in {"run", "again", "failed"}

(* Mutant: only the first of the containers is told. *)
CallbacksStopOne ==
  /\ Looping /\ pending # {}
  /\ pending' = Advanced(pending)
  /\ closed' = (closed \/ "task" \in pending)
  /\ told' = IF "task" \in pending /\ ~closed /\ pc = "run"
             THEN [told EXCEPT ![CHOOSE c \in Containers : TRUE] = TRUE] ELSE told
  /\ UNCHANGED <<watching, pc, restart, launcher, files, state, asked>>

(* An iteration of the loop.  The task _stop_services tells the containers,
   unless the waiter has a result already.                                 *)
Callbacks ==
  /\ Looping /\ pending # {}
  /\ pending' = Advanced(pending)
  /\ closed' = (closed \/ "task" \in pending)
  /\ told' = IF "task" \in pending /\ ~closed /\ pc = "run"
             THEN [c \in Containers |-> TRUE] ELSE told
  /\ UNCHANGED <<watching, pc, restart, launcher, files, state, asked>>

(* The watcher looks at the files. *)
Watch ==
  /\ Looping /\ Changed /\ WatcherRestart
  /\ pending' = IF WatcherStops THEN pending \cup {"task"} ELSE pending
  /\ UNCHANGED <<watching, pc, closed, launcher, disk, loaded, state, told, asked>>

(* A container: its start succeeds, or fails and it stops itself. *)
Start(c) ==
  /\ pc = "run" /\ state[c] = "starting"
  /\ state' = [state EXCEPT ![c] = "started"]
  /\ \/ UNCHANGED <<told, exitCode>>
     \/ /\ loaded.kind = "fails"
        /\ told' = [told EXCEPT ![c] = TRUE] /\ exitCode' = TRUE
  /\ UNCHANGED <<watching, pc, restart, restarting, closed, handlers, pending, files, asked>>

(* wait_stopped returns and the container shuts its services down. *)
Return(c) ==
  /\ pc = "run" /\ state[c] = "started" /\ told[c]
  /\ state' = [state EXCEPT ![c] = "returned"]
  /\ UNCHANGED <<watching, pc, restart, closed, launcher, pending, files, told, asked>>

(* A service calls tomodachi.exit(). *)
Exit ==
  /\ pc = "run" /\ \E c \in Containers : state[c] = "started"
  /\ restart' = FALSE /\ asked' = TRUE
  /\ pending' = pending \cup {"task"}
  /\ UNCHANGED <<watching, pc, closed, launcher, files, state, told>>

-----------------------------------------------------------------------------
(* Signals and files *)

(* SIGINT or SIGTERM: sigtermHandler runs at once, the rest in the loop.   *)
Signal ==
  /\ ~Finished /\ handlers
  /\ restart' = FALSE /\ asked' = TRUE
  /\ pending' = pending \cup {"reader"}
  /\ UNCHANGED <<watching, pc, closed, launcher, files, state, told>>

(* Without handlers the default action ends the process. *)
Kill ==
  /\ ~Finished /\ ~handlers
  /\ pc' = "killed"
  /\ UNCHANGED <<watching, restart, closed, launcher, pending, files, state, told, asked>>

Save(kind) ==
  /\ disk.version < MaxSaves
  /\ disk' = [disk EXCEPT !.version = @ + 1, !.kind = kind]
  /\ UNCHANGED <<watching, pc, restart, closed, launcher, pending, seen, loaded, state, told, asked>>

(* The modification time changes, the contents do not. *)
Touch ==
  /\ disk.touched < 1
  /\ disk' = [disk EXCEPT !.touched = @ + 1]
  /\ UNCHANGED <<watching, pc, restart, closed, launcher, pending, seen, loaded, state, told, asked>>

Launch ==
  \/ Check \/ SetWaiters \/ WaitersSet \/ Import \/ ImportSyntaxError \/ ImportError
  \/ TryAgain \/ AllReturned \/ RetryFailed

Next ==
  \/ Launch \/ Callbacks \/ Watch
  \/ \E c \in Containers : Start(c) \/ Return(c)
  \/ Exit \/ Signal \/ Kill
  \/ ~Finished /\ watching /\ (Touch \/ \E kind \in Kinds : Save(kind))

Spec == Init /\ [][Next]_vars

(* The launcher runs, and the event loop runs whatever can run; the sleeps end. *)
Fairness ==
  /\ WF_vars(Launch) /\ WF_vars(Callbacks) /\ WF_vars(Watch)
  /\ \A c \in Containers : WF_vars(Start(c)) /\ WF_vars(Return(c))

FairSpec == Spec /\ Fairness

-----------------------------------------------------------------------------
(* Properties *)

(* Type invariant. *)
TypeOK ==
  /\ watching \in BOOLEAN /\ restart \in BOOLEAN /\ restarting \in BOOLEAN
  /\ closed \in BOOLEAN /\ exitCode \in BOOLEAN /\ handlers \in BOOLEAN /\ asked \in BOOLEAN
  /\ pc \in {"check", "set", "waiters", "import", "run", "again", "failed", "ended", "killed"}
  /\ pending \subseteq {"reader", "handler", "task"}
  /\ {disk, seen} \subseteq [version : 0..MaxSaves, touched : 0..1, kind : Kinds]
  /\ loaded \in [version : 0..MaxSaves, kind : Kinds]
  /\ state \in [Containers -> {"none", "starting", "started", "returned"}]
  /\ told \in [Containers -> BOOLEAN]

(* Without the watcher a signal, at whatever point of the start it arrives,
   or tomodachi.exit() ends the process.                                   *)
ProductionSignalTerminates == (asked /\ ~watching) ~> Finished

(* Without the watcher a process that ends although nobody asked it to says so
   in its exit code, a package name that is taken aside.                   *)
UnaskedEndIsAnError ==
  pc = "ended" /\ ~watching /\ ~asked /\ disk.kind # "package" => exitCode

(* A working version that the watcher notices while the services run is
   loaded: they are stopped, all of them, and started again with it or with
   one saved later, unless that one does not work or the process is told to
   stop in between.                                                        *)
NoticedIsLoaded ==
  \A v \in 1..MaxSaves :
    (pc = "run" /\ ~closed /\ restart /\ seen.version = v)
      ~> (loaded.version >= v \/ disk.kind # "works" \/ Finished)

(* Not so with the watcher: README.md, "When the service process receives a
   SIGINT or SIGTERM signal the service begins the process for graceful
   termination."  A file that changes during the stop starts it again.     *)
SignalTerminates == asked ~> Finished
=============================================================================
