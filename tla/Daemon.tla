------------------------------- MODULE Daemon -------------------------------
(***************************************************************************)
(* flinter/daemon.c and flinter/pidfile.c: programs that are started,      *)
(* looked for and stopped through a file that the running one has locked.  *)
(* Each system call on the file is a step, since other processes come in   *)
(* between.  Inodes are numbered; a lock belongs to an inode, a name may   *)
(* be given to another one.  Whoever is killed leaves the file behind.     *)
(***************************************************************************)
EXTENDS Integers, FiniteSets

CONSTANTS
  Daemons,      \* one for each command that starts the program
  Consoles,     \* those of them that start it on the console
  Controls,     \* commands that look for it, stop it or make it reload
  Good,         \* checks in a row that "start" waits for
  PollLimit,    \* checks that it makes
  Attempts,     \* of the daemon to open the file
  MaxLives,     \* bound: a daemon is started again by its babysitter
  MaxInodes     \* bound: files created

NoOne == "none"
Inodes == 1..MaxInodes

ASSUME DaemonAssumption ==
  /\ Good \in Nat /\ Attempts \in Nat /\ PollLimit \in Nat /\ MaxLives \in Nat /\ MaxInodes \in Nat
  /\ NoOne \notin Daemons /\ Consoles \subseteq Daemons

VARIABLES
  path,       \* inode of the file, 0 if there is none
  created,    \* inodes so far
  holder,     \* inode -> who has locked it
  dpc,        \* daemon: "none", "open", "lock", "write", "run", "validate", "unlink",
              \* "close", "dead", "gone"
  fd,         \* daemon -> inode it has opened
  tries,      \* daemon -> failed attempts
  lives,      \* daemon -> number of the process
  starter,    \* daemon -> the command: "idle", "polling", "ok", "failed"
  polls, count,  \* of the polling command
  control,    \* command -> "idle", "check", "wipe", "kill", "wait", or its result
  cfd,        \* command -> inode it has opened
  target,     \* command -> process it has found
  removed,    \* history: a file was removed
  wiped,      \* history: it was removed by another one than the one that ran
  misremoved  \* history: pidfile_close() removed the file of another one

file == <<path, created, holder>>
proc == <<dpc, fd, tries, lives>>
start == <<starter, polls, count>>
ctl == <<control, cfd, target>>
hist == <<removed, wiped, misremoved>>
daemonVars == <<file, proc, start, ctl, hist>>

DaemonInit ==
  /\ path = 0 /\ created = 0 /\ holder = [i \in Inodes |-> NoOne]
  /\ dpc = [d \in Daemons |-> "none"] /\ fd = [d \in Daemons |-> 0]
  /\ tries = [d \in Daemons |-> 0] /\ lives = [d \in Daemons |-> 0]
  /\ starter = [d \in Daemons |-> "idle"]
  /\ polls = [d \in Daemons |-> 0] /\ count = [d \in Daemons |-> 0]
  /\ control = [c \in Controls |-> "idle"]
  /\ cfd = [c \in Controls |-> 0] /\ target = [c \in Controls |-> <<>>]
  /\ removed = FALSE /\ wiped = FALSE /\ misremoved = FALSE

Goto(d, pc) == dpc' = [dpc EXCEPT ![d] = pc]

\* The file is closed, and with it the lock is gone.
Shut(d) ==
  /\ holder' = [i \in Inodes |-> IF holder[i] = d THEN NoOne ELSE holder[i]]
  /\ fd' = [fd EXCEPT ![d] = 0]

-----------------------------------------------------------------------------
(***************************************************************************)
(* daemon_control_start(), daemon_spawn() and daemon_control_daemonize().  *)
(* fork() may fail; so may what the new process does before it runs.       *)
(***************************************************************************)
Begin(d) ==
  /\ Goto(d, "open") /\ lives' = [lives EXCEPT ![d] = @ + 1]
  /\ tries' = [tries EXCEPT ![d] = 0] /\ UNCHANGED fd

Start(d) ==
  /\ d \notin Consoles /\ starter[d] = "idle"
  /\ \/ starter' = [starter EXCEPT ![d] = "polling"] /\ Begin(d)
     \/ starter' = [starter EXCEPT ![d] = "failed"] /\ UNCHANGED proc
  /\ UNCHANGED <<file, polls, count, ctl, hist>>

\* On the console the command is the daemon.
StartConsole(d) ==
  /\ d \in Consoles /\ starter[d] = "idle" /\ starter' = [starter EXCEPT ![d] = "ok"] /\ Begin(d)
  /\ UNCHANGED <<file, polls, count, ctl, hist>>

DaemonizeFailed(d) ==
  /\ dpc[d] = "open" /\ tries[d] = 0 /\ Goto(d, "gone")
  /\ UNCHANGED <<file, fd, tries, lives, start, ctl, hist>>

\* A file that is there counts, whether it is locked or not.
Poll(d) ==
  /\ starter[d] = "polling"
  /\ polls' = [polls EXCEPT ![d] = @ + 1]
  /\ count' = [count EXCEPT ![d] = IF path # 0 THEN @ + 1 ELSE 0]
  /\ starter' = [starter EXCEPT ![d] = IF count'[d] >= Good THEN "ok"
                                       ELSE IF polls[d] = PollLimit THEN "failed" ELSE @]
  /\ UNCHANGED <<file, proc, ctl, hist>>

\* The babysitter starts another process, whether this one has returned or not.
Restart(d) ==
  /\ d \notin Consoles /\ dpc[d] \in {"dead", "gone"} /\ lives[d] < MaxLives /\ Begin(d)
  /\ UNCHANGED <<file, start, ctl, hist>>

-----------------------------------------------------------------------------
(***************************************************************************)
(* pidfile_open().                                                         *)
(***************************************************************************)
OpenFile(d) ==
  /\ dpc[d] = "open" /\ Goto(d, "lock")
  /\ \/ path # 0 /\ fd' = [fd EXCEPT ![d] = path] /\ UNCHANGED <<path, created>>
     \/ /\ path = 0 /\ created < MaxInodes /\ created' = created + 1
        /\ path' = created' /\ fd' = [fd EXCEPT ![d] = created']
  /\ UNCHANGED <<holder, tries, lives, start, ctl, hist>>

\* It is tried again, unless another instance is there.
GiveUp(d) ==
  /\ tries' = [tries EXCEPT ![d] = @ + 1]
  /\ Goto(d, IF tries'[d] = Attempts THEN "gone" ELSE "open")
  /\ Shut(d) /\ UNCHANGED lives

OpenFailed(d) ==
  /\ dpc[d] = "open" /\ GiveUp(d)
  /\ UNCHANGED <<path, created, start, ctl, hist>>

\* Defect: a lock that is held by another one is taken for a passing error.
LockFileIgnored(d) ==
  /\ dpc[d] = "lock"
  /\ Goto(d, "write")
  /\ holder' = IF holder[fd[d]] = NoOne THEN [holder EXCEPT ![fd[d]] = d] ELSE holder
  /\ UNCHANGED <<path, created, fd, tries, lives, start, ctl, hist>>

LockFile(d) ==
  /\ dpc[d] = "lock"
  /\ \/ holder[fd[d]] # NoOne /\ Goto(d, "gone") /\ Shut(d)
     \/ /\ holder[fd[d]] = NoOne /\ Goto(d, "write")
        /\ holder' = [holder EXCEPT ![fd[d]] = d] /\ UNCHANGED fd
  /\ UNCHANGED <<path, created, tries, lives, start, ctl, hist>>

WriteFile(d) ==
  /\ dpc[d] = "write" /\ Goto(d, "run")
  /\ UNCHANGED <<file, fd, tries, lives, start, ctl, hist>>

\* The file is removed by its name if it cannot be written, not if it cannot be cut.
WriteFailed(d) ==
  /\ dpc[d] = "write" /\ GiveUp(d)
  /\ \/ path' = 0 /\ removed' = TRUE /\ wiped' = (wiped \/ path \notin {0, fd[d]})
     \/ UNCHANGED <<path, removed, wiped>>
  /\ UNCHANGED <<created, misremoved, start, ctl>>

-----------------------------------------------------------------------------
(***************************************************************************)
(* The callback returns; pidfile_close() and pidfile_validate().           *)
(***************************************************************************)
Return(d) ==
  /\ dpc[d] = "run" /\ Goto(d, "validate")
  /\ UNCHANGED <<file, fd, tries, lives, start, ctl, hist>>

Validate(d) ==
  /\ dpc[d] = "validate" /\ Goto(d, IF path = fd[d] THEN "unlink" ELSE "close")
  /\ UNCHANGED <<file, fd, tries, lives, start, ctl, hist>>

Unlink(d) ==
  /\ dpc[d] = "unlink" /\ Goto(d, "close")
  /\ path' = 0 /\ removed' = TRUE
  /\ misremoved' = (misremoved \/ path \notin {0, fd[d]})
  /\ UNCHANGED <<created, holder, fd, tries, lives, start, ctl, wiped>>

Close(d) ==
  /\ dpc[d] = "close" /\ Goto(d, "gone") /\ Shut(d)
  /\ UNCHANGED <<path, created, tries, lives, start, ctl, hist>>

\* The process is killed, by SIGTERM or by something else.
Die(d) ==
  /\ dpc[d] \notin {"none", "dead", "gone"} /\ Goto(d, "dead") /\ Shut(d)
  /\ UNCHANGED <<path, created, tries, lives, start, ctl, hist>>

-----------------------------------------------------------------------------
(***************************************************************************)
(* daemon_control_status(), daemon_control_stop() and                      *)
(* daemon_do_control_status(), by pidfile_check().                         *)
(***************************************************************************)
Becomes(c, state) == control' = [control EXCEPT ![c] = state]

ControlOpen(c) ==
  /\ control[c] = "idle"
  /\ \/ path = 0 /\ Becomes(c, "not_running") /\ UNCHANGED cfd
     \/ path # 0 /\ Becomes(c, "check") /\ cfd' = [cfd EXCEPT ![c] = path]
  /\ UNCHANGED <<file, proc, start, target, hist>>

\* "status" is content with what it finds, "stop" and "reload" go on.
ControlCheck(c) ==
  /\ control[c] = "check" /\ cfd' = [cfd EXCEPT ![c] = 0]
  /\ LET d == holder[cfd[c]]
     IN  \/ d = NoOne /\ Becomes(c, "wipe") /\ UNCHANGED target
         \/ d # NoOne /\ Becomes(c, "running") /\ UNCHANGED target
         \/ d # NoOne /\ Becomes(c, "kill") /\ target' = [target EXCEPT ![c] = <<d, lives[d]>>]
  /\ UNCHANGED <<file, proc, start, hist>>

\* What was left behind is removed by its name.
ControlWipe(c) ==
  /\ control[c] = "wipe" /\ Becomes(c, "not_running")
  /\ path' = 0 /\ removed' = TRUE /\ wiped' = TRUE
  /\ UNCHANGED <<created, holder, proc, start, cfd, target, misremoved>>

Exists(p) == p[2] = lives[p[1]] /\ dpc[p[1]] \notin {"dead", "gone"}

\* What the signal does to the process is Return or Die.  "reload" does not wait.
ControlKill(c) ==
  /\ control[c] = "kill" /\ target' = [target EXCEPT ![c] = <<>>]
  /\ \/ ~Exists(target[c]) /\ Becomes(c, "failed")
     \/ Exists(target[c]) /\ Becomes(c, "told")
     \/ Exists(target[c]) /\ Becomes(c, "wait")
  /\ UNCHANGED <<file, proc, start, cfd, hist>>

\* Until the file is gone or is not locked, or for five minutes.
ControlWait(c) ==
  /\ control[c] = "wait"
  /\ \/ path \notin {i \in Inodes : holder[i] # NoOne} /\ Becomes(c, "stopped")
     \/ Becomes(c, "failed")
  /\ UNCHANGED <<file, proc, start, cfd, target, hist>>

DaemonNext ==
  \/ \E d \in Daemons :
       \/ Start(d) \/ StartConsole(d) \/ DaemonizeFailed(d) \/ Poll(d) \/ Restart(d)
       \/ OpenFile(d) \/ OpenFailed(d) \/ LockFile(d) \/ WriteFile(d) \/ WriteFailed(d)
       \/ Return(d) \/ Validate(d) \/ Unlink(d) \/ Close(d) \/ Die(d)
  \/ \E c \in Controls :
       ControlOpen(c) \/ ControlCheck(c) \/ ControlWipe(c) \/ ControlKill(c) \/ ControlWait(c)

DaemonSpec == DaemonInit /\ [][DaemonNext]_daemonVars

-----------------------------------------------------------------------------
(***************************************************************************)
(* Properties.                                                             *)
(***************************************************************************)
Running == {d \in Daemons : dpc[d] \in {"run", "validate"}}

\* Whoever crashes and is started again, two instances run at once only after a file was
\* removed, and never two whose pidfile_validate() says that the file is theirs.  Unless a
\* file of another one was removed by a command, or after a failed write, pidfile_close()
\* removes the file of the process that calls it and no other.
InstancesExclude ==
  /\ ~removed => Cardinality(Running) <= 1
  /\ Cardinality({d \in Running : fd[d] = path}) <= 1
  /\ \A d \in Running : holder[fd[d]] = d
  /\ misremoved => wiped

\* -2 "for locked by others", "duplicated instance detected": never two instances.
SingleInstance == Cardinality(Running) <= 1

\* "The daemon is gone but PID file is left behind": it is not removed while one runs.
RunningIsFound == \A d \in Running : fd[d] = path

=============================================================================
