------------------------------ MODULE Pidfile ------------------------------
(***************************************************************************)
(* ocp.daemon.Pidfile: what keeps a second ocpd from running, one system   *)
(* call at a time.                                                         *)
(*                                                                         *)
(* The path may name an inode, or none; a lock belongs to an inode.  The   *)
(* processes are known by their pids, and `ocp daemon on`, `off` and       *)
(* `status` go by the pid in the file at the path.  An inode that no       *)
(* process has open and the path does not name is free for a new file.     *)
(***************************************************************************)
EXTENDS Naturals, FiniteSets

CONSTANTS Pids,    \* the pids an ocpd may run under
          Inodes,  \* files there may be at once
          None     \* no inode, no process, an empty file

ASSUME NoneAssumption == None \notin Pids /\ None \notin Inodes

VARIABLES at,       \* the point of Daemon.run() the process is at
          fd,       \* the inode it has open
          path,     \* the inode PIDFILE_PATH names
          locker,   \* the process that has the lock of an inode
          content,  \* the pid in an inode
          robbed    \* a release unlinked a file that another ocpd had open

procVars == <<at, fd>>
fileVars == <<path, locker, content>>
vars     == <<procVars, fileVars, robbed>>

(* A process has its file open, and from the flock() to the LOCK_UN its    *)
(* lock, at these points.                                                  *)
Opened  == {"opened", "locked", "truncated", "running", "unlocked"}
Locking == {"locked", "truncated", "running"}

TypeOK == /\ at \in [Pids -> Opened \cup {"off", "closed"}]
          /\ fd \in [Pids -> Inodes \cup {None}]
          /\ path \in Inodes \cup {None}
          /\ locker \in [Inodes -> Pids \cup {None}]
          /\ content \in [Inodes -> Pids \cup {None}]
          /\ robbed \in BOOLEAN
          /\ \A p \in Pids : fd[p] # None <=> at[p] \in Opened

Init == /\ at = [p \in Pids |-> "off"] /\ fd = [p \in Pids |-> None]
        /\ path = None
        /\ locker = [i \in Inodes |-> None] /\ content = [i \in Inodes |-> None]
        /\ robbed = FALSE

-----------------------------------------------------------------------------
Free(i) == i # path /\ \A p \in Pids : fd[p] # i

(* os.open(O_RDWR | O_CREAT)                                               *)
Open(p) == /\ at[p] = "off" /\ at' = [at EXCEPT ![p] = "opened"]
           /\ \/ /\ path # None
                 /\ fd' = [fd EXCEPT ![p] = path]
                 /\ UNCHANGED <<path, content>>
              \/ \E i \in Inodes :
                   /\ path = None /\ Free(i)
                   /\ fd' = [fd EXCEPT ![p] = i] /\ path' = i
                   /\ content' = [content EXCEPT ![i] = None]
           /\ UNCHANGED <<locker, robbed>>

(* Mutant: a shared lock.                                                  *)
LockShared(p) == /\ at[p] = "opened" /\ at' = [at EXCEPT ![p] = "locked"]
                 /\ locker' = [locker EXCEPT ![fd[p]] = p]
                 /\ UNCHANGED <<fd, path, content, robbed>>

(* Mutant: a refused process goes without os.close().                      *)
LockLeaks(p) == /\ at[p] = "opened"
                /\ \/ /\ locker[fd[p]] = None
                      /\ locker' = [locker EXCEPT ![fd[p]] = p]
                      /\ at' = [at EXCEPT ![p] = "locked"]
                   \/ /\ locker[fd[p]] # None
                      /\ at' = [at EXCEPT ![p] = "off"]
                      /\ UNCHANGED locker
                /\ UNCHANGED <<fd, path, content, robbed>>

(* flock(LOCK_EX | LOCK_NB); a process that is refused exits.              *)
Lock(p) == /\ at[p] = "opened"
           /\ \/ /\ locker[fd[p]] = None
                 /\ locker' = [locker EXCEPT ![fd[p]] = p]
                 /\ at' = [at EXCEPT ![p] = "locked"]
                 /\ UNCHANGED fd
              \/ /\ locker[fd[p]] # None
                 /\ at' = [at EXCEPT ![p] = "off"] /\ fd' = [fd EXCEPT ![p] = None]
                 /\ UNCHANGED locker
           /\ UNCHANGED <<path, content, robbed>>

Truncate(p) == /\ at[p] = "locked" /\ at' = [at EXCEPT ![p] = "truncated"]
               /\ content' = [content EXCEPT ![fd[p]] = None]
               /\ UNCHANGED <<fd, path, locker, robbed>>

WritePid(p) == /\ at[p] = "truncated" /\ at' = [at EXCEPT ![p] = "running"]
               /\ content' = [content EXCEPT ![fd[p]] = p]
               /\ UNCHANGED <<fd, path, locker, robbed>>

(* release(): LOCK_UN, close, unlink.                                      *)
Unlock(p) == /\ at[p] = "running" /\ at' = [at EXCEPT ![p] = "unlocked"]
             /\ locker' = [locker EXCEPT ![fd[p]] = None]
             /\ UNCHANGED <<fd, path, content, robbed>>

Close(p) == /\ at[p] = "unlocked" /\ at' = [at EXCEPT ![p] = "closed"]
            /\ fd' = [fd EXCEPT ![p] = None]
            /\ UNCHANGED <<fileVars, robbed>>

Unlink(p) == /\ at[p] = "closed" /\ at' = [at EXCEPT ![p] = "off"]
             /\ path' = None
             /\ robbed' = (robbed \/ \E q \in Pids \ {p} : path # None /\ fd[q] = path)
             /\ UNCHANGED <<fd, locker, content>>

(* A crash, or a SIGKILL: the system closes the file.                      *)
Die(p) == /\ at[p] # "off" /\ at' = [at EXCEPT ![p] = "off"]
          /\ fd' = [fd EXCEPT ![p] = None]
          /\ locker' = [i \in Inodes |-> IF locker[i] = p THEN None ELSE locker[i]]
          /\ UNCHANGED <<path, content, robbed>>

Next == \E p \in Pids : \/ Open(p) \/ Lock(p) \/ Truncate(p) \/ WritePid(p)
                        \/ Unlock(p) \/ Close(p) \/ Unlink(p) \/ Die(p)

Spec == Init /\ [][Next]_vars

-----------------------------------------------------------------------------
(* Unless a release has unlinked a file another ocpd had open, a running   *)
(* ocpd is the one the file at the path names, through crashes, refused    *)
(* starts and releases: `ocp daemon off` finds it, and there is only one.  *)
RunningIsNamed ==
  \A p \in Pids : at[p] = "running" /\ ~robbed
                    => path # None /\ path = fd[p] /\ content[path] = p

(* README.md: "Can I run two daemons on one host?  No."                    *)
OneDaemon == Cardinality({p \in Pids : at[p] = "running"}) <= 1
=============================================================================
