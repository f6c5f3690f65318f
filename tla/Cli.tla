--------------------------------- MODULE Cli ---------------------------------
(***************************************************************************)
(* `ocp daemon on`, `off` and `status` of ocp.cli over module Pidfile: a   *)
(* command opens the pidfile, reads it, looks whether the process exists,  *)
(* and acts, while ocpd processes start, stop and die.                     *)
(*                                                                         *)
(* Commands do not wait for each other and only look at the file: one at a *)
(* time is modelled.  The ocpd that `on` starts and the one that `off`     *)
(* ends may start and end at any time in Pidfile.  An `on` or `off` that   *)
(* is not root's ends before it looks: it is no step.                      *)
(***************************************************************************)
EXTENDS Pidfile

VARIABLES cmd,    \* the command that runs or ran last: "started" is an `on`
                  \* that has started an ocpd
          root,   \* it is root's
          pc,     \* where it is, or how it ended
          file,   \* the inode read_text() has open
          pid,    \* the pid it read
          steady  \* history: the ocpd running ever since the command began

cliVars == <<cmd, root, pc, file, pid>>

Ended == {"up", "down", "failed"}

CliTypeOK == /\ TypeOK
             /\ cmd \in {"on", "started", "off", "status"}
             /\ root \in BOOLEAN /\ (cmd # "status" => root)
             /\ pc \in {"open", "read", "check", "signal", "wait"} \cup Ended
             /\ file \in Inodes \cup {None} /\ (file # None <=> pc = "read")
             /\ pid \in Pids \cup {None}
             /\ pc \in {"signal", "wait", "up"} => pid # None
             /\ steady \subseteq {p \in Pids : at[p] = "running"}

(* Some command has found no daemon.                                       *)
CliInit == /\ Init
           /\ cmd = "status" /\ root = TRUE /\ pc = "down"
           /\ file = None /\ pid = None /\ steady = {}

-----------------------------------------------------------------------------
(* What _pid_alive(), a kill(pid, 0), may say.  It fails for a process of  *)
(* root when another user asks; a pid no ocpd has may be a stranger's.     *)
SaysAlive == pid # None /\ root
SaysDead  == pid # None => ~root \/ at[pid] = "off"

Goto(point) == pc' = point /\ UNCHANGED <<cmd, root, file, pid, steady>>

(* A command begins; `on` and `off` are root's.                            *)
Begin(c, r) == /\ pc \in Ended /\ (c # "status" => r)
               /\ cmd' = c /\ root' = r /\ pc' = "open" /\ pid' = None
               /\ steady' = {p \in Pids : at[p] = "running"}
               /\ UNCHANGED file

(* _read_pidfile(): without a file there is no pid.                        *)
OpenFile == /\ pc = "open" /\ file' = path
            /\ pc' = IF path = None THEN "check" ELSE "read"
            /\ pid' = None
            /\ UNCHANGED <<cmd, root, steady>>

(* An empty file has no pid either.                                        *)
ReadFile == /\ pc = "read" /\ pc' = "check"
            /\ pid' = content[file] /\ file' = None
            /\ UNCHANGED <<cmd, root, steady>>

(* Mutant: `on` starts an ocpd without a look at the pid.                  *)
FoundNoneUnlooked == /\ pc = "check" /\ cmd = "on"
                     /\ cmd' = "started" /\ pc' = "open"
                     /\ UNCHANGED <<root, file, pid, steady>>

(* `on` and `status` say so and end, `off` has someone to signal.          *)
FoundAlive == /\ pc = "check" /\ SaysAlive
              /\ Goto(IF cmd = "off" THEN "signal" ELSE "up")

(* Nobody there: `off` and `status` say so and end; `on` starts an ocpd,   *)
(* and from then on looks again every 0.1 s, for five seconds.             *)
FoundNone == /\ pc = "check" /\ SaysDead
             /\ \/ cmd \in {"off", "status"} /\ Goto("down")
                \/ /\ cmd = "on" /\ cmd' = "started" /\ pc' = "open"
                   /\ UNCHANGED <<root, file, pid, steady>>
                \/ cmd = "started" /\ (Goto("open") \/ Goto("failed"))

(* kill(pid, SIGTERM), or the process has gone meanwhile.                  *)
Signal == /\ pc = "signal"
          /\ \/ SaysAlive /\ Goto("wait")
             \/ SaysDead /\ Goto("down")

(* `off` looks for the end of the process, every 0.1 s for five seconds.   *)
Poll == /\ pc = "wait"
        /\ \/ SaysAlive /\ Goto("failed")
           \/ SaysDead /\ Goto("down")

Command == \/ \E c \in {"on", "off", "status"}, r \in BOOLEAN : Begin(c, r)
           \/ OpenFile \/ ReadFile \/ FoundAlive \/ FoundNone \/ Signal \/ Poll

(* No new file gets the inode that a command has open.                     *)
Keeps(open) == path # open => path' # open

Ocpd == /\ Next
        /\ file # None => Keeps(file)
        /\ steady' = {p \in steady : at'[p] = "running"}
        /\ UNCHANGED cliVars

CliNext == Ocpd \/ (Command /\ UNCHANGED vars)

CliSpec == CliInit /\ [][CliNext]_<<vars, cliVars, steady>>

-----------------------------------------------------------------------------
(* While an ocpd runs, every command of root finds it, and finds no other: *)
(* `status` says up, `on` starts no second one, `off` signals that one -   *)
(* whatever other ocpd try to start, are refused, die or left a file       *)
(* behind, unless a release has unlinked a file another ocpd had open.     *)
CommandsSeeDaemon ==
  root /\ ~robbed =>
    \A p \in steady : /\ pc \in {"signal", "wait", "up", "failed"} => pid = p
                      /\ pc # "down"
                      /\ cmd # "started"

(* The same of the `status` of any user: "Check whether the daemon is      *)
(* running (anyone)" (cli.py).                                             *)
StatusForAnyone == cmd = "status" /\ ~robbed /\ steady # {} => pc # "down"
=============================================================================
