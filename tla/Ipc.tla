--------------------------------- MODULE Ipc ---------------------------------
(***************************************************************************)
(* ocp.ipc: users' commands over the Unix socket of ocpd, and what becomes *)
(* of their answers when clients give up, file operations fail and the     *)
(* daemon is stopped, killed, or fails to start.                           *)
(*                                                                         *)
(* A connection carries one request.  call() gives up after five seconds;  *)
(* the daemon, whose loop a tick may hold up for longer, reads and carries *)
(* out the request all the same, and the user may send it again on another *)
(* connection.  A handler runs from the last byte of its request to the    *)
(* bytes of its answer without an await that suspends it: one step.        *)
(***************************************************************************)
EXTENDS Naturals

CONSTANTS Gpus, Uids, Root, Durations, NoLease, DiskOutcomes, \* see LeaseStore
          Conns,         \* bound: connections there may be at once
          NoRequest,     \* no request in a connection
          Unknown, Free, \* what users know of a GPU, besides a lease
          Waiting,       \* does wait_closed() wait? TRUE: Python >= 3.12.1
          BootFailures   \* where a start may fail: "beforeLoad", "afterLoad"

(* The assumptions of LeaseStore, for its instance.                        *)
ASSUME StoreAssumption ==
  /\ Root \in Uids
  /\ Durations \subseteq Nat \ {0}
  /\ NoLease \notin [uid : Uids, left : Nat]
  /\ TRUE \in DiskOutcomes /\ DiskOutcomes \subseteq BOOLEAN

ASSUME ToldAssumption == Unknown # Free /\ {Unknown, Free} \cap [uid : Uids, left : Nat] = {}
ASSUME BootAssumption ==
  Waiting \subseteq BOOLEAN /\ BootFailures \subseteq {"beforeLoad", "afterLoad"}

VARIABLES leases, disk,  \* see LeaseStore
          life,          \* where Daemon.run() is
          conn,          \* the state of a connection
          req,           \* the request it carries
          told           \* history: what the daemon last told users of a GPU

Store == INSTANCE LeaseStore WITH up <- life # "off"

storeVars == <<leases, disk>>
connVars  == <<conn, req>>
vars      == <<storeVars, life, connVars, told>>

GpuSets == (SUBSET Gpus) \ {{}}

(* Valid requests of authorized users.  Every other one leaves the leases  *)
(* alone: it reads, or reloads, or is refused.                             *)
Pauses   == [cmd : {"pause"}, uid : Uids, gpus : GpuSets, dur : Durations]
Resumes  == [cmd : {"resume"}, uid : Uids, gpus : GpuSets]
Other    == [cmd |-> "other"]
Requests == Pauses \cup Resumes \cup {Other}

ASSUME RequestAssumption == NoRequest \notin Requests

(* "sent": the daemon has a whole frame to read; "late": and its client    *)
(* has given up; "closed": the daemon closed it and the client will see.   *)
Carrying == {"sent", "late"}
Open     == {"connected"} \cup Carrying

Told == Store!Lease \cup {Unknown, Free}

ConnsOK == /\ conn \in [Conns -> Open \cup {"free", "answered", "closed"}]
           /\ req \in [Conns -> Requests \cup {NoRequest}]
           /\ \A k \in Conns : /\ req[k] # NoRequest <=> conn[k] \in Carrying
                               /\ life = "off" => conn[k] \notin Open

TypeOK == /\ Store!TypeOK
          /\ ConnsOK
          /\ life \in {"off", "serving", "stopping", "ending"}
          /\ told \in [Gpus -> Told]
          /\ life = "off" => leases = Store!Empty

Init == /\ life = "off"
        /\ Store!Init
        /\ conn = [k \in Conns |-> "free"] /\ req = [k \in Conns |-> NoRequest]
        /\ told = [g \in Gpus |-> Unknown]

-----------------------------------------------------------------------------
(* What clients do.                                                        *)

Become(k, s) == conn' = [conn EXCEPT ![k] = s]

(* connect(): until the listening socket is closed.                        *)
Connect(k) == /\ life = "serving" /\ conn[k] = "free"
              /\ Become(k, "connected")
              /\ UNCHANGED <<storeVars, life, req, told>>

Send(k, r) == /\ conn[k] = "connected"
              /\ Become(k, "sent") /\ req' = [req EXCEPT ![k] = r]
              /\ UNCHANGED <<storeVars, life, told>>

(* The client goes without a whole frame, or with its answer.              *)
Leave(k) == /\ conn[k] \in {"connected", "answered", "closed"}
            /\ Become(k, "free")
            /\ UNCHANGED <<storeVars, life, req, told>>

(* The timeout of call(): the frame stays in the socket.                   *)
GiveUp(k) == /\ conn[k] = "sent" /\ Become(k, "late")
             /\ UNCHANGED <<storeVars, life, req, told>>

-----------------------------------------------------------------------------
(* What _on_client() and the handlers do.                                  *)

(* A frame of a bad length, a version that is no number: no answer.        *)
Malformed(k) == /\ conn[k] = "connected" /\ Become(k, "closed")
                /\ UNCHANGED <<storeVars, life, req, told>>

(* The leases acquire() returned; when its persist() fails they stay, and  *)
(* the answer is an error.                                                 *)
ToldPause(S, ok) == [g \in Gpus |-> IF g \notin S THEN told[g]
                                    ELSE IF ok THEN leases'[g]
                                    ELSE IF told[g] = Free THEN Unknown ELSE told[g]]

ToldResume(S, ok) == [g \in Gpus |-> IF g \notin S THEN told[g]
                                     ELSE IF ok THEN Free ELSE Unknown]

Refused(r) == \/ r.cmd = "pause" /\ Store!Conflicts(r.uid, r.gpus) # {}
              \/ r.cmd = "resume" /\ Store!Releasable(r.uid, r.gpus) = {}
              \/ r = Other

(* Mutant: an OSError of persist() is logged, and the answer is ok.        *)
HandleAnyway(r, ok) ==
  \/ /\ r.cmd = "pause" /\ Store!Acquire(r.uid, r.gpus, r.dur, ok)
     /\ told' = ToldPause(r.gpus, TRUE)
  \/ /\ r.cmd = "resume" /\ Store!Release(r.uid, r.gpus, ok)
     /\ told' = ToldResume(Store!Releasable(r.uid, r.gpus), ok)
  \/ Refused(r) /\ UNCHANGED <<storeVars, told>>

(* _dispatch() and _handle_pause() or _handle_resume().                    *)
Handle(r, ok) ==
  \/ /\ r.cmd = "pause" /\ Store!Acquire(r.uid, r.gpus, r.dur, ok)
     /\ told' = ToldPause(r.gpus, ok)
  \/ /\ r.cmd = "resume" /\ Store!Release(r.uid, r.gpus, ok)
     /\ told' = ToldResume(Store!Releasable(r.uid, r.gpus), ok)
  \/ Refused(r) /\ UNCHANGED <<storeVars, told>>


(* From the frame to the answer; a client that has gone gets none, and an  *)
(* answer of more than MAX_BODY_BYTES is not sent.                         *)
Serve(k, ok) ==
  /\ life # "off" /\ conn[k] \in Carrying
  /\ Handle(req[k], ok)
  /\ req' = [req EXCEPT ![k] = NoRequest]
  /\ \/ conn[k] = "sent" /\ Become(k, "answered")
     \/ conn[k] = "sent" /\ req[k] = Other /\ Become(k, "closed")
     \/ conn[k] = "late" /\ Become(k, "free")
  /\ UNCHANGED life

(* A tick or the expiry loop.                                              *)
Sweep(ok) == /\ life = "serving" /\ Store!Sweep(ok)
             /\ UNCHANGED <<life, connVars, told>>

-----------------------------------------------------------------------------
(* Mutant: frames outlive their connections.                               *)
DisconnectOnly(S) ==
  /\ UNCHANGED req
  /\ conn' = [k \in Conns |-> IF k \notin S \/ conn[k] = "free" THEN conn[k]
                              ELSE IF conn[k] = "late" THEN "free" ELSE "closed"]

(* The daemon's end of the connections of S goes.                          *)
Disconnect(S) ==
  /\ req' = [k \in Conns |-> IF k \in S THEN NoRequest ELSE req[k]]
  /\ conn' = [k \in Conns |-> IF k \notin S \/ conn[k] = "free" THEN conn[k]
                              ELSE IF conn[k] = "late" THEN "free" ELSE "closed"]

OpenConns == {k \in Conns : conn[k] \in Open}

Boot == /\ life = "off" /\ life' = "serving"
        /\ Store!Load(TRUE)
        /\ UNCHANGED <<connVars, told>>

(* run() raises before or after leases.load(): _shutdown() persists what   *)
(* the new process holds.                                                  *)
BootFails(where) ==
  /\ life = "off"
  /\ disk' = IF where = "afterLoad" THEN Store!Active(disk) ELSE Store!Empty
  /\ UNCHANGED <<leases, life, connVars, told>>

(* SIGTERM ends ticks, sweeps and the listening socket, with connections   *)
(* nobody had accepted yet; handlers go on.                                *)
Sigterm == /\ life = "serving" /\ life' = "stopping"
           /\ \E S \in SUBSET OpenConns : Disconnect(S)
           /\ UNCHANGED <<storeVars, told>>

(* server.stop() and stop_all() are through: persist().  When it raises,   *)
(* the process ends at once.                                               *)
Teardown(waits, ok) ==
  /\ life = "stopping"
  /\ waits => OpenConns = {}
  /\ \/ /\ ok /\ life' = "ending"
        /\ UNCHANGED leases /\ Store!Persist(TRUE) /\ UNCHANGED connVars
     \/ ~ok /\ life' = "off" /\ Store!Shutdown(FALSE) /\ Disconnect(OpenConns)
  /\ UNCHANGED told

(* stop_writer() has returned, and nothing persists any more.              *)
Exit == /\ life = "ending" /\ life' = "off"
        /\ Store!Crash /\ Disconnect(OpenConns)
        /\ UNCHANGED told

(* The process dies between two handlers, or between a persist() and the   *)
(* answer.                                                                 *)
Crash == /\ life # "off" /\ life' = "off"
         /\ Store!Crash
         /\ \E S \in SUBSET Conns : OpenConns \subseteq S /\ Disconnect(S)
         /\ UNCHANGED told

Elapse == /\ Store!Elapse
          /\ told' = [g \in Gpus |->
               IF told[g] \in {Unknown, Free} THEN told[g]
               ELSE IF told[g].left = 1 THEN Unknown
               ELSE [uid |-> told[g].uid, left |-> told[g].left - 1]]
          /\ UNCHANGED <<life, connVars>>

Client(k) == Connect(k) \/ Leave(k) \/ GiveUp(k) \/ \E r \in Requests : Send(k, r)

Daemon(ok) == \/ Sweep(ok)
              \/ \E waits \in Waiting : Teardown(waits, ok)
              \/ \E k \in Conns : Serve(k, ok)

Next == \/ \E k \in Conns : Client(k) \/ Malformed(k)
        \/ \E ok \in DiskOutcomes : Daemon(ok)
        \/ \E where \in BootFailures : BootFails(where)
        \/ Boot \/ Sigterm \/ Exit \/ Crash \/ Elapse

(* The daemon's tasks run, and server.stop() may have to wait for every    *)
(* connection.  Nobody has to send a frame, or to leave: read_frame() has  *)
(* no timeout.                                                             *)
Fairness == /\ \A k \in Conns : WF_vars(\E ok \in DiskOutcomes : Serve(k, ok))
            /\ WF_vars(\E ok \in DiskOutcomes : Teardown(TRUE, ok))
            /\ WF_vars(Exit)

Spec == Init /\ [][Next]_vars /\ Fairness

-----------------------------------------------------------------------------
(* What the daemon answered stays true until it carries out another request*)
(* for that GPU: a pause answered with a deadline is held till then by its *)
(* user, a GPU answered to be released is free - through time-outs,        *)
(* retries, failing writes, shutdowns, crashes and restarts.  README.md:   *)
(* "A pause from before a daemon restart is still honored".  Needs a start *)
(* that gets as far as leases.load() and can read the file.                *)
AnswersHold ==
  \A g \in Gpus :
    /\ told[g] \in Store!Lease =>
         /\ Store!Reserved[g] \in Store!Lease
         /\ Store!Reserved[g].uid = told[g].uid
         /\ Store!Reserved[g].left >= told[g].left
    /\ told[g] = Free => Store!Reserved[g] = NoLease

=============================================================================
