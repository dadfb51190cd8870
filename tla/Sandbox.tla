------------------------------ MODULE Sandbox ------------------------------
(***************************************************************************)
(* daemon/sandbox: the computers of the agents.  A computer is a row of    *)
(* the database and an instance outside it: a process group of the host or *)
(* a docker container.  Create and Destroy write the two in separate       *)
(* steps, without a lock or a transaction over them, under the context of  *)
(* the HTTP request they serve.  call[c] is what call c knows and where it *)
(* stands; any two calls interleave.                                       *)
(***************************************************************************)
EXTENDS Integers, FiniteSets

CONSTANTS Call,      \* HTTP requests in flight at once
          Computer,  \* computer ids (uuids), finitely many
          Pid,       \* process-group ids of the host, reused once free
          None       \* NULL: no runtime handle, no process

\* A group id, a container's name and NULL are told apart.
ASSUME SandboxAssumption ==
  /\ IsFiniteSet(Pid)
  /\ "container" \notin Pid
  /\ None \notin Pid \cup Computer \cup {"process", "container"}

VARIABLES computer,   \* the rows of table computer
          process,    \* the host: which computer's command runs as group p
          container,  \* docker: the container of each container computer
          call,       \* where each request stands
          stranded    \* history: computers whose launch could not be followed up

vars == <<computer, process, container, call, stranded>>

Isolation == {"process", "container"}
Status == {"absent", "provisioning", "ready", "failed", "destroyed"}
Handle == Pid \cup {"container", None}
ComputerRow == [status : Status, isolation : Isolation \cup {None}, handle : Handle]
NoCall == [step |-> "idle"]

\* live: the request's context is not cancelled yet.
CallState ==
  {NoCall} \cup
  [step : {"launch", "failed", "ready", "unwind", "teardown", "remove", "destroyed"},
   id : Computer, handle : Handle, live : BOOLEAN]

TypeOK ==
  /\ computer \in [Computer -> ComputerRow]
  /\ process \in [Pid -> Computer \cup {None}]
  /\ container \in [Computer -> {"none", "running", "stopped"}]
  /\ call \in [Call -> CallState]
  /\ stranded \subseteq Computer

Init ==
  /\ computer = [x \in Computer |-> [status |-> "absent", isolation |-> None, handle |-> None]]
  /\ process = [p \in Pid |-> None]
  /\ container = [x \in Computer |-> "none"]
  /\ call = [c \in Call |-> NoCall]
  /\ stranded = {}

At(c, step) == call[c] # NoCall /\ call[c].step = step
Return(c) == call' = [call EXCEPT ![c] = NoCall]
Goto(c, step) == call' = [call EXCEPT ![c].step = step]
Isolated(c, iso) == computer[call[c].id].isolation = iso
Running(x) == container[x] = "running" \/ \E p \in Pid : process[p] = x

----------------------------------------------------------------------------
(* Create: INSERT 'provisioning', launch, UPDATE 'ready' or 'failed'.        *)
Create(c, x, iso) ==
  /\ computer[x].status = "absent"
  /\ computer' = [computer EXCEPT ![x] =
       [status |-> "provisioning", isolation |-> iso, handle |-> None]]
  /\ call' = [call EXCEPT ![c] = [step |-> "launch", id |-> x, handle |-> None, live |-> TRUE]]
  /\ UNCHANGED <<process, container, stranded>>

HandleCreateComputer(c, x, iso) == call[c] = NoCall /\ Create(c, x, iso)

\* The process is not bound to the request's context: it outlives it.
LaunchProcess(c, p) ==
  /\ At(c, "launch") /\ Isolated(c, "process")
  /\ process[p] = None
  /\ process' = [process EXCEPT ![p] = call[c].id]
  /\ call' = [call EXCEPT ![c].step = "ready", ![c].handle = p]
  /\ UNCHANGED <<computer, container, stranded>>

\* docker run is: a request that ends kills the client.
LaunchContainer(c) ==
  /\ At(c, "launch") /\ Isolated(c, "container")
  /\ call[c].live
  /\ container' = [container EXCEPT ![call[c].id] = "running"]
  /\ call' = [call EXCEPT ![c].step = "ready", ![c].handle = "container"]
  /\ UNCHANGED <<computer, process, stranded>>

\* The command exits within the grace window, or docker run fails.  A client
\* that dies, or loses docker's answer, may leave the container behind.
LaunchFails(c) ==
  /\ At(c, "launch")
  /\ Goto(c, "failed")
  /\ \/ UNCHANGED <<container, stranded>>
     \/ /\ Isolated(c, "container")
        /\ container' = [container EXCEPT ![call[c].id] = "running"]
        /\ stranded' = stranded \cup {call[c].id}
  /\ UNCHANGED <<computer, process>>

\* The UPDATE runs under the same context and its error is dropped.
MarkFailed(c) ==
  /\ At(c, "failed")
  /\ \/ /\ call[c].live
        /\ computer' = [computer EXCEPT ![call[c].id].status = "failed"]
     \/ UNCHANGED computer
  /\ Return(c)
  /\ UNCHANGED <<process, container, stranded>>

Handled(c) == [computer[call[c].id] EXCEPT !.status = "ready", !.handle = call[c].handle]

MarkReady(c) ==
  /\ At(c, "ready")
  /\ call[c].live
  /\ computer' = [computer EXCEPT ![call[c].id] = Handled(c)]
  /\ Return(c)
  /\ UNCHANGED <<process, container, stranded>>

\* Mutant of MarkReadyFails: the error is returned without the teardown.
MarkReadyAbandons(c) ==
  /\ At(c, "ready")
  /\ Return(c)
  /\ UNCHANGED <<computer, process, container, stranded>>

\* The UPDATE fails, or commits without its acknowledgement.
MarkReadyFails(c) ==
  /\ At(c, "ready")
  /\ computer' \in {computer, [computer EXCEPT ![call[c].id] = Handled(c)]}
  /\ Goto(c, "unwind")
  /\ UNCHANGED <<process, container, stranded>>

----------------------------------------------------------------------------
(* teardown: SIGKILL to the whole group, whoever it belongs to by now, where *)
(* ESRCH is success; docker stop and docker rm, which need the container.    *)
(* A killed group runs no further: teardown's wait for the reap, which it    *)
(* gives up after half a second without an error, is left out.               *)
Kill(c, next) ==
  /\ call[c].handle \in Pid
  /\ process' = [process EXCEPT ![call[c].handle] = None]
  /\ next
  /\ UNCHANGED <<computer, container, stranded>>

DockerStop(c) ==
  /\ At(c, "teardown")
  /\ call[c].handle = "container"
  /\ call[c].live
  /\ container[call[c].id] # "none"
  /\ container' = [container EXCEPT ![call[c].id] = "stopped"]
  /\ Goto(c, "remove")
  /\ UNCHANGED <<computer, process, stranded>>

DockerRm(c) ==
  /\ At(c, "remove")
  /\ call[c].live
  /\ container[call[c].id] = "stopped"
  /\ container' = [container EXCEPT ![call[c].id] = "none"]
  /\ Goto(c, "destroyed")
  /\ UNCHANGED <<computer, process, stranded>>

\* docker fails, has no such container, or its client dies with the request.
DockerFails(c) ==
  /\ \/ At(c, "teardown") /\ call[c].handle = "container"
     \/ At(c, "remove")
  /\ Return(c)
  /\ UNCHANGED <<computer, process, container, stranded>>

\* Create undoes its launch and returns the UPDATE's error, not the teardown's.
Unwind(c) ==
  /\ At(c, "unwind")
  /\ \/ Kill(c, Return(c))
     \/ /\ call[c].handle = "container"
        /\ \/ /\ call[c].live
              /\ container' = [container EXCEPT ![call[c].id] = "none"]
              /\ UNCHANGED stranded
           \/ /\ stranded' = stranded \cup {call[c].id}
              /\ UNCHANGED container
        /\ Return(c)
        /\ UNCHANGED <<computer, process>>

----------------------------------------------------------------------------
(* Destroy: read the row, tear the instance down, UPDATE 'destroyed'.        *)

\* Mutant of Destroyable: a stuck 'provisioning' row may be destroyed too.
NotDestroyed == {"provisioning", "ready", "failed"}
Destroyable == {"ready", "failed"}

Destroy(c, x) ==
  /\ computer[x].status \in Destroyable
  /\ call' = [call EXCEPT ![c] =
       [step   |-> IF computer[x].handle = None THEN "destroyed" ELSE "teardown",
        id     |-> x, handle |-> computer[x].handle, live |-> TRUE]]
  /\ UNCHANGED <<computer, process, container, stranded>>

HandleDestroyComputer(c, x) == call[c] = NoCall /\ Destroy(c, x)

Teardown(c) == At(c, "teardown") /\ Kill(c, Goto(c, "destroyed"))

MarkDestroyed(c) ==
  /\ At(c, "destroyed")
  /\ call[c].live
  /\ computer' = [computer EXCEPT ![call[c].id].status = "destroyed"]
  /\ Return(c)
  /\ UNCHANGED <<process, container, stranded>>

MarkDestroyedFails(c) ==
  /\ At(c, "destroyed")
  /\ Return(c)
  /\ UNCHANGED <<computer, process, container, stranded>>

----------------------------------------------------------------------------
(* The client gives up after its timeout; commands end by themselves; the    *)
(* daemon dies, which ends every call and no instance.                       *)
RequestEnds(c) ==
  /\ call[c] # NoCall
  /\ call[c].live
  /\ call' = [call EXCEPT ![c].live = FALSE]
  /\ UNCHANGED <<computer, process, container, stranded>>

CommandExits ==
  /\ \/ \E p \in Pid : process[p] # None /\ process' = [process EXCEPT ![p] = None]
                         /\ UNCHANGED container
     \/ \E x \in Computer : container[x] = "running"
                              /\ container' = [container EXCEPT ![x] = "stopped"]
                              /\ UNCHANGED process
  /\ UNCHANGED <<computer, call, stranded>>

Crash ==
  /\ \E c \in Call : call[c] # NoCall
  /\ stranded' = stranded \cup {call[c].id : c \in {k \in Call :
                    call[k] # NoCall /\ call[k].step \in {"launch", "ready", "unwind"}}}
  /\ call' = [c \in Call |-> NoCall]
  /\ UNCHANGED <<computer, process, container>>

Creating(c) ==
  \/ \E x \in Computer, iso \in Isolation : HandleCreateComputer(c, x, iso)
  \/ \E p \in Pid : LaunchProcess(c, p)
  \/ LaunchContainer(c) \/ LaunchFails(c) \/ MarkFailed(c)
  \/ MarkReady(c) \/ MarkReadyFails(c) \/ Unwind(c)

Destroying(c) ==
  \/ \E x \in Computer : HandleDestroyComputer(c, x)
  \/ Teardown(c) \/ DockerStop(c) \/ DockerRm(c) \/ DockerFails(c)
  \/ MarkDestroyed(c) \/ MarkDestroyedFails(c)

Next ==
  \/ \E c \in Call : Creating(c) \/ Destroying(c) \/ RequestEnds(c)
  \/ CommandExits \/ Crash

Spec == Init /\ [][Next]_vars

----------------------------------------------------------------------------
(* Properties *)

\* Destroyed means actually gone, not merely recorded: no instance of a computer
\* runs behind a 'destroyed' row, whatever Creates, Destroys, retries and exits
\* interleave, unless docker run left a container and no answer.
DestroyedGone ==
  \A x \in Computer :
    computer[x].status = "destroyed" /\ x \notin stranded => ~Running(x)

\* Destroy finds x: its row is in a state Destroy accepts and names its instance.
Reachable(x) ==
  /\ computer[x].status \in Destroyable
  /\ IF computer[x].isolation = "process"
     THEN \A p \in Pid : process[p] = x => computer[x].handle = p
     ELSE computer[x].handle = "container"

Unattended(x) == Running(x) /\ \A c \in Call : call[c] # NoCall => call[c].id # x

\* A running instance that no request is working on can still be destroyed: launch
\* failures, lost UPDATEs, ended requests and failed Destroys leave none that its row
\* does not lead to.  Three ways out are known and held in stranded: the daemon dies
\* inside Create, docker run's answer is lost, docker cannot undo it (its client
\* dies with the request).
NothingLeaks == \A x \in Computer : Unattended(x) /\ x \notin stranded => Reachable(x)

\* The package comment: destroying a computer is an always-available inverse of
\* creating it.  Every running instance nobody works on is one Destroy accepts.
AlwaysDestroyable == \A x \in Computer : Unattended(x) => Reachable(x)
=============================================================================
