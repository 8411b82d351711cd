------------------------------ MODULE NodeAgent ------------------------------
(***************************************************************************)
(* What the node agent does to the container of a server: the Docker       *)
(* requests each of its operations is made of, in their order, and what a  *)
(* request does to the container.  The agent keeps no state of its own     *)
(* between two calls; whether an operation ends when its caller goes away  *)
(* depends on what it does with the body of the HTTP call.                 *)
(*                                                                         *)
(* Image pulls, CPU limits and the files of a runtime are left out: they   *)
(* can make an operation fail, which ServerLifecycle lets happen at any    *)
(* request.                                                                *)
(***************************************************************************)
EXTENDS Sequences

Container == {"absent", "stopped", "starting", "running"}

DockerRequest == {"stop", "start", "remove", "create", "nothing"}

\* Containers.State of the agent: what Docker says, as the controller sees it.
ReportOf(c) == IF c \in {"absent", "stopped"} THEN "offline" ELSE c

\* The requests of the agent's operation for a job.  "task" is a backup, a
\* command or an add-on: nothing that concerns the container's life.
Requests(action) ==
  CASE action \in {"provision", "update"} -> <<"stop", "remove", "create">>
    [] action = "start"                   -> <<"start">>
    [] action = "restart"                 -> <<"stop", "start">>
    [] action \in {"stop", "restore"}     -> <<"stop">>
    [] action = "delete"                  -> <<"stop", "remove">>
    [] action = "task"                    -> <<"nothing">>

\* The context of the HTTP call, which all Docker requests use, ends with the
\* connection only once the body of the call has been read.  These three do not
\* read it: without their caller they go on.
IgnoresBody(action) == action \in {"start", "stop", "restart"}
OrphanCall == {<<"start">>, <<"stop">>, <<"stop", "start">>}

\* Docker refuses to start what is not there; stopping or removing it is fine.
Refused(request, c) == request = "start" /\ c = "absent"

\* A start of a container that is not stopped changes nothing (304).
Performed(request, c) ==
  CASE request = "stop"    -> IF c = "absent" THEN "absent" ELSE "stopped"
    [] request = "start"   -> IF c = "stopped" THEN "starting" ELSE c
    [] request = "remove"  -> "absent"
    [] request = "create"  -> "stopped"
    [] request = "nothing" -> c
=============================================================================
