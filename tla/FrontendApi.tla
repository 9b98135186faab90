---------------------------- MODULE FrontendApi ----------------------------
(***************************************************************************)
(* The I/O threads of Hugin, which serve the frontends and the connection  *)
(* to Muninn: a command blocks one of them in CommandLoadBalancer::execute *)
(* and a directory upload blocks one until its own threads are joined.     *)
(***************************************************************************)
EXTENDS CommandDispatch, DirectoryUpload

CONSTANTS
  Workloads     \* bound: the requests that arrive together

ASSUME FrontendAssumption ==
  Workloads \subseteq [commands : SUBSET Calls, uploads : BOOLEAN]

VARIABLES
  workload      \* what arrives in this behaviour

frontendVars == <<dispatchVars, uploadVars, workload>>

FrontendTypeOK ==
  /\ DispatchTypeOK
  /\ UploadTypeOK
  /\ workload \in Workloads

FrontendInit ==
  /\ DispatchInit
  /\ UploadInit
  /\ workload \in Workloads

\* An I/O thread that is neither in a command nor in the upload.
FreeThreadLeft ==
  Cardinality(InExecute) + (IF upload = "running" THEN 1 ELSE 0) < IoThreads

Arrived(c) == c \in workload.commands

\* A request or a posted handler gets an I/O thread.
ServeCommands ==
  /\ FreeThreadLeft
  /\ IoThreadStep
  /\ \A c \in Calls : call'[c] # call[c] => Arrived(c)
  /\ UNCHANGED uploadVars

ServeUpload ==
  /\ FreeThreadLeft
  /\ IoThreadFree
  /\ workload.uploads
  /\ \E request \in Requests : BeginUpload(request)
  /\ UNCHANGED dispatchVars

\* The I/O threads are joined before the balancer is destroyed.
ShutDown ==
  /\ Shutdown
  /\ phase = "io_stopped" => upload # "running"
  /\ UNCHANGED uploadVars

FrontendNext ==
  /\ \/ ServeCommands
     \/ ServeUpload
     \/ ShutDown
     \/ /\ \/ \E c \in Calls : ExecuteStep(c)
           \/ \E w \in Workers : WorkerStep(w)
           \/ ConnectionChanges
        /\ UNCHANGED uploadVars
     \/ /\ \/ \E u \in Uploaders : UploaderStep(u)
           \/ AnswerUpload
        /\ UNCHANGED dispatchVars
  /\ UNCHANGED workload

FrontendSpec == FrontendInit /\ [][FrontendNext]_frontendVars

\* Threads that have something to do run, and wait_for returns.
Alone(vars) == UNCHANGED <<vars, workload>>

FairFrontendSpec ==
  /\ FrontendSpec
  /\ \A c \in Calls : WF_frontendVars(ExecuteStep(c) /\ Alone(uploadVars))
  /\ \A w \in Workers : WF_frontendVars(WorkerStep(w) /\ Alone(uploadVars))
  /\ WF_frontendVars(FreeThreadLeft /\ RunPosted(1) /\ Alone(uploadVars))
  /\ \A u \in Uploaders : WF_frontendVars(UploaderStep(u) /\ Alone(dispatchVars))
  /\ WF_frontendVars(AnswerUpload /\ Alone(dispatchVars))

-----------------------------------------------------------------------------
\* Every queued command is run by its worker, also when its caller gave up and
\* when the process shuts down, every caller gets its thread back, a posted
\* handler runs unless the I/O threads are stopped, and an upload is answered:
\* the blocked I/O threads, the workers of the balancer and the threads of an
\* upload do not wait for each other (CommandLoadBalancer::execute, worker_loop,
\* directory upload of FrontendApiServer).
EveryRequestEnds ==
  /\ \A c \in Calls :
       call[c] = "waiting" ~>
         /\ call[c] \in Answers
         /\ promise[c] # "unset"
         /\ c \in ToSet(posted) => phase \notin {"serving", "client_stopped"}
  /\ upload = "running" ~> upload = "answered"
=============================================================================
