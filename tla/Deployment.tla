----------------------------- MODULE Deployment -----------------------------
(***************************************************************************)
(* The Windows deployment of Master (deploy.py): its scheduled task, its   *)
(* local port and its private API route in Tailscale Serve, under the      *)
(* commands setup, start, stop and update.                                 *)
(*                                                                         *)
(* A command is a list of steps; each changes one thing outside the        *)
(* command.  A step that the code checks may fail and ends the command;    *)
(* /DISABLE and /End are not checked, and their failure goes unnoticed.    *)
(* Between two steps a process that was started comes to listen, or not,   *)
(* the server can crash, the scheduler restarts it, other applications     *)
(* take and free ports, the tailnet goes offline and comes back, and       *)
(* Windows can restart, which ends the command where it is.                *)
(*                                                                         *)
(* Abstractions.  The settings preflight looks at are one flag, which the  *)
(* Maintenance page can change.  A port that another application holds or  *)
(* that Lite has reserved is busy.  Only Master's own path in Serve is     *)
(* modelled; paths of others are never touched.  Reading commands (status, *)
(* logs), file permissions and installing Tailscale are left out.  A       *)
(* process reads its port from .env as it is started.                      *)
(***************************************************************************)
EXTENDS Naturals, Sequences

CONSTANTS
    MaxPort,   \* local ports are 1..MaxPort, the lowest is the default
    MayBusy    \* ports other applications or Lite may take

NoPort == 0
Port   == 1..MaxPort

ASSUME PortsAssumption == MaxPort \in Nat \ {0} /\ MayBusy \subseteq Port

VARIABLES
    env,       \* .env: port, previous port or NoPort, and three flags: the host
               \* is trusted, the API address is saved, preflight accepts backups
    portFile,  \* the public port file
    task,      \* the scheduled task: "missing", "disabled" or "enabled"
    starting,  \* port the task's process does not listen on yet, or NoPort
    server,    \* port the task's process listens on, or NoPort
    orphans,   \* ports that processes which outlived their task listen on
    adrift,    \* ports that such processes do not listen on yet
    pending,   \* the scheduler will restart the failed task
    route,     \* port Serve sends /api/v1/ to, or NoPort
    online,    \* the tailnet is reachable
    busy,      \* ports held by others
    cmd,       \* the running command: its name, steps to do, and outcome
    stopped,   \* history: a stop completed, and nothing was started since
    slips,     \* history: what stopping has overlooked (see Overlooked)
    moves      \* history: changes of port since the route was set (0, 1 or 2)

processes == <<starting, server, orphans, adrift>>
machine   == <<task, processes, pending>>
outside   == <<online, busy>>
history   == <<stopped, slips, moves>>
deployVars == <<env, portFile, machine, route, outside, cmd, history>>

\* Mutant: the task is disabled last.
DisableLast  == <<"routeOff", "end", "waitStop", "disable">>
StopSteps    == <<"routeOff", "disable", "end", "waitStop">>
ApiSteps     == <<"identity", "trust", "serve", "verify", "forget", "address">>
StartSteps   == <<"preflight", "query", "routeOff", "end", "waitStop", "select", "portFile",
                  "enable", "run", "health">> \o ApiSteps
InstallSteps == <<"install", "createTask">>
SetupSteps   == <<"prepare", "preflight", "existing">>
AfterSetup   == <<"select", "portFile">> \o InstallSteps \o <<"run", "health">> \o ApiSteps
UpdateSteps  == <<"preflight">> \o StopSteps \o InstallSteps \o StartSteps

StepsOf(name) ==
    CASE name = "stop" -> StopSteps [] name = "start" -> StartSteps
      [] name = "update" -> UpdateSteps [] name = "setup" -> SetupSteps

NoCmd == [name |-> "none", todo |-> <<>>, mode |-> "main", existing |-> FALSE, ran |-> FALSE]

DeployInit ==
    /\ env = [web |-> 1, prev |-> NoPort, trusted |-> FALSE, address |-> FALSE, backups |-> TRUE]
    /\ portFile = 1
    /\ task = "missing" /\ pending = FALSE
    /\ starting = NoPort /\ server = NoPort /\ orphans = {} /\ adrift = {}
    /\ route = NoPort
    /\ online = TRUE /\ busy = {}
    /\ cmd = NoCmd
    /\ stopped = FALSE /\ slips = {} /\ moves = 0

-----------------------------------------------------------------------------
(* The machine: Task Scheduler, the server process, the tailnet.           *)

Listening == {server} \cup orphans
Running   == ({starting} \cup Listening \cup adrift) \ {NoPort}

\* What the checks of Stop and Start do not see.  "unseen": a process that
\* did not listen yet has survived /End.  "moved": a port was left that a
\* process still runs for, and only the saved port is looked at.
Overlooked == {"unseen", "moved"}

\* run_server has started for the port saved in .env.
Launch == starting' = env.web /\ pending' = FALSE

\* uvicorn binds the port.
Bind ==
    /\ starting \in Port \ (busy \cup orphans)
    /\ server' = starting /\ starting' = NoPort
    /\ UNCHANGED <<env, portFile, task, orphans, adrift, pending, route, outside, cmd, history>>

\* The process ends by itself, because its port is in use or later; the task
\* has failed.
ServerFails ==
    /\ {starting, server} # {NoPort}
    /\ starting' = NoPort /\ server' = NoPort /\ pending' = TRUE
    /\ UNCHANGED <<env, portFile, task, orphans, adrift, route, outside, cmd, history>>

\* A process that outlived its task binds its port, or ends.
AdriftBinds(p) ==
    /\ p \in adrift \ (busy \cup Listening)
    /\ orphans' = orphans \cup {p} /\ adrift' = adrift \ {p}
    /\ UNCHANGED <<env, portFile, task, starting, server, pending, route, outside, cmd, history>>

OrphanFails(p) ==
    /\ \/ p \in orphans /\ orphans' = orphans \ {p} /\ adrift' = adrift
       \/ p \in adrift /\ adrift' = adrift \ {p} /\ orphans' = orphans
    /\ UNCHANGED <<env, portFile, task, starting, server, pending, route, outside, cmd, history>>

\* RestartOnFailure; a disabled task is not restarted.
FailureRestart ==
    /\ pending /\ task = "enabled" /\ {starting, server} = {NoPort}
    /\ Launch
    /\ UNCHANGED <<env, portFile, task, server, orphans, adrift, route, outside, cmd, history>>

\* Windows restarts: the boot trigger runs an enabled task.
Reboot ==
    /\ cmd' = NoCmd
    /\ server' = NoPort /\ orphans' = {} /\ adrift' = {}
    /\ starting' = IF task = "enabled" THEN env.web ELSE NoPort
    /\ pending' = FALSE /\ slips' = {}
    /\ UNCHANGED <<env, portFile, task, route, outside, stopped, moves>>

OthersTakePorts ==
    /\ busy' \in SUBSET (MayBusy \ Listening)
    /\ busy' # busy
    /\ UNCHANGED <<env, portFile, machine, route, online, cmd, history>>

TailnetChanges ==
    /\ online' = ~online
    /\ UNCHANGED <<env, portFile, machine, route, busy, cmd, history>>

\* The Maintenance page writes backup settings that preflight may refuse.
SaveBackupSettings(ok) ==
    /\ Listening # {NoPort}
    /\ env' = [env EXCEPT !.backups = ok]
    /\ UNCHANGED <<portFile, machine, route, outside, cmd, history>>

-----------------------------------------------------------------------------
(* Commands.                                                               *)

Begin(name) ==
    /\ cmd.name = "none"
    /\ cmd' = [NoCmd EXCEPT !.name = name, !.todo = StepsOf(name)]
    /\ stopped' = (stopped /\ name = "stop" /\ task # "enabled")
    /\ UNCHANGED <<env, portFile, machine, route, outside, slips, moves>>

At(step)      == cmd.todo # <<>> /\ Head(cmd.todo) = step
Proceed       == cmd' = [cmd EXCEPT !.todo = Tail(@)]
Instead(rest) == cmd' = [cmd EXCEPT !.todo = rest]

\* setup stops what it started before it reports the failure.
FailedSetup == cmd' = [cmd EXCEPT !.mode = "cleanup", !.todo = StopSteps]

\* DeploymentError, CalledProcessError or OSError in a step.
FailStep ==
    IF cmd.mode = "main" /\ cmd.name = "setup" /\ cmd.ran THEN FailedSetup
    ELSE IF cmd.mode = "main" /\ Head(cmd.todo) \in {"install", "createTask"}
            /\ (cmd.name = "update" \/ cmd.existing)
    THEN cmd' = [cmd EXCEPT !.mode = "repair", !.todo = StartSteps]
    ELSE cmd' = [cmd EXCEPT !.mode = "aborted", !.todo = <<>>]

\* TailscaleUnavailable: an existing Master keeps serving its console.
Unavailable ==
    IF cmd.name = "setup" /\ ~cmd.existing THEN FailStep ELSE Instead(<<>>)

\* The steps whose failure is not checked, or which only read.
Unchecked == {"disable", "end", "query", "existing"}

\* A step fails before it changes anything.  A step that fails after its
\* change is "Proceed \/ FailStep" in the step's own action.
StepFails ==
    /\ cmd.todo # <<>> /\ Head(cmd.todo) \notin Unchecked
    /\ FailStep
    /\ UNCHANGED <<env, portFile, machine, route, outside, history>>

\* _prepare_environment: defaults for what is missing, and the port file.
Prepare ==
    /\ At("prepare")
    /\ portFile' = env.web
    /\ Proceed
    /\ UNCHANGED <<env, machine, route, outside, history>>

Preflight ==
    /\ At("preflight")
    /\ IF env.backups THEN Proceed ELSE FailStep
    /\ UNCHANGED <<env, portFile, machine, route, outside, history>>

\* setup: an installed task is stopped, else only an orphan is ended.
ExistingTask ==
    /\ At("existing")
    /\ cmd' = [cmd EXCEPT !.existing = task # "missing",
                          !.todo = (IF task # "missing" THEN StopSteps ELSE <<"waitStop">>)
                                   \o AfterSetup]
    /\ UNCHANGED <<env, portFile, machine, route, outside, history>>

\* start: a task that is missing is reported.
Query ==
    /\ At("query")
    /\ IF task # "missing" THEN Proceed ELSE FailStep
    /\ UNCHANGED <<env, portFile, machine, route, outside, history>>

OwnTargets == {env.web, env.prev} \ {NoPort}

\* _disable_own_serve: only a route to the saved or the previous port is
\* Master's own.  With the tailnet offline it is left.
RouteOff ==
    /\ At("routeOff")
    /\ IF env.address /\ online /\ route \in OwnTargets
       THEN route' = NoPort /\ moves' = 0 /\ (Proceed \/ FailStep)
       ELSE UNCHANGED <<route, moves>> /\ Proceed
    /\ UNCHANGED <<env, portFile, machine, outside, stopped, slips>>

\* /DISABLE with check=False: the command goes on whether it worked or not.
Disable ==
    /\ At("disable")
    /\ task' \in IF task = "missing" THEN {task} ELSE {task, "disabled"}
    /\ Proceed
    /\ UNCHANGED <<env, portFile, processes, pending, route, outside, history>>

\* /End with check=False: the task's process ends, or outlives its task, or
\* the task goes on.
End ==
    /\ At("end")
    /\ \/ UNCHANGED processes
       \/ /\ starting' = NoPort /\ server' = NoPort
          /\ orphans' \in {orphans, orphans \cup ({server} \ {NoPort})}
          /\ adrift' \in {adrift, adrift \cup ({starting} \ {NoPort})}
    /\ slips' = slips \cup IF starting' # NoPort \/ adrift' # {} THEN {"unseen"} ELSE {}
    /\ Proceed
    /\ UNCHANGED <<env, portFile, task, pending, route, outside, stopped, moves>>

\* _wait_for_stop and _release_setuora_port: a process of this installation
\* that listens on the saved port is ended; no other is looked for.  A task
\* whose process is killed has failed.
WaitStop ==
    /\ At("waitStop")
    /\ server' = IF server = env.web THEN NoPort ELSE server
    /\ orphans' = orphans \ {env.web}
    /\ pending' = (pending \/ server = env.web)
    /\ UNCHANGED <<starting, adrift>>
    /\ slips' = IF Running' = {} THEN {} ELSE slips
    /\ Proceed \/ FailStep
    /\ UNCHANGED <<env, portFile, task, route, outside, stopped, moves>>

Free == Port \ (busy \cup Listening)

Lowest(s) == CHOOSE p \in s : \A q \in s : p <= q

\* Mutant: the previous port is not remembered.
SaveWebPortForgets(port) == env' = [env EXCEPT !.web = port, !.prev = NoPort]

\* _save_web_port: the port that is left is remembered.
SaveWebPort(port) ==
    env' = [env EXCEPT !.web = port, !.prev = IF port # env.web THEN env.web ELSE @]

\* _select_available_web_port: the saved port if it is free, else the lowest.
SelectPort ==
    /\ At("select")
    /\ Free # {}
    /\ LET port == IF env.web \in Free THEN env.web ELSE Lowest(Free) IN
       /\ SaveWebPort(port)
       /\ moves' = IF port # env.web /\ moves < 2 THEN moves + 1 ELSE moves
       /\ slips' = slips \cup IF port # env.web /\ env.web \in Running THEN {"moved"} ELSE {}
    /\ Proceed
    /\ UNCHANGED <<portFile, machine, route, outside, stopped>>

WritePortFile ==
    /\ At("portFile")
    /\ portFile' = env.web
    /\ Proceed
    /\ UNCHANGED <<env, machine, route, outside, history>>

InstallRuntime ==
    /\ At("install")
    /\ Proceed
    /\ UNCHANGED <<env, portFile, machine, route, outside, history>>

\* _ensure_task replaces the task; a new task is enabled.
CreateTask ==
    /\ At("createTask")
    /\ task' = "enabled"
    /\ Proceed
    /\ UNCHANGED <<env, portFile, processes, pending, route, outside, history>>

Enable ==
    /\ At("enable")
    /\ task' = "enabled"
    /\ Proceed
    /\ UNCHANGED <<env, portFile, processes, pending, route, outside, history>>

\* /Run: ignored while an instance runs.
Run ==
    /\ At("run")
    /\ IF {starting, server} # {NoPort} THEN UNCHANGED <<starting, pending>> ELSE Launch
    /\ cmd' = [cmd EXCEPT !.todo = Tail(@), !.ran = TRUE]
    /\ UNCHANGED <<env, portFile, task, server, orphans, adrift, route, outside, history>>

\* Mutant: any process of this installation will do.
WaitForHealthAnywhere ==
    /\ At("health")
    /\ Listening # {NoPort}
    /\ Proceed
    /\ UNCHANGED <<env, portFile, machine, route, outside, history>>

\* _wait_for_health: Master itself answers on the saved port.
WaitForHealth ==
    /\ At("health")
    /\ env.web \in Listening
    /\ Proceed
    /\ UNCHANGED <<env, portFile, machine, route, outside, history>>

-----------------------------------------------------------------------------
(* _configure_private_api.                                                 *)

Identity ==
    /\ At("identity")
    /\ IF online THEN Proceed ELSE Unavailable
    /\ UNCHANGED <<env, portFile, machine, route, outside, history>>

\* A new host name is trusted after a restart of the server.
Trust ==
    /\ At("trust")
    /\ env' = [env EXCEPT !.trusted = TRUE]
    /\ IF env.trusted THEN Proceed
       ELSE Instead(<<"end", "waitStop", "run", "health">> \o Tail(cmd.todo)) \/ FailStep
    /\ UNCHANGED <<portFile, machine, route, outside, history>>

\* _ensure_private_serve: a route to any other port is not overwritten.
Serve ==
    /\ At("serve")
    /\ IF ~online THEN Unavailable /\ UNCHANGED <<route, moves>>
       ELSE IF route \in OwnTargets \cup {NoPort}
       THEN route' = env.web /\ moves' = 0 /\ (Proceed \/ FailStep)
       ELSE FailStep /\ UNCHANGED <<route, moves>>
    /\ UNCHANGED <<env, portFile, machine, outside, stopped, slips>>

Verify ==
    /\ At("verify")
    /\ IF ~online THEN Unavailable
       ELSE IF route \in Listening THEN Proceed ELSE FailStep
    /\ UNCHANGED <<env, portFile, machine, route, outside, history>>

ForgetPreviousPort ==
    /\ At("forget")
    /\ env' = [env EXCEPT !.prev = NoPort]
    /\ Proceed \/ FailStep
    /\ UNCHANGED <<portFile, machine, route, outside, history>>

SaveAddress ==
    /\ At("address")
    /\ env' = [env EXCEPT !.address = TRUE]
    /\ Proceed \/ FailStep
    /\ UNCHANGED <<portFile, machine, route, outside, history>>

\* The command reports its outcome.
Finish ==
    /\ cmd.name # "none" /\ cmd.todo = <<>>
    /\ stopped' = (stopped \/ (cmd.name = "stop" /\ cmd.mode = "main") \/ cmd.mode = "cleanup")
    /\ cmd' = NoCmd
    /\ UNCHANGED <<env, portFile, machine, route, outside, slips, moves>>

Step ==
    \/ Prepare \/ Preflight \/ ExistingTask \/ Query \/ RouteOff \/ Disable \/ End \/ WaitStop
    \/ SelectPort \/ WritePortFile \/ InstallRuntime \/ CreateTask \/ Enable \/ Run \/ WaitForHealth
    \/ Identity \/ Trust \/ Serve \/ Verify \/ ForgetPreviousPort \/ SaveAddress
    \/ StepFails \/ Finish

DeployNext ==
    \/ \E name \in {"setup", "start", "stop", "update"} : Begin(name)
    \/ Step
    \/ \E p \in Port : AdriftBinds(p) \/ OrphanFails(p)
    \/ Bind \/ ServerFails \/ FailureRestart \/ Reboot \/ OthersTakePorts \/ TailnetChanges
    \/ \E ok \in BOOLEAN : SaveBackupSettings(ok)

DeploySpec == DeployInit /\ [][DeployNext]_deployVars

-----------------------------------------------------------------------------
(* Properties.                                                             *)

\* A stopped Master stays stopped until a command starts it (deploy.py:997-998
\* and 1005-1006), and a setup that failed after it ran the task has stopped it
\* again: no process of Master runs on any port, or will, through a boot or a
\* restart on failure that comes in before, between or after the steps.  This
\* is so when /DISABLE worked and no process was overlooked; the message says
\* it in the other cases, too.
StoppedStays == stopped /\ task # "enabled" /\ slips = {} => Running = {}

\* A command that succeeds leaves Master on the port it has saved, in .env and
\* in the public file, with the task enabled: a restart on failure that came in
\* between has not put the task on the port that was left.  The last part needs
\* that no process that did not listen yet has survived /End.
SuccessServes ==
    cmd.todo = <<>> /\ cmd.mode = "main" /\ cmd.name \in {"start", "setup", "update"} =>
       /\ task = "enabled"
       /\ portFile = env.web
       /\ "unseen" \notin slips => {starting, server} \subseteq {env.web, NoPort}

\* A change of port while the tailnet is offline leaves a route that Start and
\* Stop still know as their own, thanks to SETUORA_PREVIOUS_WEB_PORT.
RouteKnown == moves <= 1 => route \in OwnTargets \cup {NoPort}

-----------------------------------------------------------------------------
(* The inductive invariant of the proofs in OperationsProofs.  What a      *)
(* command has still to do says what it has done: a position in a command  *)
(* is the number of steps that are left.                                   *)

Task    == {"missing", "disabled", "enabled"}
AnyPort == Port \cup {NoPort}
Name    == {"none", "setup", "start", "stop", "update"}
Mode    == {"main", "cleanup", "repair", "aborted"}

Ends(s) == {SubSeq(s, i, Len(s)) : i \in 1..(Len(s) + 1)}

\* Setup from the stop of an installed task on, and Trust's restart.
SetupAgain == StopSteps \o AfterSetup
Again      == <<"end", "waitStop", "run", "health", "serve", "verify", "forget", "address">>

\* What is left of a command that is to leave Master running.
First   == Ends(UpdateSteps) \cup Ends(SetupAgain)
Forward == First \cup Ends(Again)

DeployTypeOK ==
    /\ env \in [web : Port, prev : AnyPort, trusted : BOOLEAN, address : BOOLEAN, backups : BOOLEAN]
    /\ portFile \in Port
    /\ task \in Task /\ pending \in BOOLEAN
    /\ starting \in AnyPort /\ server \in AnyPort /\ NoPort \in {starting, server}
    /\ orphans \in SUBSET Port /\ adrift \in SUBSET Port
    /\ route \in AnyPort
    /\ online \in BOOLEAN /\ busy \in SUBSET Port
    /\ cmd \in [name : Name, todo : Forward \cup Ends(SetupSteps) \cup Ends(StopSteps),
                mode : Mode, existing : BOOLEAN, ran : BOOLEAN]
    /\ stopped \in BOOLEAN /\ slips \in SUBSET Overlooked /\ moves \in 0..2

\* Which steps a command can have before it.
OnTrack ==
    /\ cmd.name = "none" => cmd = NoCmd
    /\ cmd.mode = "aborted" => cmd.todo = <<>>
    /\ cmd.mode = "cleanup" => cmd.name = "setup"
    /\ cmd.name = "stop" => cmd.mode \in {"main", "aborted"}
    /\ cmd.name = "stop" \/ cmd.mode = "cleanup" => cmd.todo \in Ends(StopSteps)
    /\ cmd.name # "stop" /\ cmd.mode \in {"main", "repair"} =>
          cmd.todo \in Forward \cup (Ends(SetupSteps) \ {<<>>})
    /\ cmd.todo \in Ends(SetupSteps) \ {<<>>} => cmd.name = "setup" /\ cmd.mode = "main"

Left == Len(cmd.todo)

\* What was not overlooked runs for the saved port.
InSight ==
    /\ "unseen" \notin slips => adrift = {}
    /\ slips = {} => Running \subseteq {env.web}

Stopping == (cmd.name = "stop" /\ cmd.mode = "main") \/ cmd.mode = "cleanup"

\* A stop that is under way has disabled the task, ended the process and
\* released the port, in this order; a stop that is over stays in force.
StopInForce ==
    /\ stopped => cmd.name \in {"none", "stop"}
    /\ stopped /\ cmd.name = "stop" => task # "enabled"
    /\ stopped /\ task # "enabled" /\ slips = {} => Running = {}
    /\ Stopping /\ task # "enabled" /\ slips = {} =>
          /\ Left <= 1 => starting = NoPort
          /\ Left = 0 => Running = {}

\* A start that is under way: the port is selected, written to the public
\* file and served, in this order.  From the selection of the port until the
\* server answers, what answers on it can only be the task's process.
StartInForce ==
    cmd.mode = "main" /\ cmd.name \in {"start", "setup", "update"} /\ cmd.todo \in Forward =>
       /\ Left <= 8 => task = "enabled"
       /\ Left <= 10 /\ ~At("portFile") => portFile = env.web
       /\ "unseen" \notin slips =>
             /\ (cmd.todo \in First /\ Left \in 7..11 /\ ~At("select")) => env.web \notin orphans
             /\ (Left <= 6 \/ cmd.todo \in Ends(Again)) => {starting, server} \subseteq {env.web, NoPort}

\* The previous port is forgotten only once the route was set.
RouteFollows ==
    /\ moves = 0 => route \in {env.web, NoPort}
    /\ moves = 1 => route \in {env.web, env.prev, NoPort}
    /\ At("verify") \/ At("forget") => moves = 0

DeployInv == DeployTypeOK /\ OnTrack /\ InSight /\ StopInForce /\ StartInForce /\ RouteFollows
=============================================================================
