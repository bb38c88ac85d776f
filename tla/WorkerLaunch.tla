---------------------------- MODULE WorkerLaunch ----------------------------
(***************************************************************************)
(* The execution environment: how the caretaker starts workers on another  *)
(* host (cmd/controller: execution_environment.go, ssh_transport.go,       *)
(* callback_tunnel.go, runtime.go, the schedulers).                        *)
(*                                                                         *)
(* A launch prepares the transport, the callback tunnel and the runtime    *)
(* directory, and submits one job per worker.  One goroutine launches; the *)
(* connection may be lost under it at any time, and the jobs of earlier    *)
(* launches read their files while it replaces them.                       *)
(***************************************************************************)
EXTENDS Naturals, FiniteSets

CONSTANTS Jobs,          \* the workers that may be started
          None,
          MaxLaunches,   \* bound: calls of startConfiguredWorkers
          MaxLosses      \* bound: connections lost

VARIABLES cfg,           \* the configuration of the environment
          pc,            \* the step of the launch and what it is about
          client,        \* SSH connection to the target: None, "up" or "dead"
          hop,           \* SSH connection to the jump host it goes through
          listener,      \* of the tunnel: None, "open" or "dead"
          relayPID,      \* the relay process the tunnel knows of: None or the launch it is of
          relays,        \* relay processes running on the target
          orphans,       \* those of which a command to start or to kill them has failed
          file,          \* of each file on the target: None, "torn" or "whole"
          mode,          \* of the worker artifact: "0644" or "0755"
          temp,          \* files of which a temporary copy is on the target
          job,           \* of each job: "none", "started", "running" or "broken"
          by,            \* of each job: the launch that submitted it
          launches, losses

conn == <<client, hop>>
tunnel == <<listener, relayPID, relays, orphans>>
files == <<file, mode, temp>>
jobs == <<job, by>>
vars == <<cfg, pc, conn, tunnel, files, jobs, launches, losses>>

Files == {"relay", "config", "artifact", "script"}

(* What a launch depends on.  The settings that make every launch fail in  *)
(* the same way, or none be accepted, are left out.                        *)
Configs ==
    [transport : {"local", "docker", "ssh"},
     jumpHost : BOOLEAN,                               \* jump_hosts has an entry
     scheduler : {"direct_process", "remote_process", "slurm"},
     artifact : BOOLEAN,                               \* local_worker_artifact is set
     url : BOOLEAN,                                    \* controller_url is
     tunnel : {None, "target", "jump_hosts[0]"},       \* bind_hop
     relay : BOOLEAN]

(* The transport a tunnel names has to be an SSH transport.                *)
newCallbackTunnelFromConfig(c) == c.tunnel # None => c.transport = "ssh"

(* Settings without a meaning in a configuration have one value there.     *)
Sensible(c) ==
    /\ c.transport # "ssh" => ~c.jumpHost
    /\ c.tunnel = None => ~c.relay
    /\ c.tunnel = "jump_hosts[0]" => c.jumpHost

Idle == <<"idle", None>>
Exec(command) == <<"exec", command>>

Init ==
    /\ cfg \in {c \in Configs : Sensible(c) /\ newCallbackTunnelFromConfig(c)}
    /\ pc = Idle
    /\ client = None /\ hop = None
    /\ listener = None /\ relayPID = None /\ relays = {} /\ orphans = {}
    /\ file = [f \in Files |-> None] /\ mode = "0644" /\ temp = {}
    /\ job = [j \in Jobs |-> "none"] /\ by = [j \in Jobs |-> 0]
    /\ launches = 0 /\ losses = 0

-----------------------------------------------------------------------------
(* When its connection goes away, Accept fails and serve returns; the      *)
(* tunnel keeps its listener.                                              *)
serveEnds == IF listener = "open" THEN "dead" ELSE listener

(* Connect closes what is connected and dials the jump host, then the      *)
(* target through it; a failure leaves nothing connected.                  *)
Connect(succeeds) ==
    /\ client' = IF succeeds THEN "up" ELSE None
    /\ hop' = IF succeeds /\ cfg.jumpHost THEN "up" ELSE None
    /\ listener' = serveEnds

(* SSHTransport.Prepare connects when there is no client, dead or alive.   *)
MustConnect == client = None

(* The order of a launch: transport, tunnel, directories, worker config,   *)
(* worker artifact, then script and submission of each job.                *)
NextJob == IF cfg.scheduler = "direct_process" THEN Exec("submit") ELSE <<"copy", "script">>
AfterConfig == IF cfg.artifact THEN <<"copy", "artifact">> ELSE NextJob
AfterDirs == IF cfg.url THEN <<"copy", "config">> ELSE AfterConfig
AfterTunnel == Exec("mkdir")
AfterTransport == IF cfg.tunnel # None THEN <<"tunnel", None>> ELSE AfterTunnel

(* startConfiguredWorkers derives the launch configuration and calls       *)
(* ExecutionEnvironment.Prepare, which begins with the transport.          *)
startConfiguredWorkers ==
    /\ pc = Idle /\ launches < MaxLaunches
    /\ launches' = launches + 1
    /\ \E succeeds \in BOOLEAN :
          /\ pc' = IF succeeds THEN AfterTransport ELSE Idle
          /\ IF cfg.transport = "ssh" /\ MustConnect THEN Connect(succeeds) ELSE UNCHANGED <<conn, listener>>
    /\ UNCHANGED <<cfg, relayPID, relays, orphans, files, jobs, losses>>

(* Faulty: a listener that has ended is replaced.                          *)
TunnelServes == listener = "open"

(* A listener is kept, whether or not it still accepts.                    *)
TunnelStarted == listener # None

(* SSHReverseCallbackTunnel.Start has nothing to do when there is a        *)
(* listener.  Listen may be denied.                                        *)
Start ==
    /\ pc = <<"tunnel", None>>
    /\ \/ TunnelStarted /\ pc' = AfterTunnel /\ UNCHANGED listener
       \/ /\ ~TunnelStarted
          /\ "up" = IF cfg.tunnel = "target" THEN client ELSE hop
          /\ listener' = "open"
          /\ pc' = IF cfg.relay THEN <<"copy", "relay">> ELSE AfterTunnel
       \/ ~TunnelStarted /\ pc' = Idle /\ UNCHANGED listener
    /\ UNCHANGED <<cfg, conn, relayPID, relays, orphans, files, jobs, launches, losses>>

-----------------------------------------------------------------------------
(* The operations of a transport: copies, which write and then finish, and *)
(* commands.                                                               *)
Using == pc[1] \in {"copy", "write", "exec"}
Usable == cfg.transport # "ssh" \/ client = "up"

(* An error ends the launch.  In the tunnel's start it closes the tunnel,  *)
(* and killing the relay goes on with closing the listener.                *)
OnError ==
    CASE pc[2] \in {"relay", "chmodRelay", "startRelay"} -> <<"close tunnel", None>>
      [] pc[2] = "killRelay" -> <<"close listener", None>>
      [] OTHER -> Idle

(* A session cannot be opened, on a dead connection or because the server  *)
(* refuses it, and the transport connects anew.                            *)
reconnect ==
    /\ cfg.transport = "ssh" /\ pc[1] \in {"copy", "exec"} /\ client # None
    /\ \E succeeds \in BOOLEAN : Connect(succeeds) /\ pc' = IF succeeds THEN pc ELSE OnError
    /\ orphans' = IF pc' # pc /\ pc = Exec("killRelay") THEN orphans \cup {relayPID} ELSE orphans
    /\ UNCHANGED <<cfg, relayPID, relays, files, jobs, launches, losses>>

(* LocalTransport.Copy truncates the destination, or makes a new file; so  *)
(* does docker cp, which gives it the mode of the source.                  *)
CopyInPlace(f) ==
    /\ file' = [file EXCEPT ![f] = "torn"]
    /\ IF f # "artifact" \/ (cfg.transport = "local" /\ file[f] # None)
       THEN UNCHANGED mode
       ELSE mode' \in IF cfg.transport = "local" THEN {"0644"} ELSE {"0644", "0755"}
    /\ UNCHANGED temp

(* SSHTransport.Copy writes a temporary file beside the destination ...    *)
CopyToTemp(f) == temp' = temp \cup {f} /\ UNCHANGED <<file, mode>>

(* uploadWorkerArtifact leaves a local artifact that is the same already.  *)
sameLocalFileContent(f) == f = "artifact" /\ cfg.transport = "local" /\ file[f] = "whole"

(* Faulty: the mode is taken to be right as well.                          *)
SkipChmod == NextJob

(* Copied or not, the artifact is made executable.                         *)
AfterSame == Exec("chmodArtifact")

Copied == [relay |-> Exec("chmodRelay"), config |-> AfterConfig,
           artifact |-> Exec("chmodArtifact"), script |-> Exec("submit")]

Copy ==
    /\ pc[1] = "copy" /\ Usable
    /\ LET f == pc[2]
       IN  IF sameLocalFileContent(f)
           THEN pc' = AfterSame /\ UNCHANGED files
           ELSE /\ pc' = <<"write", f>>
                /\ IF cfg.transport = "ssh" THEN CopyToTemp(f) ELSE CopyInPlace(f)
    /\ UNCHANGED <<cfg, conn, tunnel, jobs, launches, losses>>

(* ... and renames it when it is complete: a new file, with the mode of    *)
(* one.                                                                    *)
PosixRename ==
    /\ pc[1] = "write" /\ Usable
    /\ file' = [file EXCEPT ![pc[2]] = "whole"]
    /\ temp' = temp \ {pc[2]}
    /\ mode' = IF cfg.transport = "ssh" /\ pc[2] = "artifact" THEN "0644" ELSE mode
    /\ pc' = Copied[pc[2]]
    /\ UNCHANGED <<cfg, conn, tunnel, jobs, launches, losses>>

(* Any operation may fail.  The temporary file is removed where that still *)
(* works; a file being written in place stays as it is.                    *)
OperationFails ==
    /\ Using
    /\ temp' = IF Usable THEN temp \ {pc[2]} ELSE temp
    /\ orphans' = IF pc = Exec("killRelay") THEN orphans \cup {relayPID} ELSE orphans
    /\ pc' = OnError
    /\ UNCHANGED <<cfg, conn, listener, relayPID, relays, file, mode, jobs, launches, losses>>

(* Exec: the command takes effect and its answer arrives, or is lost with  *)
(* the connection or by the command timeout.                               *)
startRelay(answered) ==
    /\ pc = Exec("startRelay") /\ Usable
    /\ relays' = relays \cup {launches}
    /\ IF answered
       THEN relayPID' = launches /\ pc' = AfterTunnel /\ UNCHANGED orphans
       ELSE orphans' = orphans \cup {launches} /\ pc' = OnError /\ UNCHANGED relayPID
    /\ UNCHANGED <<cfg, conn, listener, files, jobs, launches, losses>>

killRelay ==
    /\ pc = Exec("killRelay") /\ Usable
    /\ relays' = relays \ {relayPID}
    /\ pc' = <<"close listener", None>>
    /\ UNCHANGED <<cfg, conn, listener, relayPID, orphans, files, jobs, launches, losses>>

Submit(answered) ==
    /\ pc = Exec("submit") /\ Usable
    /\ \E j \in Jobs : /\ job[j] = "none"
                       /\ job' = [job EXCEPT ![j] = "started"] /\ by' = [by EXCEPT ![j] = launches]
    /\ pc' \in IF answered THEN {NextJob, Idle} ELSE {OnError}
    /\ UNCHANGED <<cfg, conn, tunnel, files, launches, losses>>

(* The commands without another effect.                                    *)
Commands == [mkdir |-> AfterDirs, chmodArtifact |-> NextJob, chmodRelay |-> Exec("startRelay")]

execCommand(answered) ==
    /\ pc[1] = "exec" /\ pc[2] \in DOMAIN Commands /\ Usable
    /\ pc' = IF answered THEN Commands[pc[2]] ELSE OnError
    /\ mode' = IF pc[2] = "chmodArtifact" THEN "0755" ELSE mode
    /\ UNCHANGED <<cfg, conn, tunnel, file, temp, jobs, launches, losses>>

-----------------------------------------------------------------------------
(* SSHReverseCallbackTunnel.Close when Start has failed: there is no relay *)
(* it knows of.                                                            *)
CloseTunnel ==
    /\ pc = <<"close tunnel", None>>
    /\ pc' = Idle /\ listener' = None
    /\ UNCHANGED <<cfg, conn, relayPID, relays, orphans, files, jobs, launches, losses>>

(* ExecutionEnvironment.Close, after the caretaker has ended: the tunnel   *)
(* first, which kills its relay with a command ...                         *)
Close ==
    /\ pc = Idle
    /\ pc' = IF relayPID # None THEN Exec("killRelay") ELSE <<"close listener", None>>
    /\ UNCHANGED <<cfg, conn, tunnel, files, jobs, launches, losses>>

(* ... then the transports.                                                *)
CloseTransports ==
    /\ pc = <<"close listener", None>>
    /\ pc' = <<"closed", None>>
    /\ listener' = None /\ relayPID' = None /\ client' = None /\ hop' = None
    /\ UNCHANGED <<cfg, relays, orphans, files, jobs, launches, losses>>

(* The connection to the target, or to the jump host and so to the target, *)
(* is lost.                                                                *)
Loss ==
    /\ losses < MaxLosses /\ client = "up"
    /\ losses' = losses + 1
    /\ client' = "dead"
    /\ \/ UNCHANGED hop /\ listener' = IF cfg.tunnel = "target" THEN serveEnds ELSE listener
       \/ hop = "up" /\ hop' = "dead" /\ listener' = serveEnds
    /\ UNCHANGED <<cfg, pc, relayPID, relays, orphans, files, jobs, launches>>

(* What a job finds when it starts: the worker's configuration, the        *)
(* executable, and its script unless that was read when it was submitted.  *)
Found ==
    /\ cfg.url => file["config"] = "whole"
    /\ cfg.artifact => file["artifact"] = "whole" /\ mode = "0755"
    /\ cfg.scheduler = "remote_process" => file["script"] = "whole"

(* External: a worker starts, at once or when the cluster gets to it.      *)
WorkerStarts(j) ==
    /\ job[j] = "started"
    /\ job' = [job EXCEPT ![j] = IF Found THEN "running" ELSE "broken"]
    /\ UNCHANGED <<cfg, pc, conn, tunnel, files, by, launches, losses>>

Next ==
    \/ startConfiguredWorkers \/ Start \/ reconnect \/ Copy \/ PosixRename \/ OperationFails
    \/ \E answered \in BOOLEAN : execCommand(answered) \/ startRelay(answered) \/ Submit(answered)
    \/ killRelay \/ CloseTunnel \/ Close \/ CloseTransports \/ Loss
    \/ \E j \in Jobs : WorkerStarts(j)

Spec == Init /\ [][Next]_vars
-----------------------------------------------------------------------------
(* A worker that cannot start has been overtaken: a launch submits a job   *)
(* only when all it reads is in place and executable, whatever earlier     *)
(* launches left half done, and leaves it so.  A later launch may take it  *)
(* away: it replaces the artifact first and makes it executable then.      *)
(* Where scripts are overwritten in place the next job of the same launch  *)
(* does.                                                                   *)
FailsOnlyOvertaken ==
    \A j \in Jobs : job[j] = "broken" /\ by[j] = launches =>
        cfg.transport # "ssh" /\ cfg.scheduler = "remote_process"

(* Every relay on the target is the one that Close will kill, or a command *)
(* about it has failed: the tunnel loses its connection and its listener,  *)
(* but not its relay.                                                      *)
RelaysAccounted == relays \subseteq orphans \cup {relayPID}
============================================================================
