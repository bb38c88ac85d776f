---------------------------- MODULE LaunchProofs ----------------------------
(***************************************************************************)
(* Launches: a worker that cannot start has been overtaken by another, and *)
(* no relay is forgotten.  For any number of jobs, launches and lost       *)
(* connections, and any configuration.                                     *)
(***************************************************************************)
EXTENDS WorkerLaunch, TLAPS

Steps ==
    ({"copy", "write"} \X Files)
    \cup ({"exec"} \X {"mkdir", "chmodArtifact", "chmodRelay", "startRelay", "submit", "killRelay"})
    \cup ({"idle", "tunnel", "close tunnel", "close listener", "closed"} \X {None})

LaunchTypes ==
    /\ pc \in Steps
    /\ launches \in Nat
    /\ DOMAIN file = Files
    /\ DOMAIN job = Jobs /\ by \in [Jobs -> Nat]

(* The configuration and the artifact are as a worker needs them.          *)
ConfigReady == cfg.url => file["config"] = "whole"
ArtifactReady == cfg.artifact => file["artifact"] = "whole" /\ mode = "0755"

(* The launch is over, or has come to its jobs.                            *)
Finished == pc[1] \in {"idle", "close listener", "closed"} \/ pc[2] = "killRelay"
AtJobs == pc[2] \in {"script", "submit"}

(* What the steps of a launch have put in place by the time they are over. *)
PutInPlace ==
    /\ pc[2] \in {"artifact", "chmodArtifact"} => ConfigReady
    /\ pc[2] = "chmodArtifact" => file["artifact"] = "whole"
    /\ AtJobs => ConfigReady /\ ArtifactReady
    /\ pc[2] = "submit" /\ cfg.scheduler = "remote_process" => file["script"] = "whole"

(* What a job of the latest launch, if it has not started, will find.      *)
JobsServed ==
    \A j \in Jobs :
        /\ by[j] <= launches
        /\ job[j] = "started" /\ by[j] = launches =>
             /\ Finished \/ AtJobs
             /\ ConfigReady /\ ArtifactReady
             /\ cfg.transport = "ssh" /\ cfg.scheduler = "remote_process" => file["script"] = "whole"

JobInv == PutInPlace /\ JobsServed /\ FailsOnlyOvertaken

(* A tunnel without a listener knows of no relay, and neither does one     *)
(* that is being started, which has a listener.                            *)
RelayInv ==
    /\ relays \subseteq Nat
    /\ RelaysAccounted
    /\ listener = None => relayPID = None
    /\ pc[2] \in {"relay", "chmodRelay", "startRelay"} \/ pc[1] = "close tunnel" => relayPID = None
    /\ pc[2] \in {"relay", "chmodRelay", "startRelay"} => listener # None
    /\ pc[1] = "close listener" => relays \subseteq orphans

(* No value is told apart from an absent one.                              *)
NoneIsNoValue ==
    /\ None \notin Nat
    /\ None \notin {"open", "dead"}
    /\ None \notin Files \cup {"mkdir", "chmodArtifact", "chmodRelay", "startRelay", "submit", "killRelay"}
-----------------------------------------------------------------------------
(* Nothing is copied or started at first.                                  *)
LEMMA InitLaunch == ASSUME NoneIsNoValue, Init PROVE LaunchTypes /\ JobInv /\ RelayInv
<1>1. pc[1] = "idle" /\ pc[2] = None /\ pc \in Steps
  BY Zenon DEF Init, Idle, Steps
<1>2. LaunchTypes
  BY Zenon, <1>1 DEF Init, LaunchTypes
<1>3. pc[2] \notin {"artifact", "chmodArtifact", "script", "submit", "relay", "chmodRelay", "startRelay"}
  BY Zenon, <1>1 DEF NoneIsNoValue, Files
<1>4. PutInPlace
  BY Zenon, <1>3 DEF PutInPlace, AtJobs
<1>5. \A j \in Jobs : by[j] <= launches /\ job[j] = "none"
  BY SMT DEF Init
<1>6. JobsServed /\ FailsOnlyOvertaken
  BY Zenon, <1>5 DEF JobsServed, FailsOnlyOvertaken
<1>7. RelayInv
  BY Zenon, <1>1, <1>3 DEF Init, RelayInv, RelaysAccounted
<1> QED
  BY Zenon, <1>2, <1>4, <1>6, <1>7 DEF JobInv

(* A step is about a file when it copies, and about a command when it      *)
(* waits for one.                                                          *)
LEMMA AboutFile ==
    ASSUME pc \in Steps, pc[1] \in {"copy", "write"}
    PROVE  pc[2] \in Files
<1>1. pc \notin {"exec"} \X {"mkdir", "chmodArtifact", "chmodRelay", "startRelay", "submit", "killRelay"}
  BY Zenon
<1>2. pc \notin {"idle", "tunnel", "close tunnel", "close listener", "closed"} \X {None}
  BY Zenon
<1>3. pc \in {"copy", "write"} \X Files
  BY Zenon, <1>1, <1>2 DEF Steps
<1> QED
  BY Zenon, <1>3

(* The other steps are about nothing.                                     *)
LEMMA AboutNone ==
    ASSUME pc \in Steps, pc[1] \in {"idle", "tunnel", "close tunnel", "close listener", "closed"}
    PROVE  pc[2] = None
<1>1. pc \notin {"exec"} \X {"mkdir", "chmodArtifact", "chmodRelay", "startRelay", "submit", "killRelay"}
  BY Zenon
<1>2. pc \notin {"copy", "write"} \X Files
  BY Zenon
<1> QED
  BY Zenon, <1>1, <1>2 DEF Steps

(* Where a launch goes on.                                                 *)
LEMMA Onward ==
    /\ NextJob \in Steps /\ NextJob[2] \in {"script", "submit"}
    /\ NextJob[2] = "submit" => cfg.scheduler = "direct_process"
    /\ NextJob[1] \in {"copy", "exec"}
<1>1. (NextJob = Exec("submit") /\ cfg.scheduler = "direct_process") \/ NextJob = <<"copy", "script">>
  BY Zenon DEF NextJob
<1>2. CASE NextJob = Exec("submit") /\ cfg.scheduler = "direct_process"
  BY Zenon, <1>2 DEF Exec, Steps
<1>3. CASE NextJob = <<"copy", "script">>
  BY Zenon, <1>3 DEF Steps, Files
<1> QED
  BY Zenon, <1>1, <1>2, <1>3

(* A step that waits for a command is about it.                            *)
LEMMA Executing ==
    \A c \in {"mkdir", "chmodArtifact", "chmodRelay", "startRelay", "submit", "killRelay"} :
        Exec(c) \in Steps /\ Exec(c)[1] = "exec" /\ Exec(c)[2] = c
BY Zenon DEF Exec, Steps

(* Where an error leads.                                                   *)
LEMMA Ending ==
    /\ OnError \in Steps /\ OnError[2] = None /\ OnError[1] \in {"idle", "close tunnel", "close listener"}
    /\ OnError[1] = "close tunnel" => pc[2] \in {"relay", "chmodRelay", "startRelay"}
    /\ OnError[1] = "close listener" => pc[2] = "killRelay"
    /\ Idle \in Steps /\ Idle[1] = "idle" /\ Idle[2] = None
<1>1. \/ OnError = <<"close tunnel", None>> /\ pc[2] \in {"relay", "chmodRelay", "startRelay"}
      \/ OnError = <<"close listener", None>> /\ pc[2] = "killRelay"
      \/ OnError = Idle
  BY Zenon DEF OnError
<1>2. \A label \in {"idle", "close tunnel", "close listener"} :
         <<label, None>> \in Steps /\ <<label, None>>[1] = label /\ <<label, None>>[2] = None
  BY Zenon DEF Steps
<1> QED
  BY Zenon, <1>1, <1>2 DEF Idle
-----------------------------------------------------------------------------
(* A step that touches no file and no job, and comes to no copy of the     *)
(* artifact and to no job.                                                 *)
LEMMA JobsUntouched ==
    ASSUME JobInv, UNCHANGED <<cfg, file, mode, job, by, launches>>,
           pc'[2] \notin {"artifact", "chmodArtifact", "script", "submit"},
           Finished \/ AtJobs => Finished'
    PROVE  JobInv'
<1>1. PutInPlace'
  BY Zenon DEF PutInPlace, AtJobs
<1>2. JobsServed'
  BY Zenon DEF JobInv, JobsServed, ConfigReady, ArtifactReady
<1>3. FailsOnlyOvertaken'
  BY Zenon DEF JobInv, FailsOnlyOvertaken
<1> QED
  BY Zenon, <1>1, <1>2, <1>3 DEF JobInv

(* A step that touches nothing the invariant speaks of.                    *)
LEMMA Untouched ==
    ASSUME LaunchTypes, JobInv, UNCHANGED <<cfg, pc, file, mode, job, by, launches>>
    PROVE  LaunchTypes' /\ JobInv'
<1>1. LaunchTypes'
  BY Zenon DEF LaunchTypes
<1>2. PutInPlace'
  BY Zenon DEF JobInv, PutInPlace, AtJobs, ConfigReady, ArtifactReady
<1>3. JobsServed'
  BY Zenon DEF JobInv, JobsServed, ConfigReady, ArtifactReady, Finished, AtJobs
<1>4. FailsOnlyOvertaken'
  BY Zenon DEF JobInv, FailsOnlyOvertaken
<1> QED
  BY Zenon, <1>1, <1>2, <1>3, <1>4 DEF JobInv

(* No relay is started, killed or forgotten by a step that does not come   *)
(* to the relay or to the end.                                             *)
LEMMA RelaysUntouched ==
    ASSUME RelayInv, UNCHANGED <<relayPID, relays, orphans>>,
           listener' = None => listener = None \/ relayPID = None,
           pc'[2] \in {"relay", "chmodRelay", "startRelay"} \/ pc'[1] = "close tunnel" => relayPID = None,
           pc'[2] \in {"relay", "chmodRelay", "startRelay"} => listener' # None,
           pc'[1] = "close listener" => relays \subseteq orphans
    PROVE  RelayInv'
BY Zenon DEF RelayInv, RelaysAccounted

(* An error in a step that uses the transport.                             *)
LEMMA ErrorEnds ==
    ASSUME NoneIsNoValue, LaunchTypes, JobInv, Using, pc' = OnError,
           UNCHANGED <<cfg, file, mode, job, by, launches>>
    PROVE  LaunchTypes' /\ JobInv'
<1>1. LaunchTypes'
  BY Zenon, Ending DEF LaunchTypes
<1>2. pc'[2] \notin {"artifact", "chmodArtifact", "script", "submit"}
  BY Zenon, Ending DEF NoneIsNoValue, Files
<1>3. Finished \/ AtJobs => pc[2] \notin {"relay", "chmodRelay", "startRelay"}
  BY Zenon DEF Finished, AtJobs, Using
<1>4. Finished \/ AtJobs => Finished'
  BY Zenon, <1>3, Ending DEF Finished
<1> QED
  BY Zenon, <1>1, <1>2, <1>4, JobsUntouched

(* A transport closes a connection with its listener, and keeps both for   *)
(* what they are.                                                          *)
LEMMA ListenerStays == ASSUME NoneIsNoValue, NEW s \in BOOLEAN, Connect(s) PROVE listener' = None => listener = None
BY Zenon DEF Connect, serveEnds, NoneIsNoValue

(* A new launch is preceded by every job.                                  *)
LEMMA LaunchKeeps ==
    ASSUME NoneIsNoValue, LaunchTypes, JobInv, RelayInv, startConfiguredWorkers
    PROVE  LaunchTypes' /\ JobInv' /\ RelayInv'
<1>1. pc' \in {<<"tunnel", None>>, Exec("mkdir"), Idle}
  BY Zenon DEF startConfiguredWorkers, AfterTransport, AfterTunnel
<1>2. <<"tunnel", None>> \in Steps /\ <<"tunnel", None>>[1] = "tunnel" /\ <<"tunnel", None>>[2] = None
  BY Zenon DEF Steps
<1>3. pc' \in Steps /\ pc'[1] \in {"tunnel", "exec", "idle"} /\ pc'[2] \in {"mkdir", None}
  <2>1. Exec("mkdir") \in Steps /\ Exec("mkdir")[1] = "exec" /\ Exec("mkdir")[2] = "mkdir"
    BY Zenon, Executing
  <2> QED
    BY Zenon, <1>1, <1>2, <2>1, Ending
<1>4. pc'[2] \notin {"artifact", "chmodArtifact", "script", "submit", "relay", "chmodRelay", "startRelay"}
  BY Zenon, <1>3 DEF NoneIsNoValue, Files
<1>5. UNCHANGED <<cfg, file, mode, job, by, relayPID, relays, orphans>> /\ launches' = launches + 1
  BY Zenon DEF startConfiguredWorkers, files, jobs
<1>6. LaunchTypes'
  <2>1. launches' \in Nat
    BY SMT, <1>5 DEF LaunchTypes
  <2> QED
    BY Zenon, <1>3, <1>5, <2>1 DEF LaunchTypes
<1>7. PutInPlace'
  BY Zenon, <1>4 DEF PutInPlace, AtJobs
<1>8. \A j \in Jobs : by'[j] <= launches' /\ by'[j] # launches'
  <2>1. \A j \in Jobs : by[j] \in Nat /\ by[j] <= launches
    BY Zenon DEF LaunchTypes, JobInv, JobsServed
  <2> QED
    BY SMT, <1>5, <2>1 DEF LaunchTypes
<1>9. JobsServed' /\ FailsOnlyOvertaken'
  BY Zenon, <1>8 DEF JobsServed, FailsOnlyOvertaken
<1>10. listener' = None => listener = None
  BY Zenon, ListenerStays DEF startConfiguredWorkers
<1>11. RelayInv'
  BY Zenon, <1>3, <1>4, <1>5, <1>10, RelaysUntouched
<1> QED
  BY Zenon, <1>6, <1>7, <1>9, <1>11 DEF JobInv

(* A tunnel that knows of a relay has a listener, and is not started again *)
(* while it has one.                                                       *)
LEMMA StartKeeps ==
    ASSUME NoneIsNoValue, LaunchTypes, JobInv, RelayInv, Start
    PROVE  LaunchTypes' /\ JobInv' /\ RelayInv'
<1>1. UNCHANGED <<cfg, file, mode, job, by, launches, relayPID, relays, orphans>>
  BY Zenon DEF Start, files, jobs
<1>2. \/ pc' = Exec("mkdir") /\ (listener' = listener \/ listener' = "open")
      \/ pc' = <<"copy", "relay">> /\ listener = None /\ listener' = "open"
      \/ pc' = Idle /\ listener' = listener
  BY Zenon DEF Start, AfterTunnel, TunnelStarted
<1>3. <<"copy", "relay">> \in Steps /\ <<"copy", "relay">>[1] = "copy" /\ <<"copy", "relay">>[2] = "relay"
  BY Zenon DEF Steps, Files
<1>4. Exec("mkdir") \in Steps /\ Exec("mkdir")[1] = "exec" /\ Exec("mkdir")[2] = "mkdir"
  BY Zenon, Executing
<1>5. /\ pc' \in Steps /\ pc'[1] \in {"exec", "copy", "idle"} /\ pc'[2] \in {"mkdir", "relay", None}
      /\ listener' = None => listener = None
      /\ pc'[2] = "relay" => listener = None /\ listener' # None
  <2>1. CASE pc' = Exec("mkdir") /\ (listener' = listener \/ listener' = "open")
    BY Zenon, <2>1, <1>4 DEF NoneIsNoValue
  <2>2. CASE pc' = <<"copy", "relay">> /\ listener = None /\ listener' = "open"
    BY Zenon, <2>2, <1>3 DEF NoneIsNoValue
  <2>3. CASE pc' = Idle /\ listener' = listener
    BY Zenon, <2>3, Ending DEF NoneIsNoValue, Files
  <2> QED
    BY Zenon, <1>2, <2>1, <2>2, <2>3
<1>6. LaunchTypes'
  BY Zenon, <1>1, <1>5 DEF LaunchTypes
<1>7. ~(Finished \/ AtJobs)
  <2>1. pc[1] = "tunnel" /\ pc[2] = None
    BY Zenon DEF Start
  <2> QED
    BY Zenon, <2>1 DEF Finished, AtJobs, NoneIsNoValue, Files
<1>8. pc'[2] \notin {"artifact", "chmodArtifact", "script", "submit", "chmodRelay", "startRelay"}
  BY Zenon, <1>5 DEF NoneIsNoValue, Files
<1>9. JobInv'
  BY Zenon, <1>1, <1>7, <1>8, JobsUntouched
<1>10. RelayInv'
  <2>1. pc'[2] \in {"relay", "chmodRelay", "startRelay"} \/ pc'[1] = "close tunnel" => relayPID = None
    BY Zenon, <1>5, <1>8 DEF RelayInv
  <2> QED
    BY Zenon, <1>1, <1>5, <1>8, <2>1, RelaysUntouched
<1> QED
  BY Zenon, <1>6, <1>9, <1>10

(* A transport connects anew, or the operation fails.                      *)
LEMMA TransportKeeps ==
    ASSUME NoneIsNoValue, LaunchTypes, JobInv, RelayInv, reconnect \/ OperationFails
    PROVE  LaunchTypes' /\ JobInv' /\ RelayInv'
<1>1. UNCHANGED <<cfg, file, mode, job, by, launches, relayPID, relays>>
  BY Zenon DEF reconnect, OperationFails, files, jobs
<1>2. Using /\ (pc' = pc \/ pc' = OnError)
  BY Zenon DEF reconnect, OperationFails, Using
<1>3. listener' = None => listener = None
  BY Zenon, ListenerStays DEF reconnect, OperationFails
<1>4. LaunchTypes' /\ JobInv'
  BY Zenon, <1>1, <1>2, Untouched, ErrorEnds
<1>5. /\ orphans \subseteq orphans'
      /\ orphans' = orphans \/ pc[2] = "killRelay"
      /\ pc = Exec("killRelay") /\ pc' # pc => relayPID \in orphans'
  <2>1. pc = Exec("killRelay") => pc[2] = "killRelay"
    BY Zenon, Executing
  <2> QED
    BY Zenon, <2>1 DEF reconnect, OperationFails
<1>6. pc'[2] \in {"relay", "chmodRelay", "startRelay"} \/ pc'[1] = "close tunnel" => relayPID = None
  <2>1. CASE pc' = pc
    BY Zenon, <2>1 DEF RelayInv
  <2>2. CASE pc' = OnError
    <3>1. pc'[2] = None /\ (pc'[1] = "close tunnel" => pc[2] \in {"relay", "chmodRelay", "startRelay"})
      BY Zenon, <2>2, Ending
    <3> QED
      BY Zenon, <3>1 DEF RelayInv, NoneIsNoValue, Files
  <2> QED
    BY Zenon, <1>2, <2>1, <2>2
<1>7. pc'[1] = "close listener" => relays \subseteq orphans'
  <2>1. CASE pc' = pc
    BY Zenon, <2>1, <1>2 DEF Using
  <2>2. ASSUME pc' = OnError, pc' # pc, pc'[1] = "close listener" PROVE relays \subseteq orphans'
    <3>1. pc[2] = "killRelay"
      BY Zenon, <2>2, Ending
    <3>2. pc = Exec("killRelay")
      <4>1. pc \notin ({"copy", "write"} \X Files)
        BY Zenon, <3>1 DEF Files
      <4>2. pc \notin ({"idle", "tunnel", "close tunnel", "close listener", "closed"} \X {None})
        BY Zenon, <3>1 DEF NoneIsNoValue
      <4>3. pc \in {"exec"} \X {"mkdir", "chmodArtifact", "chmodRelay", "startRelay", "submit", "killRelay"}
        BY Zenon, <4>1, <4>2 DEF LaunchTypes, Steps
      <4> QED
        BY SMT, <3>1, <4>3 DEF Exec
    <3> QED
      BY Zenon, <2>2, <3>2, <1>5 DEF RelayInv, RelaysAccounted
  <2> QED
    BY Zenon, <1>2, <2>1, <2>2
<1>8. pc'[2] \in {"relay", "chmodRelay", "startRelay"} => listener' # None
  <2>1. CASE pc' = pc
    BY Zenon, <1>3, <2>1 DEF RelayInv
  <2>2. CASE pc' = OnError
    BY Zenon, <2>2, Ending DEF NoneIsNoValue, Files
  <2> QED
    BY Zenon, <1>2, <2>1, <2>2
<1>9. RelayInv'
  BY Zenon, <1>1, <1>3, <1>5, <1>6, <1>7, <1>8 DEF RelayInv, RelaysAccounted
<1> QED
  BY Zenon, <1>4, <1>9

(* A connection is lost.                                                   *)
LEMMA LossKeeps ==
    ASSUME NoneIsNoValue, LaunchTypes, JobInv, RelayInv, Loss
    PROVE  LaunchTypes' /\ JobInv' /\ RelayInv'
<1>1. UNCHANGED <<cfg, pc, file, mode, job, by, launches, relayPID, relays, orphans>>
  BY Zenon DEF Loss, files, jobs
<1>2. listener' = None => listener = None
  BY Zenon DEF Loss, serveEnds, NoneIsNoValue
<1>3. RelayInv'
  BY Zenon, <1>1, <1>2 DEF RelayInv, RelaysAccounted
<1> QED
  BY Zenon, <1>1, <1>3, Untouched

(* The tunnel is closed after a start that failed, and everything at the   *)
(* end.                                                                    *)
LEMMA CloseKeeps ==
    ASSUME NoneIsNoValue, LaunchTypes, JobInv, RelayInv, CloseTunnel \/ Close \/ CloseTransports
    PROVE  LaunchTypes' /\ JobInv' /\ RelayInv'
<1>1. UNCHANGED <<cfg, file, mode, job, by, launches, relays, orphans>>
  BY Zenon DEF CloseTunnel, Close, CloseTransports, files, jobs, tunnel
<1>2. \A label \in {"close listener", "closed"} :
         <<label, None>> \in Steps /\ <<label, None>>[1] = label /\ <<label, None>>[2] = None
  BY Zenon DEF Steps
<1>3. Exec("killRelay") \in Steps /\ Exec("killRelay")[1] = "exec" /\ Exec("killRelay")[2] = "killRelay"
  BY Zenon, Executing
<1>4. /\ pc' \in Steps /\ pc'[2] \in {None, "killRelay"} /\ pc'[1] # "close tunnel"
      /\ pc'[1] \in {"idle", "close listener", "closed"} \/ pc'[2] = "killRelay"
  <2>1. CASE CloseTunnel
    BY Zenon, <2>1, Ending DEF CloseTunnel
  <2>2. CASE Close
    BY Zenon, <2>2, <1>2, <1>3 DEF Close
  <2>3. CASE CloseTransports
    BY Zenon, <2>3, <1>2 DEF CloseTransports
  <2> QED
    BY Zenon, <2>1, <2>2, <2>3
<1>5. LaunchTypes'
  BY Zenon, <1>1, <1>4 DEF LaunchTypes
<1>6. JobInv'
  <2>1. pc'[2] \notin {"artifact", "chmodArtifact", "script", "submit"} /\ Finished'
    BY Zenon, <1>4 DEF NoneIsNoValue, Files, Finished
  <2> QED
    BY Zenon, <1>1, <2>1, JobsUntouched
<1>7. pc'[2] \notin {"relay", "chmodRelay", "startRelay"}
  BY Zenon, <1>4 DEF NoneIsNoValue, Files
<1>8. RelayInv'
  <2>1. CASE CloseTunnel
    <3>1. relayPID = None /\ relayPID' = None /\ pc'[1] = "idle"
      BY Zenon, <2>1, Ending DEF CloseTunnel, RelayInv
    <3> QED
      BY Zenon, <1>1, <1>4, <1>7, <3>1, RelaysUntouched
  <2>2. CASE Close
    <3>1. relayPID' = relayPID /\ listener' = listener
      BY Zenon, <2>2 DEF Close, tunnel
    <3>2. pc'[1] = "close listener" => relayPID = None
      BY Zenon, <2>2, <1>3 DEF Close
    <3>3. relayPID = None => relays \subseteq orphans
      BY Zenon DEF RelayInv, RelaysAccounted, NoneIsNoValue
    <3> QED
      BY Zenon, <1>1, <1>4, <1>7, <3>1, <3>2, <3>3, RelaysUntouched
  <2>3. CASE CloseTransports
    <3>1. relays \subseteq orphans /\ relayPID' = None /\ pc'[1] = "closed"
      BY Zenon, <2>3, <1>2 DEF CloseTransports, RelayInv
    <3> QED
      BY Zenon, <1>1, <1>7, <3>1 DEF RelayInv, RelaysAccounted
  <2> QED
    BY Zenon, <2>1, <2>2, <2>3
<1> QED
  BY Zenon, <1>5, <1>6, <1>8

(* The relay is started, and its process known or the command has failed;  *)
(* or it is killed.                                                        *)
LEMMA RelayKeeps ==
    ASSUME NoneIsNoValue, LaunchTypes, JobInv, RelayInv, NEW answered \in BOOLEAN,
           startRelay(answered) \/ killRelay
    PROVE  LaunchTypes' /\ JobInv' /\ RelayInv'
<1>1. UNCHANGED <<cfg, file, mode, job, by, launches, listener>>
  BY Zenon DEF startRelay, killRelay, files, jobs
<1>2. Exec("mkdir") \in Steps /\ Exec("mkdir")[1] = "exec" /\ Exec("mkdir")[2] = "mkdir"
  BY Zenon, Executing
<1>3. CASE startRelay(answered)
  <2>1. pc[1] = "exec" /\ pc[2] = "startRelay"
    BY Zenon, <1>3, Executing DEF startRelay
  <2>2. relayPID = None /\ Using
    BY Zenon, <2>1 DEF RelayInv, Using
  <2>3. relays \subseteq orphans /\ relays' = relays \cup {launches} /\ relays' \subseteq Nat
    BY Zenon, <1>3, <2>2 DEF startRelay, RelayInv, RelaysAccounted, NoneIsNoValue, LaunchTypes
  <2>4. CASE pc' = OnError /\ orphans' = orphans \cup {launches} /\ UNCHANGED relayPID
    <3>1. LaunchTypes' /\ JobInv'
      BY Zenon, <1>1, <2>2, <2>4, ErrorEnds
    <3>2. pc'[1] # "close listener"
      BY Zenon, <2>1, <2>4, Ending
    <3>3. RelayInv'
      <4>1. pc'[2] = None
        BY Zenon, <2>4, Ending
      <4> QED
        BY Zenon, <1>1, <2>2, <2>3, <2>4, <3>2, <4>1 DEF NoneIsNoValue, Files, RelayInv, RelaysAccounted
    <3> QED
      BY Zenon, <3>1, <3>3
  <2>5. CASE pc' = Exec("mkdir") /\ relayPID' = launches /\ UNCHANGED orphans
    <3>1. LaunchTypes'
      BY Zenon, <1>1, <1>2, <2>5 DEF LaunchTypes
    <3>2. pc'[2] = "mkdir" /\ ~(Finished \/ AtJobs)
      BY Zenon, <1>2, <2>1, <2>5 DEF Finished, AtJobs
    <3>3. JobInv'
      BY Zenon, <1>1, <3>2, JobsUntouched
    <3>4. listener # None
      BY Zenon, <2>1 DEF RelayInv
    <3>5. RelayInv'
      BY Zenon, <1>1, <1>2, <2>3, <2>5, <3>4 DEF RelayInv, RelaysAccounted
    <3> QED
      BY Zenon, <3>1, <3>3, <3>5
  <2> QED
    BY Zenon, <1>3, <2>4, <2>5 DEF startRelay, AfterTunnel
<1>4. CASE killRelay
  <2>1. pc' = <<"close listener", None>> /\ relays' = relays \ {relayPID} /\ UNCHANGED <<relayPID, orphans>>
    BY Zenon, <1>4 DEF killRelay
  <2>2. pc' \in Steps /\ pc'[1] = "close listener" /\ pc'[2] = None
    BY Zenon, <2>1 DEF Steps
  <2>3. pc'[2] \notin {"artifact", "chmodArtifact", "script", "submit", "relay", "chmodRelay", "startRelay"} /\ Finished'
    BY Zenon, <2>2 DEF NoneIsNoValue, Files, Finished
  <2>4. LaunchTypes'
    BY Zenon, <1>1, <2>2 DEF LaunchTypes
  <2>5. JobInv'
    BY Zenon, <1>1, <2>3, JobsUntouched
  <2>6. RelayInv'
    BY Zenon, <1>1, <2>1, <2>2, <2>3 DEF RelayInv, RelaysAccounted
  <2> QED
    BY Zenon, <2>4, <2>5, <2>6
<1> QED
  BY Zenon, <1>3, <1>4

(* A copy begins: beside the file it will replace, or in its place, which  *)
(* no job of this launch has read from but scripts.                        *)
LEMMA CopyKeeps ==
    ASSUME NoneIsNoValue, LaunchTypes, JobInv, RelayInv, Copy
    PROVE  LaunchTypes' /\ JobInv' /\ RelayInv'
<1>1. UNCHANGED <<cfg, job, by, launches, listener, relayPID, relays, orphans>>
  BY Zenon DEF Copy, jobs, tunnel
<1>2. pc[1] = "copy" /\ pc[2] \in Files
  BY Zenon, AboutFile DEF Copy, LaunchTypes
<1>3. Finished \/ AtJobs => pc[2] = "script"
  BY Zenon, <1>2 DEF Finished, AtJobs, Files
<1>4. CASE sameLocalFileContent(pc[2])
  <2>1. pc' = Exec("chmodArtifact") /\ UNCHANGED <<file, mode>> /\ pc[2] = "artifact" /\ file["artifact"] = "whole"
    BY Zenon, <1>4 DEF Copy, files, AfterSame, sameLocalFileContent
  <2>2. pc' \in Steps /\ pc'[1] = "exec" /\ pc'[2] = "chmodArtifact"
    BY Zenon, <2>1, Executing
  <2>3. PutInPlace'
    BY Zenon, <1>1, <2>1, <2>2 DEF JobInv, PutInPlace, AtJobs, ConfigReady
  <2>4. JobsServed' /\ FailsOnlyOvertaken'
    BY Zenon, <1>1, <1>3, <2>1 DEF JobInv, JobsServed, FailsOnlyOvertaken
  <2>5. LaunchTypes' /\ RelayInv'
    BY Zenon, <1>1, <2>1, <2>2, RelaysUntouched DEF LaunchTypes, RelayInv
  <2> QED
    BY Zenon, <2>3, <2>4, <2>5 DEF JobInv
<1>5. ASSUME pc' = <<"write", pc[2]>>, CopyToTemp(pc[2]) \/ (cfg.transport # "ssh" /\ CopyInPlace(pc[2]))
      PROVE  LaunchTypes' /\ JobInv' /\ RelayInv'
  <2>1. pc' \in Steps /\ pc'[1] = "write" /\ pc'[2] = pc[2]
    BY Zenon, <1>2, <1>5 DEF Steps
  <2>2. DOMAIN file' = Files /\ \A f \in Files \ {pc[2]} : file'[f] = file[f]
    BY Zenon, <1>5 DEF CopyToTemp, CopyInPlace, LaunchTypes
  <2>3. pc[2] # "artifact" => mode' = mode
    BY Zenon, <1>5 DEF CopyToTemp, CopyInPlace
  <2>4. cfg.transport = "ssh" => file' = file
    BY Zenon, <1>5 DEF CopyToTemp
  <2>5. LaunchTypes'
    BY Zenon, <1>1, <2>1, <2>2 DEF LaunchTypes
  <2>6. (pc[2] # "config" /\ ConfigReady => ConfigReady') /\ (pc[2] # "artifact" /\ ArtifactReady => ArtifactReady')
    BY Zenon, <1>1, <2>2, <2>3 DEF ConfigReady, ArtifactReady, Files
  <2>7. PutInPlace'
    BY Zenon, <1>1, <1>2, <2>1, <2>6 DEF JobInv, PutInPlace, AtJobs, Files
  <2>8. JobsServed'
    <3>1. AtJobs <=> AtJobs'
      BY Zenon, <2>1 DEF AtJobs
    <3>2. ASSUME NEW j \in Jobs, job[j] = "started", by[j] = launches
          PROVE  /\ AtJobs' /\ ConfigReady' /\ ArtifactReady'
                 /\ cfg.transport = "ssh" /\ cfg.scheduler = "remote_process" => file'["script"] = "whole"
      <4>1. pc[2] = "script"
        BY Zenon, <1>3, <3>2 DEF JobInv, JobsServed
      <4> QED
        BY Zenon, <3>1, <3>2, <4>1, <2>4, <2>6 DEF JobInv, JobsServed, AtJobs
    <3> QED
      BY Zenon, <1>1, <3>2 DEF JobInv, JobsServed
  <2>9. FailsOnlyOvertaken'
    BY Zenon, <1>1 DEF JobInv, FailsOnlyOvertaken
  <2>10. RelayInv'
    BY Zenon, <1>1, <2>1, RelaysUntouched DEF RelayInv
  <2> QED
    BY Zenon, <2>5, <2>7, <2>8, <2>9, <2>10 DEF JobInv
<1> QED
  BY Zenon, <1>4, <1>5 DEF Copy

(* Where a copy that is complete, and a command that is answered, lead.    *)
LEMMA CopiedLeads ==
    /\ Copied["relay"] = Exec("chmodRelay") /\ Copied["config"] = AfterConfig
    /\ Copied["artifact"] = Exec("chmodArtifact") /\ Copied["script"] = Exec("submit")
    /\ Commands["mkdir"] = AfterDirs /\ Commands["chmodArtifact"] = NextJob
    /\ Commands["chmodRelay"] = Exec("startRelay")
    /\ DOMAIN Commands = {"mkdir", "chmodArtifact", "chmodRelay"}
BY Zenon DEF Copied, Commands

(* A launch comes to the artifact with the configuration in place, and to  *)
(* the jobs with both.                                                     *)
LEMMA ConfigLeads ==
    /\ AfterConfig \in Steps /\ AfterConfig[2] \in {"artifact", "script", "submit"}
    /\ AfterConfig[2] # "artifact" => ~cfg.artifact
    /\ AfterConfig[2] = "submit" => cfg.scheduler = "direct_process"
    /\ AfterConfig[1] \in {"copy", "exec"}
<1>1. (cfg.artifact /\ AfterConfig = <<"copy", "artifact">>) \/ (~cfg.artifact /\ AfterConfig = NextJob)
  BY Zenon DEF AfterConfig
<1>2. CASE cfg.artifact /\ AfterConfig = <<"copy", "artifact">>
  BY Zenon, <1>2 DEF Steps, Files
<1>3. CASE ~cfg.artifact /\ AfterConfig = NextJob
  BY Zenon, <1>3, Onward
<1> QED
  BY Zenon, <1>1, <1>2, <1>3

(* A copy is complete.                                                     *)
LEMMA RenameKeeps ==
    ASSUME NoneIsNoValue, LaunchTypes, JobInv, RelayInv, PosixRename
    PROVE  LaunchTypes' /\ JobInv' /\ RelayInv'
<1>1. /\ UNCHANGED <<cfg, job, by, launches, listener, relayPID, relays, orphans>>
      /\ pc' = Copied[pc[2]] /\ file' = [file EXCEPT ![pc[2]] = "whole"]
  BY Zenon DEF PosixRename, jobs, tunnel
<1>2. pc[1] = "write" /\ pc[2] \in Files
  BY Zenon, AboutFile DEF PosixRename, LaunchTypes
<1>3. Finished \/ AtJobs => pc[2] = "script"
  BY Zenon, <1>2 DEF Finished, AtJobs, Files
<1>4. /\ DOMAIN file' = Files /\ file'[pc[2]] = "whole"
      /\ \A f \in Files \ {pc[2]} : file'[f] = file[f]
      /\ pc[2] # "artifact" => mode' = mode
  BY Zenon, <1>1, <1>2 DEF LaunchTypes, PosixRename
<1>5. (ConfigReady => ConfigReady') /\ (pc[2] # "artifact" /\ ArtifactReady => ArtifactReady')
  BY Zenon, <1>1, <1>4 DEF ConfigReady, ArtifactReady, Files
<1>6. /\ pc' \in Steps /\ pc'[1] \in {"exec", "copy"}
      /\ pc'[2] \in {"chmodRelay", "chmodArtifact", "artifact", "script", "submit"}
      /\ pc'[2] = "chmodRelay" => pc[2] = "relay"
      /\ PutInPlace'
  <2>1. CASE pc[2] = "relay"
    <3>1. pc' \in Steps /\ pc'[1] = "exec" /\ pc'[2] = "chmodRelay"
      BY Zenon, <1>1, <2>1, CopiedLeads, Executing
    <3> QED
      BY Zenon, <2>1, <3>1 DEF PutInPlace, AtJobs
  <2>2. CASE pc[2] = "config"
    <3>1. pc' = AfterConfig /\ ConfigReady'
      BY Zenon, <1>1, <1>4, <2>2, CopiedLeads DEF ConfigReady
    <3>2. pc' \in Steps /\ pc'[1] \in {"copy", "exec"} /\ pc'[2] \in {"artifact", "script", "submit"}
      BY Zenon, <3>1, ConfigLeads
    <3>3. pc'[2] # "artifact" => ArtifactReady'
      BY Zenon, <1>1, <3>1, ConfigLeads DEF ArtifactReady
    <3>4. pc'[2] = "submit" => cfg'.scheduler # "remote_process"
      BY Zenon, <1>1, <3>1, ConfigLeads
    <3> QED
      BY Zenon, <3>1, <3>2, <3>3, <3>4 DEF PutInPlace, AtJobs
  <2>3. CASE pc[2] = "artifact"
    <3>1. pc' \in Steps /\ pc'[1] = "exec" /\ pc'[2] = "chmodArtifact"
      BY Zenon, <1>1, <2>3, CopiedLeads, Executing
    <3>2. ConfigReady'
      BY Zenon, <1>5, <2>3 DEF JobInv, PutInPlace
    <3> QED
      BY Zenon, <1>4, <2>3, <3>1, <3>2 DEF PutInPlace, AtJobs
  <2>4. CASE pc[2] = "script"
    <3>1. pc' \in Steps /\ pc'[1] = "exec" /\ pc'[2] = "submit"
      BY Zenon, <1>1, <2>4, CopiedLeads, Executing
    <3>2. ConfigReady' /\ ArtifactReady'
      BY Zenon, <1>5, <2>4 DEF JobInv, PutInPlace, AtJobs
    <3> QED
      BY Zenon, <1>4, <2>4, <3>1, <3>2 DEF PutInPlace, AtJobs
  <2> QED
    BY Zenon, <1>2, <2>1, <2>2, <2>3, <2>4 DEF Files
<1>7. LaunchTypes'
  BY Zenon, <1>1, <1>4, <1>6 DEF LaunchTypes
<1>8. JobsServed'
  <2>1. ASSUME NEW j \in Jobs, job[j] = "started", by[j] = launches
        PROVE  /\ AtJobs' /\ ConfigReady' /\ ArtifactReady'
               /\ file'["script"] = "whole"
    <3>1. pc[2] = "script" /\ ConfigReady /\ ArtifactReady
      BY Zenon, <1>3, <2>1 DEF JobInv, JobsServed
    <3>2. pc'[2] = "submit"
      BY Zenon, <1>1, <3>1, CopiedLeads, Executing
    <3> QED
      BY Zenon, <1>4, <1>5, <3>1, <3>2 DEF AtJobs
  <2> QED
    BY Zenon, <1>1, <2>1 DEF JobInv, JobsServed
<1>9. FailsOnlyOvertaken'
  BY Zenon, <1>1 DEF JobInv, FailsOnlyOvertaken
<1>10. RelayInv'
  BY Zenon, <1>1, <1>6, RelaysUntouched DEF RelayInv
<1> QED
  BY Zenon, <1>6, <1>7, <1>8, <1>9, <1>10 DEF JobInv

(* A command takes effect.  The artifact is executable from then on.       *)
LEMMA CommandKeeps ==
    ASSUME NoneIsNoValue, LaunchTypes, JobInv, RelayInv, NEW answered \in BOOLEAN, execCommand(answered)
    PROVE  LaunchTypes' /\ JobInv' /\ RelayInv'
<1>1. UNCHANGED <<cfg, file, job, by, launches, listener, relayPID, relays, orphans>>
  BY Zenon DEF execCommand, jobs, tunnel
<1>2. pc[1] = "exec" /\ pc[2] \in {"mkdir", "chmodArtifact", "chmodRelay"} /\ Using
  BY Zenon, CopiedLeads DEF execCommand, Using
<1>3. ~(Finished \/ AtJobs)
  BY Zenon, <1>2 DEF Finished, AtJobs
<1>4. JobsServed' /\ FailsOnlyOvertaken'
  BY Zenon, <1>1, <1>3 DEF JobInv, JobsServed, FailsOnlyOvertaken
<1>5. ConfigReady => ConfigReady'
  BY Zenon, <1>1 DEF ConfigReady
<1>6. /\ pc' \in Steps /\ pc'[1] # "close listener"
      /\ pc'[2] \in {"relay", "chmodRelay", "startRelay"} \/ pc'[1] = "close tunnel" => pc[2] = "chmodRelay"
      /\ PutInPlace'
  <2>1. CASE pc' = OnError
    <3>1. pc' \in Steps /\ pc'[2] = None /\ (pc'[1] = "close listener" => pc[2] = "killRelay")
          /\ (pc'[1] = "close tunnel" => pc[2] \in {"relay", "chmodRelay", "startRelay"})
      BY Zenon, <2>1, Ending
    <3>2. pc'[2] \notin {"artifact", "chmodArtifact", "script", "submit", "relay", "chmodRelay", "startRelay"}
      BY Zenon, <3>1 DEF NoneIsNoValue, Files
    <3> QED
      BY Zenon, <1>2, <3>1, <3>2 DEF PutInPlace, AtJobs
  <2>2. CASE pc' = Commands[pc[2]] /\ pc[2] = "mkdir"
    <3>1. (cfg.url /\ pc' = <<"copy", "config">>) \/ (~cfg.url /\ pc' = AfterConfig)
      BY Zenon, <2>2, CopiedLeads DEF AfterDirs
    <3>2. CASE cfg.url /\ pc' = <<"copy", "config">>
      <4>1. pc' \in Steps /\ pc'[1] = "copy" /\ pc'[2] = "config"
        BY Zenon, <3>2 DEF Steps, Files
      <4> QED
        BY Zenon, <4>1 DEF PutInPlace, AtJobs
    <3>3. CASE ~cfg.url /\ pc' = AfterConfig
      <4>1. pc' \in Steps /\ pc'[1] \in {"copy", "exec"} /\ pc'[2] \in {"artifact", "script", "submit"}
        BY Zenon, <3>3, ConfigLeads
      <4>2. ConfigReady' /\ (pc'[2] # "artifact" => ArtifactReady')
        BY Zenon, <1>1, <3>3, ConfigLeads DEF ConfigReady, ArtifactReady
      <4>3. pc'[2] = "submit" => cfg'.scheduler # "remote_process"
        BY Zenon, <1>1, <3>3, ConfigLeads
      <4> QED
        BY Zenon, <4>1, <4>2, <4>3 DEF PutInPlace, AtJobs
    <3> QED
      BY Zenon, <3>1, <3>2, <3>3
  <2>3. CASE pc' = Commands[pc[2]] /\ pc[2] = "chmodArtifact"
    <3>1. pc' = NextJob /\ mode' = "0755" /\ file["artifact"] = "whole" /\ ConfigReady
      BY Zenon, <2>3, CopiedLeads DEF execCommand, JobInv, PutInPlace
    <3>2. pc' \in Steps /\ pc'[1] \in {"copy", "exec"} /\ pc'[2] \in {"script", "submit"}
      BY Zenon, <3>1, Onward
    <3>3. ConfigReady' /\ ArtifactReady'
      BY Zenon, <1>1, <1>5, <3>1 DEF ArtifactReady
    <3>4. pc'[2] = "submit" => cfg'.scheduler # "remote_process"
      BY Zenon, <1>1, <3>1, Onward
    <3> QED
      BY Zenon, <3>2, <3>3, <3>4 DEF PutInPlace, AtJobs
  <2>4. CASE pc' = Commands[pc[2]] /\ pc[2] = "chmodRelay"
    <3>1. pc' \in Steps /\ pc'[1] = "exec" /\ pc'[2] = "startRelay"
      BY Zenon, <2>4, CopiedLeads, Executing
    <3> QED
      BY Zenon, <2>4, <3>1 DEF PutInPlace, AtJobs
  <2> QED
    BY Zenon, <1>2, <2>1, <2>2, <2>3, <2>4 DEF execCommand
<1>7. LaunchTypes'
  BY Zenon, <1>1, <1>6 DEF LaunchTypes
<1>8. RelayInv'
  BY Zenon, <1>1, <1>6, RelaysUntouched DEF RelayInv
<1> QED
  BY Zenon, <1>4, <1>6, <1>7, <1>8 DEF JobInv

(* A job is submitted with all it reads in place.                          *)
LEMMA SubmitKeeps ==
    ASSUME NoneIsNoValue, LaunchTypes, JobInv, RelayInv, NEW answered \in BOOLEAN, Submit(answered)
    PROVE  LaunchTypes' /\ JobInv' /\ RelayInv'
<1>1. UNCHANGED <<cfg, file, mode, launches, listener, relayPID, relays, orphans>>
  BY Zenon DEF Submit, files, tunnel
<1>2. pc[2] = "submit"
  BY Zenon, Executing DEF Submit
<1>3. /\ ConfigReady /\ ArtifactReady
      /\ cfg.scheduler = "remote_process" => file["script"] = "whole"
  BY Zenon, <1>2 DEF JobInv, PutInPlace, AtJobs
<1>4. ConfigReady' /\ ArtifactReady'
  BY Zenon, <1>1, <1>3 DEF ConfigReady, ArtifactReady
<1>5. pc' = NextJob \/ pc' = Idle
  BY Zenon, <1>2 DEF Submit, OnError
<1>6. /\ pc' \in Steps /\ pc'[1] \in {"idle", "copy", "exec"} /\ pc'[2] \in {None, "script", "submit"}
      /\ pc'[2] = "submit" => cfg'.scheduler # "remote_process"
      /\ pc'[1] = "idle" \/ pc'[2] \in {"script", "submit"}
  <2>1. CASE pc' = NextJob
    BY Zenon, <1>1, <2>1, Onward
  <2>2. CASE pc' = Idle
    BY Zenon, <2>2, Ending DEF NoneIsNoValue
  <2> QED
    BY Zenon, <1>5, <2>1, <2>2
<1>7. PutInPlace'
  BY Zenon, <1>4, <1>6 DEF PutInPlace, AtJobs, NoneIsNoValue
<1>8. PICK k \in Jobs : job' = [job EXCEPT ![k] = "started"] /\ by' = [by EXCEPT ![k] = launches]
  BY Zenon DEF Submit
<1>9. LaunchTypes'
  BY Zenon, <1>1, <1>6, <1>8 DEF LaunchTypes
<1>10. \A j \in Jobs : by'[j] <= launches'
  <2>1. \A j \in Jobs : by'[j] = launches \/ by'[j] = by[j]
    BY Zenon, <1>8 DEF LaunchTypes
  <2>2. launches <= launches
    BY SMT DEF LaunchTypes
  <2> QED
    BY Zenon, <1>1, <2>1, <2>2 DEF JobInv, JobsServed
<1>11. JobsServed'
  <2>1. Finished' \/ AtJobs'
    BY Zenon, <1>6 DEF Finished, AtJobs
  <2> QED
    BY Zenon, <1>1, <1>3, <1>4, <1>10, <2>1 DEF JobsServed
<1>12. FailsOnlyOvertaken'
  <2>1. \A j \in Jobs : job'[j] = "broken" => job[j] = "broken" /\ by'[j] = by[j]
    BY Zenon, <1>8 DEF LaunchTypes
  <2> QED
    BY Zenon, <1>1, <2>1 DEF JobInv, FailsOnlyOvertaken
<1>13. RelayInv'
  BY Zenon, <1>1, <1>6, RelaysUntouched DEF RelayInv, NoneIsNoValue, Files
<1> QED
  BY Zenon, <1>7, <1>9, <1>11, <1>12, <1>13 DEF JobInv

(* A worker starts.  One of the latest launch finds what was put in place. *)
LEMMA WorkerKeeps ==
    ASSUME LaunchTypes, JobInv, RelayInv, NEW k \in Jobs, WorkerStarts(k)
    PROVE  LaunchTypes' /\ JobInv' /\ RelayInv'
<1>1. UNCHANGED <<cfg, pc, file, mode, by, launches, listener, relayPID, relays, orphans>>
  BY Zenon DEF WorkerStarts, files, tunnel
<1>2. LaunchTypes'
  BY Zenon, <1>1 DEF LaunchTypes, WorkerStarts
<1>3. PutInPlace'
  BY Zenon, <1>1 DEF JobInv, PutInPlace, AtJobs, ConfigReady, ArtifactReady
<1>4. \A j \in Jobs : job'[j] = "started" => job[j] = "started"
  BY Zenon DEF WorkerStarts, LaunchTypes
<1>5. JobsServed'
  BY Zenon, <1>1, <1>4 DEF JobInv, JobsServed, ConfigReady, ArtifactReady, Finished, AtJobs
<1>6. ASSUME NEW j \in Jobs, job'[j] = "broken", by[j] = launches, job[j] # "broken"
      PROVE  cfg.transport # "ssh" /\ cfg.scheduler = "remote_process"
  <2>1. job[j] = "started" /\ ~Found
    BY Zenon, <1>6 DEF WorkerStarts, LaunchTypes
  <2>2. ConfigReady /\ ArtifactReady
        /\ (cfg.transport = "ssh" /\ cfg.scheduler = "remote_process" => file["script"] = "whole")
    BY Zenon, <1>6, <2>1 DEF JobInv, JobsServed
  <2> QED
    BY Zenon, <2>1, <2>2 DEF Found, ConfigReady, ArtifactReady
<1>7. FailsOnlyOvertaken'
  BY Zenon, <1>1, <1>6 DEF JobInv, FailsOnlyOvertaken
<1>8. RelayInv'
  BY Zenon, <1>1 DEF RelayInv, RelaysAccounted
<1> QED
  BY Zenon, <1>2, <1>3, <1>5, <1>7, <1>8 DEF JobInv
-----------------------------------------------------------------------------
(* Every step of a launch, of the connection and of a worker preserves     *)
(* what is known of files, jobs and relays.                                *)
LEMMA LaunchInvariant ==
    ASSUME NoneIsNoValue
    PROVE  Spec => [](LaunchTypes /\ JobInv /\ RelayInv)
<1>1. Init => LaunchTypes /\ JobInv /\ RelayInv
  BY Zenon, InitLaunch
<1>2. ASSUME LaunchTypes, JobInv, RelayInv, [Next]_vars PROVE LaunchTypes' /\ JobInv' /\ RelayInv'
  <2>1. CASE Next
    BY Zenon, <1>2, <2>1, LaunchKeeps, StartKeeps, TransportKeeps, LossKeeps, CloseKeeps, RelayKeeps,
       CopyKeeps, RenameKeeps, CommandKeeps, SubmitKeeps, WorkerKeeps DEF Next
  <2>2. CASE UNCHANGED vars
    BY Zenon, <1>2, <2>2, Untouched DEF vars, files, jobs, tunnel, RelayInv, RelaysAccounted
  <2> QED
    BY Zenon, <1>2, <2>1, <2>2
<1> QED
  BY <1>1, <1>2, PTL DEF Spec

(* A worker of the latest launch finds its configuration and an executable *)
(* artifact, however earlier launches ended: only where scripts are        *)
(* written in place does a job of the same launch stand in its way.        *)
THEOREM LaunchFailsOnlyOvertaken ==
    ASSUME NoneIsNoValue
    PROVE  Spec => []FailsOnlyOvertaken
BY LaunchInvariant, PTL DEF JobInv

(* The tunnel knows of every relay it started, unless a command about it   *)
(* failed, through every lost connection and every launch.                 *)
THEOREM LaunchRelaysAccounted ==
    ASSUME NoneIsNoValue
    PROVE  Spec => []RelaysAccounted
BY LaunchInvariant, PTL DEF RelayInv
============================================================================
