------------------------- MODULE ExternalCallProofs -------------------------
(***************************************************************************)
(* TLAPS proofs about ExternalCall and the two workers it launches, for    *)
(* any policies, profiles, URLs and paths, whatever the resolver and the   *)
(* remote server answer, and for any limits.                               *)
(*                                                                         *)
(* Each worker has an invariant of its own, which relates what it has done *)
(* to the step it is at.  That of the call says which steps of the worker  *)
(* a step of the handler goes with, and what a result that is waiting to   *)
(* be recorded is worth.                                                   *)
(***************************************************************************)
EXTENDS ExternalCall, TLAPS

----------------------------------------------------------------------------
(* The Network Worker. *)

NetLabels == {"idle", "job", "check", "dial", "send", "response", "success", "error"}

Dials == [host : Names \cup Addresses, port : {u.port : u \in Urls}, address : Addresses]

NetType ==
    net \in [pc : NetLabels, op : NetworkOps \cup {"none"}, policy : Policies, target : Urls,
             dialled : SUBSET Dials, sent : Seq(Urls), size : Nat, bytes : Nat]

\* Nothing is dialled before the target is validated, and nothing but what was
\* validated and dialled is sent.
Validated ==
    /\ net.pc \in {"idle", "job", "check"} => net.dialled = {} /\ net.sent = << >>
    /\ net.pc \in {"dial", "send"} => net.target.scheme \in net.policy.schemes
    /\ net.pc = "send" =>
          \E d \in net.dialled : d.host = net.target.host /\ d.port = net.target.port

\* A request that is about to be sent is one of those allowed.
Allowance ==
    net.pc \in {"dial", "send"} =>
        Len(net.sent) <= net.policy.redirects /\ (net.op = "upload" => Len(net.sent) = 0)

\* A body that was accepted was read to its end.
BodyWhole == net.pc = "success" => net.bytes = net.size

NetInv == Validated /\ Allowance /\ BodyWhole /\ RequestsPermitted

----------------------------------------------------------------------------
(* The Remote Worker. *)

RemoteLabels == {"idle", "job", "connect", "roots", "paths", "copy", "limits", "command", "output",
                 "success", "error"}

\* Nothing is said of the paths, which are what the server makes of them.
RemoteType ==
    remote \in [pc : RemoteLabels, op : RemoteOps \cup {"none"}, profile : Profiles,
                path : {remote.path}, destination : {remote.destination}, roots : {remote.roots},
                touched : {remote.touched}, ran : BOOLEAN, file : {"kept", "emptied", "written"},
                produced : [Streams -> Nat], kept : [Streams -> Nat], remaining : Nat,
                exceeded : BOOLEAN]

\* The server is asked nothing before the job is authorized.
AsksLate ==
    remote.pc \in {"idle", "job", "connect", "roots", "paths", "command"}
        => remote.touched = {} /\ ~remote.ran

\* What is being done is what the profile allows, on the roots as resolved.
Permitted ==
    /\ remote.pc \in {"connect", "roots", "paths", "copy", "limits", "command", "output"}
          => operationAllowed(remote.op, remote.path, remote.destination, remote.profile)
    /\ remote.pc # "idle" => remote.op \in RemoteOps
    /\ remote.pc \in {"command", "output"} => remote.op = "ssh_exec"
    /\ remote.pc \in {"roots", "paths", "copy", "limits"} => remote.op \in SFTPOps
    /\ remote.pc = "paths" =>
          remote.roots = {RealPath[r] : r \in remote.profile.roots} /\ NoPath \notin remote.roots

\* What was to be written is, and no output is missing unless it was too much.
OutputWhole ==
    /\ remote.pc \in {"limits", "success"} /\ remote.op = "sftp_write" => remote.file = "written"
    /\ remote.pc \in {"idle", "job", "connect", "command", "output"} /\ ~remote.exceeded
          => remote.kept = remote.produced
    /\ remote.pc = "success" /\ remote.op = "ssh_exec" => remote.kept = remote.produced

RemoteInv == AsksLate /\ Permitted /\ OutputWhole /\ RemoteContained

----------------------------------------------------------------------------
(* The call. *)

CallLabels == {"call", "profile", "read", "launch", "running", "checksum", "write", "writing",
               "finish", "done"}

Messages == {"none", "success", "denied", "cancelled", "timeout", "error", "unconfirmed"}

CallType ==
    /\ op \in Ops
    /\ pc \in CallLabels
    /\ cancelled \in BOOLEAN
    /\ audit \in {"none", "pending", "success", "denied", "cancelled", "error"}
    /\ finish \in [status : {"none", "success", "denied", "cancelled", "error"},
                   message : Messages, first : {"audit", "message"}]
    /\ expected \in Contents \cup {Absent}
    /\ preflight \in Contents \cup {Absent}
    /\ file \in Contents \cup {Absent, Downloaded}
    /\ exec \in {"none", "asked", "done", "refused"}
    /\ answer \in Messages

TypeOK == CallType /\ NetType /\ RemoteType

\* The worker of the tool called is the only one that ever does anything.
OneWorker ==
    /\ op \in NetworkOps => net.op = op
    /\ op \notin NetworkOps => net.pc = "idle"
    /\ op \in RemoteOps => remote.op = op
    /\ op \notin RemoteOps => remote.pc = "idle"
    /\ op # "exec" => exec = "none"

NothingDone == net.pc = "idle" /\ remote.pc = "idle" /\ exec = "none"

\* No worker before the launch, and no launch before the call is recorded.
LaunchedLate ==
    /\ pc \in {"call", "profile", "read", "launch"} => NothingDone
    /\ pc \notin {"call", "done"} => audit # "none"
    /\ pc = "finish" => finish.status # "none"
    /\ audit = "none" => NothingDone /\ file # Downloaded

\* The target of a download is replaced while it is written and not before,
\* from a body that is whole.
WrittenLate ==
    /\ pc \notin {"writing", "finish", "done"} => file # Downloaded
    /\ pc \in {"checksum", "write", "writing"} => op = "download" /\ net.pc = "success"

\* What a call did that has succeeded.
Truth ==
    /\ op \in NetworkOps => net.pc = "success" /\ net.bytes = net.size
    /\ op = "download" => file = Downloaded
    /\ op \in RemoteOps => remote.pc = "success"
    /\ op = "sftp_write" => remote.file = "written"
    /\ op = "ssh_exec" => remote.kept = remote.produced
    /\ op = "exec" => exec = "done"

\* What a call did that says it did nothing.
Refused(message) ==
    /\ message \in {"denied", "cancelled"} => file # Downloaded
    /\ message = "denied" =>
          /\ op # "download" => net.sent = << >>
          /\ remote.touched = {} /\ ~remote.ran /\ exec = "none"

\* A result that waits to be recorded is true; an answer too, once recorded.
ResultTrue ==
    /\ pc = "finish" =>
          /\ finish.message = "success" => finish.status = "success" /\ finish.first = "audit" /\ Truth
          /\ Refused(finish.message)
    /\ answer = "success" => audit = "success" /\ Truth
    /\ Refused(answer)
    /\ answer # "none" => pc = "done"

IInv ==
    /\ TypeOK
    /\ NetInv
    /\ RemoteInv
    /\ OneWorker
    /\ LaunchedLate
    /\ WrittenLate
    /\ ResultTrue

----------------------------------------------------------------------------
(* Proofs: the Network Worker. *)

\* An address that may be dialled is one the policy allows for the host.
LEMMA HostAllowed ==
    ASSUME NEW host \in Names \cup Addresses, NEW policy, NEW answers \in SUBSET Addresses,
           NEW a \in validateHost(host, policy, answers)
    PROVE  /\ a \in Addresses /\ validateAddress(a, policy)
           /\ host \in policy.domains \/ \E c \in policy.cidrs : host \in c.members
  <1>1. CASE host \in DeniedNames
    BY <1>1, NetworkAssumption DEF validateHost
  <1>2. CASE host \notin DeniedNames /\ host \in Addresses
    BY <1>2 DEF validateHost, InCIDRs
  <1>3. CASE host \notin DeniedNames /\ host \notin Addresses
    BY <1>3 DEF validateHost, domainAllowed
  <1> QED BY <1>1, <1>2, <1>3

\* A worker keeps its job and its policy.
NetKeeps == net'.op = net.op /\ net'.policy = net.policy /\ net.pc # "idle" /\ net'.pc # "idle"

\* A step of the worker that only moves it on.
LEMMA NetworkMoves ==
    ASSUME NetType, NEW l \in NetLabels, net' = [net EXCEPT !.pc = l]
    PROVE  /\ NetType' /\ net'.pc = l /\ net'.op = net.op /\ net'.policy = net.policy
           /\ net'.target = net.target /\ net'.dialled = net.dialled /\ net'.sent = net.sent
           /\ net'.bytes = net.bytes /\ net'.size = net.size
  BY DEF NetType

LEMMA NetworkFails ==
    ASSUME NetType, NetInv, NetworkFail
    PROVE  NetType' /\ NetInv' /\ net'.op = net.op /\ net'.policy = net.policy /\ net'.pc = "error"
  <1>1. /\ NetType' /\ net'.pc = "error" /\ net'.op = net.op /\ net'.policy = net.policy
        /\ net'.dialled = net.dialled /\ net'.sent = net.sent
    BY NetworkMoves DEF NetworkFail, NetLabels
  <1>2. RequestsPermitted'
    BY <1>1 DEF NetInv, RequestsPermitted
  <1>3. Validated' /\ Allowance' /\ BodyWhole'
    BY <1>1 DEF Validated, Allowance, BodyWhole
  <1> QED BY <1>1, <1>2, <1>3 DEF NetInv

\* Every step of the Network Worker preserves its invariant.
LEMMA NetworkPreserves ==
    ASSUME NetType, NetInv, NetworkStep
    PROVE  NetType' /\ NetInv' /\ NetKeeps
  <1>0. /\ net.policy \in Policies /\ net.target \in Urls /\ net.dialled \subseteq Dials
        /\ net.sent \in Seq(Urls) /\ net.policy.redirects \in Nat /\ Len(net.sent) \in Nat
        /\ net.target.host \in Names \cup Addresses
    BY NetworkAssumption DEF NetType
  <1>f. ASSUME NetworkFail, net.pc # "idle" PROVE NetType' /\ NetInv' /\ NetKeeps
    BY <1>f, NetworkFails DEF NetKeeps
  <1>1. ASSUME NEW accepted \in BOOLEAN, NetworkPrepare(accepted)
        PROVE  NetType' /\ NetInv' /\ NetKeeps
    <2>1. CASE net' = [net EXCEPT !.pc = "check"]
      <3>1. /\ NetType' /\ net'.pc = "check" /\ net'.op = net.op /\ net'.policy = net.policy
            /\ net'.dialled = net.dialled /\ net'.sent = net.sent /\ net.pc = "job"
        BY <1>1, <2>1, NetworkMoves DEF NetLabels, NetworkPrepare
      <3>2. Validated' /\ Allowance' /\ BodyWhole'
        BY <3>1 DEF NetInv, Validated, Allowance, BodyWhole
      <3>3. RequestsPermitted'
        BY <3>1 DEF NetInv, RequestsPermitted
      <3> QED BY <3>1, <3>2, <3>3 DEF NetInv, NetKeeps
    <2> QED BY <1>1, <1>f, <2>1 DEF NetworkPrepare
  <1>2. ASSUME NEW answers \in SUBSET Addresses, NetworkCheck(answers)
        PROVE  NetType' /\ NetInv' /\ NetKeeps
    <2>1. CASE net' = [net EXCEPT !.pc = "dial"] /\ validateTarget(net.target, net.policy, answers)
      <3>1. /\ NetType' /\ net'.pc = "dial" /\ net'.op = net.op /\ net'.policy = net.policy
            /\ net'.target = net.target /\ net'.dialled = net.dialled /\ net'.sent = net.sent
            /\ net.pc = "check"
        BY <1>2, <2>1, NetworkMoves DEF NetLabels, NetworkCheck
      <3>2. Validated' /\ BodyWhole'
        BY <2>1, <3>1 DEF NetInv, Validated, BodyWhole, validateTarget
      <3>3. Allowance'
        BY <1>0, <3>1 DEF NetInv, Validated, Allowance
      <3>4. RequestsPermitted'
        BY <3>1 DEF NetInv, RequestsPermitted
      <3> QED BY <3>1, <3>2, <3>3, <3>4 DEF NetInv, NetKeeps
    <2> QED BY <1>2, <1>f, <2>1 DEF NetworkCheck
  <1>3. ASSUME NEW answers \in SUBSET Addresses, NEW tried \in SUBSET Addresses,
               NEW connected \in BOOLEAN, NetworkDial(answers, tried, connected)
        PROVE  NetType' /\ NetInv' /\ NetKeeps
    <2> DEFINE dials == {[host |-> net.target.host, port |-> net.target.port, address |-> a] : a \in tried}
               l == IF connected THEN "send" ELSE "error"
    <2>1. net.pc = "dial" /\ net' = [net EXCEPT !.dialled = @ \cup dials, !.pc = l]
      BY <1>3 DEF NetworkDial
    <2>2. dials \subseteq Dials
      BY <1>0 DEF Dials
    <2>3. l \in {"send", "error"}
      OBVIOUS
    <2>4. /\ NetType' /\ net'.pc = l /\ net'.op = net.op /\ net'.policy = net.policy
          /\ net'.target = net.target /\ net'.dialled = net.dialled \cup dials /\ net'.sent = net.sent
      <3> HIDE DEF dials, l
      <3> QED BY <2>1, <2>2, <2>3 DEF NetType, NetLabels
    <2>5. ASSUME NEW d \in dials
          PROVE  /\ d.host = net.target.host /\ d.port = net.target.port
                 /\ d.port \in net.policy.ports
                 /\ d.address \in validateHost(net.target.host, net.policy, answers)
      BY <1>3 DEF NetworkDial, validateDialTarget
    <2>6. l = "send" => dials # {}
      BY <1>3 DEF NetworkDial
    <2> HIDE DEF dials, l
    <2>7. Validated'
      BY <2>1, <2>3, <2>4, <2>5, <2>6 DEF NetInv, Validated
    <2>8. Allowance' /\ BodyWhole'
      BY <2>1, <2>3, <2>4 DEF NetInv, Allowance, BodyWhole
    <2>9. RequestsPermitted'
      <3>1. ASSUME NEW d \in dials
            PROVE  /\ d.address \notin DeniedAddresses
                   /\ d.address \in RestrictedAddresses =>
                         /\ net.policy.allowPrivate
                         /\ \E c \in net.policy.cidrs : d.address \in c.explicit
                   /\ d.host \in net.policy.domains \/ \E c \in net.policy.cidrs : d.host \in c.members
                   /\ d.port \in net.policy.ports
        BY <1>0, <2>5, HostAllowed DEF validateAddress, InExplicitCIDR
      <3> QED BY <2>4, <3>1 DEF NetInv, RequestsPermitted
    <2> QED BY <2>1, <2>3, <2>4, <2>7, <2>8, <2>9 DEF NetInv, NetKeeps
  <1>4. ASSUME NetworkSend PROVE NetType' /\ NetInv' /\ NetKeeps
    <2>1. net.pc = "send" /\ net' = [net EXCEPT !.pc = "response", !.sent = Append(@, net.target)]
      BY <1>4 DEF NetworkSend
    <2>2. Append(net.sent, net.target) \in Seq(Urls) /\ Len(Append(net.sent, net.target)) = Len(net.sent) + 1
      BY <1>0
    <2>3. /\ NetType' /\ net'.pc = "response" /\ net'.op = net.op /\ net'.policy = net.policy
          /\ net'.dialled = net.dialled /\ net'.sent = Append(net.sent, net.target)
      BY <2>1, <2>2 DEF NetType, NetLabels
    <2>4. Validated' /\ Allowance' /\ BodyWhole'
      BY <2>3 DEF Validated, Allowance, BodyWhole
    <2>5. RequestsPermitted'
      <3>1. ASSUME NEW i \in DOMAIN net'.sent
            PROVE  /\ net'.sent[i].scheme \in net.policy.schemes
                   /\ \E d \in net.dialled : d.host = net'.sent[i].host /\ d.port = net'.sent[i].port
        <4>1. CASE i \in DOMAIN net.sent
          <5>1. net'.sent[i] = net.sent[i]
            BY <1>0, <2>3, <4>1
          <5> QED BY <4>1, <5>1 DEF NetInv, RequestsPermitted
        <4>2. CASE i \notin DOMAIN net.sent
          <5>1. net'.sent[i] = net.target
            BY <1>0, <2>3, <4>2
          <5> QED BY <2>1, <5>1 DEF NetInv, Validated
        <4> QED BY <4>1, <4>2
      <3>2. Len(net'.sent) <= 1 + net.policy.redirects /\ (net.op = "upload" => Len(net'.sent) <= 1)
        BY <1>0, <2>1, <2>2, <2>3 DEF NetInv, Allowance
      <3> QED BY <2>3, <3>1, <3>2 DEF NetInv, RequestsPermitted
    <2> QED BY <2>1, <2>3, <2>4, <2>5 DEF NetInv, NetKeeps
  <1>5. ASSUME NEW url \in Urls, NEW answers \in SUBSET Addresses, NetworkRedirect(url, answers)
        PROVE  NetType' /\ NetInv' /\ NetKeeps
    <2>1. CASE mayRedirect(url, answers) /\ net' = [net EXCEPT !.pc = "dial", !.target = url]
      <3>1. /\ NetType' /\ net'.pc = "dial" /\ net'.op = net.op /\ net'.policy = net.policy
            /\ net'.target = url /\ net'.dialled = net.dialled /\ net'.sent = net.sent
        BY <2>1 DEF NetType, NetLabels
      <3>2. Validated' /\ BodyWhole'
        BY <2>1, <3>1 DEF Validated, BodyWhole, mayRedirect, validateTarget
      <3>3. Allowance'
        BY <1>0, <2>1, <3>1 DEF Allowance, mayRedirect
      <3>4. RequestsPermitted'
        BY <3>1 DEF NetInv, RequestsPermitted
      <3> QED BY <1>5, <3>1, <3>2, <3>3, <3>4 DEF NetInv, NetKeeps, NetworkRedirect
    <2> QED BY <1>5, <1>f, <2>1 DEF NetworkRedirect
  <1>6. ASSUME NEW declared \in 0..(MaxBody + 1), NEW size \in 0..(MaxBody + 1), NetworkBody(declared, size)
        PROVE  NetType' /\ NetInv' /\ NetKeeps
    <2>1. CASE readBounded(declared, size)
      <3>1. bytesRead(size) = size /\ size \in Nat
        BY <2>1, NetworkAssumption DEF readBounded, bytesRead
      <3>2. net' = [net EXCEPT !.pc = "success", !.size = size, !.bytes = size]
        BY <1>6, <2>1, <3>1 DEF NetworkBody
      <3>3. /\ NetType' /\ net'.pc = "success" /\ net'.op = net.op /\ net'.policy = net.policy
            /\ net'.dialled = net.dialled /\ net'.sent = net.sent /\ net'.bytes = net'.size
        BY <3>1, <3>2 DEF NetType, NetLabels
      <3>4. Validated' /\ Allowance' /\ BodyWhole'
        BY <3>3 DEF Validated, Allowance, BodyWhole
      <3>5. RequestsPermitted'
        BY <3>3 DEF NetInv, RequestsPermitted
      <3> QED BY <1>6, <3>3, <3>4, <3>5 DEF NetInv, NetKeeps, NetworkBody
    <2> QED BY <1>6, <1>f, <2>1 DEF NetworkBody
  <1>7. ASSUME NetworkBroken PROVE NetType' /\ NetInv' /\ NetKeeps
    BY <1>7, <1>f DEF NetworkBroken, NetworkRunning
  <1> QED BY <1>1, <1>2, <1>3, <1>4, <1>5, <1>6, <1>7 DEF NetworkStep

----------------------------------------------------------------------------
(* Proofs: the Remote Worker. *)

\* The fields of the job, which no step changes.
RemoteKeeps == /\ remote'.op = remote.op /\ remote'.profile = remote.profile
               /\ remote'.path = remote.path /\ remote'.destination = remote.destination

\* What has been done so far.
RemoteDid == <<remote.touched, remote.ran, remote.file, remote.produced, remote.kept, remote.exceeded>>

\* A step of the worker that only moves it on.
LEMMA RemoteMoves ==
    ASSUME RemoteType, NEW l \in RemoteLabels, remote' = [remote EXCEPT !.pc = l]
    PROVE  RemoteType' /\ remote'.pc = l /\ RemoteKeeps /\ RemoteDid' = RemoteDid
           /\ remote'.roots = remote.roots
  BY DEF RemoteType, RemoteKeeps, RemoteDid

LEMMA RemoteFails ==
    ASSUME RemoteType, RemoteInv, RemoteFail, remote.pc # "idle"
    PROVE  RemoteType' /\ RemoteInv' /\ RemoteKeeps /\ remote'.pc = "error"
  <1>1. RemoteType' /\ remote'.pc = "error" /\ RemoteKeeps /\ RemoteDid' = RemoteDid
    BY RemoteMoves DEF RemoteFail, RemoteLabels
  <1>2. AsksLate' /\ Permitted' /\ OutputWhole'
    BY <1>1 DEF RemoteInv, AsksLate, Permitted, OutputWhole, RemoteKeeps
  <1>3. RemoteContained'
    BY <1>1 DEF RemoteInv, RemoteContained, RemoteKeeps, RemoteDid
  <1> QED BY <1>1, <1>2, <1>3 DEF RemoteInv

\* A path that was authorized is below a root as the server resolves it.
LEMMA SecureIsUnder ==
    ASSUME NEW p \in SecurePaths, NoPath \notin SecurePaths
    PROVE  Under(p, remote.roots)
  BY DEF SecurePaths, secureExistingPath, secureCreationPath, Authorized

\* Every step of the Remote Worker preserves its invariant.
LEMMA RemotePreserves ==
    ASSUME RemoteType, RemoteInv, RemoteStep
    PROVE  RemoteType' /\ RemoteInv' /\ RemoteKeeps /\ remote.pc # "idle" /\ remote'.pc # "idle"
  <1> DEFINE Goal == RemoteType' /\ RemoteInv' /\ RemoteKeeps /\ remote.pc # "idle" /\ remote'.pc # "idle"
  <1>f. ASSUME RemoteFail, remote.pc # "idle" PROVE Goal
    BY <1>f, RemoteFails
  <1>1. ASSUME NEW accepted \in BOOLEAN, NEW confined \in BOOLEAN, RemoteAuthorize(accepted, confined)
        PROVE  Goal
    <2>1. CASE /\ operationAllowed(remote.op, remote.path, remote.destination, remote.profile)
               /\ remote' = [remote EXCEPT !.pc = "connect"]
      <3>1. RemoteType' /\ remote'.pc = "connect" /\ RemoteKeeps /\ RemoteDid' = RemoteDid
        BY <2>1, RemoteMoves DEF RemoteLabels
      <3>2. remote.pc = "job"
        BY <1>1 DEF RemoteAuthorize
      <3>3. AsksLate' /\ Permitted' /\ OutputWhole'
        BY <2>1, <3>1, <3>2 DEF RemoteInv, AsksLate, Permitted, OutputWhole, RemoteKeeps, RemoteDid
      <3>4. RemoteContained'
        BY <3>1 DEF RemoteInv, RemoteContained, RemoteKeeps, RemoteDid
      <3> QED BY <3>1, <3>2, <3>3, <3>4 DEF RemoteInv
    <2> QED BY <1>1, <1>f, <2>1 DEF RemoteAuthorize
  <1>2. ASSUME RemoteConnect PROVE Goal
    <2> DEFINE l == IF remote.op = "ssh_exec" THEN "command" ELSE "roots"
    <2>1. /\ l = "command" => remote.op = "ssh_exec"
          /\ l = "roots" => remote.op \in SFTPOps
          /\ l \in {"command", "roots"}
      BY <1>2 DEF RemoteConnect, RemoteOps, RemoteInv, Permitted
    <2>2. remote.pc = "connect" /\ remote' = [remote EXCEPT !.pc = l]
      BY <1>2 DEF RemoteConnect
    <2> HIDE DEF l
    <2>3. RemoteType' /\ remote'.pc = l /\ RemoteKeeps /\ RemoteDid' = RemoteDid
      BY <2>1, <2>2, RemoteMoves DEF RemoteLabels
    <2>4. AsksLate' /\ Permitted' /\ OutputWhole'
      BY <2>1, <2>2, <2>3 DEF RemoteInv, AsksLate, Permitted, OutputWhole, RemoteKeeps, RemoteDid
    <2>5. RemoteContained'
      BY <2>3 DEF RemoteInv, RemoteContained, RemoteKeeps, RemoteDid
    <2> QED BY <2>1, <2>2, <2>3, <2>4, <2>5 DEF RemoteInv
  <1>3. ASSUME RemoteRoots PROVE Goal
    <2> DEFINE resolved == {RealPath[r] : r \in remote.profile.roots}
    <2>1. CASE NoPath \notin resolved /\ remote' = [remote EXCEPT !.pc = "paths", !.roots = resolved]
      <3>1. /\ RemoteType' /\ remote'.pc = "paths" /\ RemoteKeeps /\ RemoteDid' = RemoteDid
            /\ remote'.roots = resolved
        BY <2>1 DEF RemoteType, RemoteLabels, RemoteKeeps, RemoteDid
      <3>2. remote.pc = "roots"
        BY <1>3 DEF RemoteRoots
      <3>3. AsksLate' /\ Permitted' /\ OutputWhole'
        BY <2>1, <3>1, <3>2 DEF RemoteInv, AsksLate, Permitted, OutputWhole, RemoteKeeps, RemoteDid
      <3>4. RemoteContained'
        BY <3>1 DEF RemoteInv, RemoteContained, RemoteKeeps, RemoteDid
      <3> QED BY <3>1, <3>2, <3>3, <3>4 DEF RemoteInv
    <2> QED BY <1>3, <1>f, <2>1 DEF RemoteRoots
  <1>4. ASSUME NEW done \in BOOLEAN, RemoteOperate(done) PROVE Goal
    <2> DEFINE f == IF remote.op = "sftp_write" THEN "emptied" ELSE remote.file
               l == IF remote.op = "sftp_write" THEN "copy" ELSE "limits"
    <2>1. CASE NoPath \notin SecurePaths /\ remote' = [remote EXCEPT !.touched = SecurePaths, !.file = f, !.pc = l]
      <3>1. /\ remote.pc = "paths" /\ remote.op \in SFTPOps /\ ~remote.ran
            /\ operationAllowed(remote.op, remote.path, remote.destination, remote.profile)
            /\ remote.roots = {RealPath[r] : r \in remote.profile.roots} /\ NoPath \notin remote.roots
        BY <1>4 DEF RemoteOperate, RemoteInv, Permitted, AsksLate
      <3>2. /\ f \in {"kept", "emptied", "written"} /\ l \in {"copy", "limits"}
            /\ l = "limits" => remote.op # "sftp_write"
        BY DEF RemoteType
      <3>3. /\ RemoteType' /\ remote'.pc = l /\ RemoteKeeps /\ remote'.touched = SecurePaths
            /\ remote'.ran = remote.ran
        <4> HIDE DEF f, l
        <4> QED BY <2>1, <3>2 DEF RemoteType, RemoteLabels, RemoteKeeps
      <3>4. AsksLate' /\ OutputWhole'
        BY <3>1, <3>2, <3>3 DEF AsksLate, OutputWhole, RemoteKeeps, SFTPOps
      <3>5. Permitted'
        BY <3>1, <3>2, <3>3 DEF Permitted, RemoteKeeps, RemoteOps
      <3>6. RemoteContained'
        <4>1. ASSUME NEW p \in SecurePaths
              PROVE  \E r \in remote.profile.roots : RealPath[r] # NoPath /\ IsPrefix(RealPath[r], p)
          <5>1. PICK q \in remote.roots : IsPrefix(q, p)
            BY <2>1, SecureIsUnder DEF Under
          <5> QED BY <3>1, <5>1
        <4>2. IF remote.op \in {"sftp_list", "sftp_read"} THEN remote.profile.read ELSE remote.profile.write
          BY <3>1 DEF operationAllowed, SFTPOps
        <4> QED BY <3>1, <3>3, <4>1, <4>2 DEF RemoteContained, RemoteKeeps
      <3> QED BY <3>1, <3>2, <3>3, <3>4, <3>5, <3>6 DEF RemoteInv
    <2> QED BY <1>4, <1>f, <2>1 DEF RemoteOperate
  <1>5. ASSUME NEW copied \in BOOLEAN, RemoteCopy(copied) PROVE Goal
    <2>1. CASE remote' = [remote EXCEPT !.file = "written", !.pc = "limits"]
      <3>1. /\ RemoteType' /\ remote'.pc = "limits" /\ RemoteKeeps /\ remote'.touched = remote.touched
            /\ remote'.ran = remote.ran /\ remote'.file = "written"
        BY <2>1 DEF RemoteType, RemoteLabels, RemoteKeeps
      <3>2. remote.pc = "copy"
        BY <1>5 DEF RemoteCopy
      <3>3. AsksLate' /\ Permitted' /\ OutputWhole'
        BY <3>1, <3>2 DEF RemoteInv, AsksLate, Permitted, OutputWhole, RemoteKeeps
      <3>4. RemoteContained'
        BY <3>1 DEF RemoteInv, RemoteContained, RemoteKeeps
      <3> QED BY <3>1, <3>2, <3>3, <3>4 DEF RemoteInv
    <2> QED BY <1>5, <1>f, <2>1 DEF RemoteCopy
  <1>6. ASSUME NEW within \in BOOLEAN, RemoteLimits(within) PROVE Goal
    <2>1. CASE remote' = [remote EXCEPT !.pc = "success"]
      <3>1. RemoteType' /\ remote'.pc = "success" /\ RemoteKeeps /\ RemoteDid' = RemoteDid
        BY <2>1, RemoteMoves DEF RemoteLabels
      <3>2. remote.pc = "limits"
        BY <1>6 DEF RemoteLimits
      <3>3. AsksLate' /\ Permitted' /\ OutputWhole'
        BY <3>1, <3>2 DEF RemoteInv, AsksLate, Permitted, OutputWhole, RemoteKeeps, RemoteDid, SFTPOps
      <3>4. RemoteContained'
        BY <3>1 DEF RemoteInv, RemoteContained, RemoteKeeps, RemoteDid
      <3> QED BY <3>1, <3>2, <3>3, <3>4 DEF RemoteInv
    <2> QED BY <1>6, <1>f, <2>1 DEF RemoteLimits
  <1>7. ASSUME RemoteCommand PROVE Goal
    <2>1. remote.pc = "command" /\ remote' = [remote EXCEPT !.pc = "output", !.ran = TRUE]
      BY <1>7 DEF RemoteCommand
    <2>2. /\ RemoteType' /\ remote'.pc = "output" /\ RemoteKeeps /\ remote'.touched = remote.touched
          /\ remote'.kept = remote.kept /\ remote'.produced = remote.produced
          /\ remote'.exceeded = remote.exceeded
      BY <2>1 DEF RemoteType, RemoteLabels, RemoteKeeps
    <2>3. AsksLate' /\ Permitted' /\ OutputWhole'
      BY <2>1, <2>2 DEF RemoteInv, AsksLate, Permitted, OutputWhole, RemoteKeeps
    <2>4. remote.profile.command
      BY <2>1 DEF RemoteInv, Permitted, operationAllowed, CommandAllowed
    <2>5. RemoteContained'
      BY <2>2, <2>4 DEF RemoteInv, RemoteContained, RemoteKeeps
    <2> QED BY <2>1, <2>2, <2>3, <2>5 DEF RemoteInv
  <1>8. ASSUME NEW s \in Streams, NEW n \in 1..MaxProduced, RemoteOutput(s, n) PROVE Goal
    <2> DEFINE allowed == IF n > remote.remaining THEN remote.remaining ELSE n
    <2>1. /\ remote.pc = "output" /\ remote.kept[s] = remote.produced[s]
          /\ remote' = [remote EXCEPT !.produced = [remote.produced EXCEPT ![s] = @ + n],
                                      !.kept = [remote.kept EXCEPT ![s] = @ + allowed],
                                      !.remaining = remote.remaining - allowed,
                                      !.exceeded = remote.exceeded \/ Overflows(n)]
      BY <1>8 DEF RemoteOutput
    <2>2. n \in Nat /\ remote.remaining \in Nat /\ allowed \in Nat /\ remote.remaining - allowed \in Nat
      BY RemoteAssumption DEF RemoteType
    <2>3. /\ remote.produced \in [Streams -> Nat] /\ remote.kept \in [Streams -> Nat]
          /\ [remote.produced EXCEPT ![s] = @ + n] \in [Streams -> Nat]
          /\ [remote.kept EXCEPT ![s] = @ + allowed] \in [Streams -> Nat]
      <3>1. remote.produced \in [Streams -> Nat] /\ remote.kept \in [Streams -> Nat]
        BY DEF RemoteType
      <3> HIDE DEF allowed
      <3> QED BY <2>2, <3>1
    <2>4. (remote.exceeded \/ Overflows(n)) \in BOOLEAN
      BY DEF Overflows
    <2>5. /\ RemoteType' /\ remote'.pc = "output" /\ RemoteKeeps
          /\ remote'.touched = remote.touched /\ remote'.ran = remote.ran
          /\ remote'.produced = [remote.produced EXCEPT ![s] = @ + n]
          /\ remote'.kept = [remote.kept EXCEPT ![s] = @ + allowed]
          /\ remote'.exceeded = (remote.exceeded \/ Overflows(n))
      <3> HIDE DEF allowed
      <3> QED BY <2>1, <2>2, <2>3, <2>4, ZenonT(30) DEF RemoteType, RemoteLabels, RemoteKeeps
    <2>6. ~remote'.exceeded => remote'.kept = remote'.produced
      <3> SUFFICES ASSUME ~remote'.exceeded PROVE remote'.kept = remote'.produced
        OBVIOUS
      <3>1. ~remote.exceeded /\ ~Overflows(n)
        BY <2>5
      <3>2. remote.kept = remote.produced
        BY <2>1, <3>1 DEF RemoteInv, OutputWhole
      <3>3. allowed = n
        BY <3>1 DEF Overflows
      <3> QED BY <2>5, <3>2, <3>3
    <2>7. AsksLate' /\ Permitted' /\ OutputWhole'
      BY <2>1, <2>5, <2>6 DEF RemoteInv, AsksLate, Permitted, OutputWhole, RemoteKeeps
    <2>8. RemoteContained'
      BY <2>5 DEF RemoteInv, RemoteContained, RemoteKeeps
    <2> QED BY <2>1, <2>5, <2>7, <2>8 DEF RemoteInv
  <1>9. ASSUME RemoteExit PROVE Goal
    <2> DEFINE l == IF remote.exceeded THEN "error" ELSE "success"
    <2>1. remote.pc = "output" /\ remote' = [remote EXCEPT !.pc = l]
      BY <1>9 DEF RemoteExit
    <2>2. l \in {"error", "success"} /\ (l = "success" => ~remote.exceeded)
      OBVIOUS
    <2> HIDE DEF l
    <2>3. RemoteType' /\ remote'.pc = l /\ RemoteKeeps /\ RemoteDid' = RemoteDid
      BY <2>1, <2>2, RemoteMoves DEF RemoteLabels
    <2>4. AsksLate' /\ Permitted' /\ OutputWhole'
      BY <2>1, <2>2, <2>3 DEF RemoteInv, AsksLate, Permitted, OutputWhole, RemoteKeeps, RemoteDid
    <2>5. RemoteContained'
      BY <2>3 DEF RemoteInv, RemoteContained, RemoteKeeps, RemoteDid
    <2> QED BY <2>1, <2>2, <2>3, <2>4, <2>5 DEF RemoteInv
  <1>10. ASSUME RemoteBroken PROVE Goal
    BY <1>10, <1>f DEF RemoteBroken, RemoteRunning
  <1> QED
    BY <1>1, <1>2, <1>3, <1>4, <1>5, <1>6, <1>7, <1>8, <1>9, <1>10 DEF RemoteStep

----------------------------------------------------------------------------
(* Proofs: the call. *)

LEMMA WorkersSame ==
    ASSUME UNCHANGED <<net, remote>>, NetType, RemoteType, NetInv, RemoteInv
    PROVE  NetType' /\ RemoteType' /\ NetInv' /\ RemoteInv'
  <1>1. NetType' /\ NetInv'
    BY DEF NetType, NetInv, Validated, Allowance, BodyWhole, RequestsPermitted
  <1>2. RemoteType' /\ RemoteInv'
    BY DEF RemoteType, RemoteInv, AsksLate, Permitted, OutputWhole, RemoteContained
  <1> QED BY <1>1, <1>2

\* A worker that is handed its job has done nothing yet.
LEMMA NetworkStarts ==
    ASSUME NetType, NetInv, net.pc = "idle", net' = [net EXCEPT !.pc = "job"]
    PROVE  NetType' /\ NetInv' /\ net'.op = net.op
  <1>1. /\ NetType' /\ net'.pc = "job" /\ net'.op = net.op /\ net'.policy = net.policy
        /\ net'.dialled = net.dialled /\ net'.sent = net.sent
    BY NetworkMoves DEF NetLabels
  <1>2. Validated' /\ Allowance' /\ BodyWhole'
    BY <1>1 DEF NetInv, Validated, Allowance, BodyWhole
  <1>3. RequestsPermitted'
    BY <1>1 DEF NetInv, RequestsPermitted
  <1> QED BY <1>1, <1>2, <1>3 DEF NetInv

LEMMA RemoteStarts ==
    ASSUME RemoteType, RemoteInv, remote.pc = "idle", remote.op \in RemoteOps,
           remote' = [remote EXCEPT !.pc = "job"]
    PROVE  RemoteType' /\ RemoteInv' /\ remote'.op = remote.op
  <1>1. RemoteType' /\ remote'.pc = "job" /\ RemoteKeeps /\ RemoteDid' = RemoteDid
    BY RemoteMoves DEF RemoteLabels
  <1>2. AsksLate' /\ Permitted' /\ OutputWhole'
    BY <1>1 DEF RemoteInv, AsksLate, Permitted, OutputWhole, RemoteKeeps, RemoteDid
  <1>3. RemoteContained'
    BY <1>1 DEF RemoteInv, RemoteContained, RemoteKeeps, RemoteDid
  <1> QED BY <1>1, <1>2, <1>3 DEF RemoteInv, RemoteKeeps

\* Every step preserves the inductive invariant.
LEMMA StepPreserves == IInv /\ [Next]_vars => IInv'
  <1> SUFFICES ASSUME IInv, [Next]_vars PROVE IInv'
    OBVIOUS
  <1>0. TypeOK /\ CallType /\ NetType /\ RemoteType
    BY DEF IInv, TypeOK
  <1>1. ASSUME NEW recorded \in BOOLEAN, Begin(recorded) PROVE IInv'
    <2>1. UNCHANGED <<net, remote>>
      BY <1>1 DEF Begin
    <2>2. NetType' /\ RemoteType' /\ NetInv' /\ RemoteInv'
      BY <1>0, <2>1, WorkersSame DEF IInv
    <2>3. CallType'
      BY <1>0, <1>1, <2>1 DEF IInv, CallType, CallLabels, Messages, Begin
    <2>4. OneWorker'
      BY <1>0, <1>1, <2>1 DEF IInv, CallType, OneWorker, Begin
    <2>5. LaunchedLate'
      BY <1>0, <1>1, <2>1 DEF IInv, CallType, LaunchedLate, NothingDone, Begin
    <2>6. WrittenLate'
      BY <1>0, <1>1, <2>1 DEF IInv, CallType, WrittenLate, Begin
    <2>7. ResultTrue'
      <3>1. pc = "call" /\ net.sent = << >> /\ remote.touched = {} /\ ~remote.ran /\ exec = "none" /\ file # Downloaded
        BY <1>1 DEF Begin, IInv, LaunchedLate, NothingDone, NetInv, Validated, RemoteInv, AsksLate, WrittenLate
      <3> QED BY <1>1, <2>1, <3>1 DEF IInv, ResultTrue, Refused, Begin
    <2> QED BY <2>2, <2>3, <2>4, <2>5, <2>6, <2>7 DEF IInv, TypeOK
  <1>2. ASSUME NEW available \in BOOLEAN, Profile(available) PROVE IInv'
    <2>1. UNCHANGED <<net, remote>>
      BY <1>2 DEF Profile
    <2>2. NetType' /\ RemoteType' /\ NetInv' /\ RemoteInv'
      BY <1>0, <2>1, WorkersSame DEF IInv
    <2>3. CallType'
      BY <1>0, <1>2, <2>1 DEF IInv, CallType, CallLabels, Messages, Profile, Finish
    <2>4. OneWorker'
      BY <1>0, <1>2, <2>1 DEF IInv, CallType, OneWorker, Profile, Finish
    <2>5. LaunchedLate'
      BY <1>0, <1>2, <2>1 DEF IInv, CallType, LaunchedLate, NothingDone, Profile, Finish
    <2>6. WrittenLate'
      BY <1>0, <1>2, <2>1 DEF IInv, CallType, WrittenLate, Profile, Finish
    <2>7. ResultTrue'
      <3>1. pc = "profile" /\ net.sent = << >> /\ remote.touched = {} /\ ~remote.ran /\ exec = "none" /\ file # Downloaded
        BY <1>2 DEF Profile, IInv, LaunchedLate, NothingDone, NetInv, Validated, RemoteInv, AsksLate, WrittenLate
      <3> QED BY <1>2, <2>1, <3>1 DEF IInv, ResultTrue, Refused, Profile, Finish
    <2> QED BY <2>2, <2>3, <2>4, <2>5, <2>6, <2>7 DEF IInv, TypeOK
  <1>3. ASSUME NEW outcome \in Outcomes, ReadSource(outcome) PROVE IInv'
    <2>1. UNCHANGED <<net, remote>>
      BY <1>3 DEF ReadSource
    <2>2. NetType' /\ RemoteType' /\ NetInv' /\ RemoteInv'
      BY <1>0, <2>1, WorkersSame DEF IInv
    <2>3. CallType'
      BY <1>0, <1>3, <2>1 DEF IInv, CallType, CallLabels, Messages, ReadSource, Fails,
         Finish, Outcomes
    <2>4. OneWorker'
      BY <1>0, <1>3, <2>1 DEF IInv, CallType, OneWorker, ReadSource, Fails, Finish,
         Outcomes
    <2>5. LaunchedLate'
      BY <1>0, <1>3, <2>1 DEF IInv, CallType, LaunchedLate, NothingDone, ReadSource,
         Fails, Finish, Outcomes
    <2>6. WrittenLate'
      BY <1>0, <1>3, <2>1 DEF IInv, CallType, WrittenLate, ReadSource, Fails, Finish,
         Outcomes
    <2>7. ResultTrue'
      BY <1>0, <1>3, <2>1 DEF IInv, CallType, ResultTrue, Truth, Refused, OneWorker,
         LaunchedLate, NothingDone, WrittenLate, ReadSource, Fails, Finish, Outcomes
    <2> QED BY <2>2, <2>3, <2>4, <2>5, <2>6, <2>7 DEF IInv, TypeOK
  <1>4. ASSUME NEW signed \in BOOLEAN, Launch(signed) PROVE IInv'
    <2>1. pc = "launch" /\ NothingDone /\ UNCHANGED <<op, cancelled, audit, expected, preflight, file, answer>>
      BY <1>4 DEF Launch, IInv, LaunchedLate
    <2>2. CASE (Fails("cancelled") \/ Fails("error")) /\ UNCHANGED <<exec, net, remote>>
      <3>1. NetType' /\ RemoteType' /\ NetInv' /\ RemoteInv'
        BY <1>0, <2>2, WorkersSame DEF IInv
      <3>2. CallType'
        BY <1>0, <2>1, <2>2 DEF CallType, CallLabels, Messages, Fails, Finish
      <3>3. OneWorker' /\ LaunchedLate' /\ WrittenLate'
        BY <2>1, <2>2 DEF IInv, OneWorker, LaunchedLate, NothingDone, WrittenLate, Fails, Finish
      <3>4. ResultTrue'
        BY <2>1, <2>2 DEF IInv, ResultTrue, Truth, Refused, WrittenLate, Fails, Finish
      <3> QED BY <3>1, <3>2, <3>3, <3>4 DEF IInv, TypeOK
    <2>3. CASE /\ pc' = "running" /\ UNCHANGED finish
               /\ exec' = IF op = "exec" THEN "asked" ELSE exec
               /\ net' = IF op \in NetworkOps THEN [net EXCEPT !.pc = "job"] ELSE net
               /\ remote' = IF op \in RemoteOps THEN [remote EXCEPT !.pc = "job"] ELSE remote
      <3>1. NetType' /\ NetInv' /\ net'.op = net.op
        BY <1>0, <2>1, <2>3, NetworkStarts
           DEF NothingDone, IInv, NetType, NetInv, Validated, Allowance, BodyWhole, RequestsPermitted
      <3>2. RemoteType' /\ RemoteInv' /\ remote'.op = remote.op
        <4>1. CASE op \in RemoteOps
          BY <1>0, <2>1, <2>3, <4>1, RemoteStarts DEF NothingDone, IInv, OneWorker
        <4>2. CASE op \notin RemoteOps
          BY <1>0, <2>3, <4>2
             DEF IInv, RemoteType, RemoteInv, AsksLate, Permitted, OutputWhole, RemoteContained
        <4> QED BY <4>1, <4>2
      <3>3. CallType'
        BY <1>0, <2>1, <2>3 DEF CallType, CallLabels
      <3>4. OneWorker'
        BY <2>1, <2>3, <3>1, <3>2 DEF IInv, OneWorker
      <3>5. LaunchedLate' /\ WrittenLate'
        BY <2>1, <2>3 DEF IInv, LaunchedLate, WrittenLate
      <3>6. ResultTrue'
        BY <2>1, <2>3 DEF IInv, ResultTrue, Refused
      <3> QED BY <3>1, <3>2, <3>3, <3>4, <3>5, <3>6 DEF IInv, TypeOK
    <2> QED BY <1>4, <2>1, <2>2, <2>3 DEF Launch
  <1>5. ASSUME Work PROVE IInv'
    <2>1. pc = "running" /\ UNCHANGED <<op, pc, cancelled, audit, finish, expected, preflight, file, exec, answer>>
      BY <1>5 DEF Work, callVars
    <2>2. /\ NetType' /\ NetInv' /\ net'.op = net.op /\ (net.pc = "idle" => net'.pc = "idle")
          /\ RemoteType' /\ RemoteInv' /\ remote'.op = remote.op /\ (remote.pc = "idle" => remote'.pc = "idle")
      <3>1. CASE NetworkStep /\ UNCHANGED remote
        <4>1. NetType' /\ NetInv' /\ NetKeeps
          BY <1>0, <3>1, NetworkPreserves DEF IInv
        <4>2. RemoteType' /\ RemoteInv'
          BY <1>0, <3>1 DEF IInv, RemoteType, RemoteInv, AsksLate, Permitted, OutputWhole, RemoteContained
        <4> QED BY <3>1, <4>1, <4>2 DEF NetKeeps
      <3>2. CASE RemoteStep /\ UNCHANGED net
        <4>1. /\ RemoteType' /\ RemoteInv' /\ RemoteKeeps /\ remote.pc # "idle"
          BY <1>0, <3>2, RemotePreserves DEF IInv
        <4>2. NetType' /\ NetInv'
          BY <1>0, <3>2 DEF IInv, NetType, NetInv, Validated, Allowance, BodyWhole, RequestsPermitted
        <4> QED BY <3>2, <4>1, <4>2 DEF RemoteKeeps
      <3> QED BY <1>5, <3>1, <3>2 DEF Work
    <2>3. CallType'
      BY <1>0, <2>1 DEF CallType
    <2>4. OneWorker' /\ LaunchedLate' /\ WrittenLate'
      BY <2>1, <2>2 DEF IInv, OneWorker, LaunchedLate, NothingDone, WrittenLate
    <2>5. ResultTrue'
      BY <2>1 DEF IInv, ResultTrue, Refused
    <2> QED BY <2>2, <2>3, <2>4, <2>5 DEF IInv, TypeOK
  <1>6. ASSUME Supervise PROVE IInv'
    <2>1. UNCHANGED <<net, remote>>
      BY <1>6 DEF Supervise
    <2>2. NetType' /\ RemoteType' /\ NetInv' /\ RemoteInv'
      BY <1>0, <2>1, WorkersSame DEF IInv
    <2>3. CallType'
      BY <1>0, <1>6, <2>1 DEF IInv, CallType, CallLabels, Messages, Supervise
    <2>4. OneWorker'
      BY <1>0, <1>6, <2>1 DEF IInv, CallType, OneWorker, Supervise
    <2>5. LaunchedLate'
      BY <1>0, <1>6, <2>1 DEF IInv, CallType, LaunchedLate, NothingDone, Supervise
    <2>6. WrittenLate'
      BY <1>0, <1>6, <2>1 DEF IInv, CallType, WrittenLate, Supervise
    <2>7. ResultTrue'
      BY <1>0, <1>6, <2>1 DEF IInv, CallType, ResultTrue, Truth, Refused, OneWorker,
         LaunchedLate, NothingDone, WrittenLate, Supervise
    <2> QED BY <2>2, <2>3, <2>4, <2>5, <2>6, <2>7 DEF IInv, TypeOK
  <1>7. ASSUME NEW good \in BOOLEAN, Collect(good) PROVE IInv'
    <2>1. /\ pc = "running" /\ file # Downloaded
          /\ UNCHANGED <<op, cancelled, audit, expected, preflight, file, exec, answer, net, remote>>
      BY <1>7 DEF Collect, IInv, WrittenLate
    <2>2. NetType' /\ RemoteType' /\ NetInv' /\ RemoteInv'
      BY <1>0, <2>1, WorkersSame DEF IInv
    <2>3. CASE Fails("error")
      <3>1. CallType'
        BY <1>0, <2>1, <2>3 DEF CallType, CallLabels, Messages, Fails, Finish
      <3>2. OneWorker' /\ LaunchedLate' /\ WrittenLate'
        BY <2>1, <2>3 DEF IInv, OneWorker, LaunchedLate, NothingDone, WrittenLate, Fails, Finish
      <3>3. ResultTrue'
        BY <2>1, <2>3 DEF IInv, ResultTrue, Refused, Fails, Finish
      <3> QED BY <2>2, <3>1, <3>2, <3>3 DEF IInv, TypeOK
    <2>4. CASE Succeeded /\ op = "download" /\ pc' = "checksum" /\ UNCHANGED finish
      <3>1. net.pc = "success"
        BY <2>4 DEF Succeeded, IInv, OneWorker, RemoteOps, SFTPOps
      <3>2. CallType'
        BY <1>0, <2>1, <2>4 DEF CallType, CallLabels
      <3>3. OneWorker' /\ LaunchedLate' /\ WrittenLate'
        BY <2>1, <2>4, <3>1 DEF IInv, OneWorker, LaunchedLate, NothingDone, WrittenLate
      <3>4. ResultTrue'
        BY <2>1, <2>4 DEF IInv, ResultTrue, Refused
      <3> QED BY <2>2, <3>2, <3>3, <3>4 DEF IInv, TypeOK
    <2>5. CASE Succeeded /\ op # "download" /\ Finish("success", "success")
      <3>1. CallType'
        BY <1>0, <2>1, <2>5 DEF CallType, CallLabels, Messages, Finish
      <3>2. OneWorker' /\ LaunchedLate' /\ WrittenLate'
        BY <2>1, <2>5 DEF IInv, OneWorker, LaunchedLate, NothingDone, WrittenLate, Finish
      <3>3. Truth
        <4>1. CASE op \in NetworkOps
          BY <2>5, <4>1 DEF Truth, Succeeded, IInv, OneWorker, NetInv, BodyWhole, NetworkOps, RemoteOps, SFTPOps
        <4>2. CASE op \in RemoteOps
          BY <2>5, <4>2 DEF Truth, Succeeded, IInv, OneWorker, RemoteInv, OutputWhole, NetworkOps, RemoteOps, SFTPOps
        <4>3. CASE op = "exec"
          BY <2>5, <4>3 DEF Truth, Succeeded, IInv, OneWorker, NetworkOps, RemoteOps, SFTPOps
        <4> QED BY <1>0, <4>1, <4>2, <4>3 DEF CallType, Ops
      <3>4. ResultTrue'
        BY <2>1, <2>5, <3>3 DEF IInv, ResultTrue, Truth, Refused, Finish
      <3> QED BY <2>2, <3>1, <3>2, <3>4 DEF IInv, TypeOK
    <2> QED BY <1>7, <2>3, <2>4, <2>5 DEF Collect
  <1>8. ASSUME NEW message \in {"cancelled", "timeout"}, Kill(message) PROVE IInv'
    <2>1. UNCHANGED <<net, remote>>
      BY <1>8 DEF Kill
    <2>2. NetType' /\ RemoteType' /\ NetInv' /\ RemoteInv'
      BY <1>0, <2>1, WorkersSame DEF IInv
    <2>3. CallType'
      BY <1>0, <1>8, <2>1 DEF IInv, CallType, CallLabels, Messages, Kill, Fails, Finish,
         Killed
    <2>4. OneWorker'
      BY <1>0, <1>8, <2>1 DEF IInv, CallType, OneWorker, Kill, Fails, Finish, Killed
    <2>5. LaunchedLate'
      BY <1>0, <1>8, <2>1 DEF IInv, CallType, LaunchedLate, NothingDone, Kill, Fails,
         Finish, Killed
    <2>6. WrittenLate'
      BY <1>0, <1>8, <2>1 DEF IInv, CallType, WrittenLate, Kill, Fails, Finish, Killed
    <2>7. ResultTrue'
      BY <1>0, <1>8, <2>1 DEF IInv, CallType, ResultTrue, Truth, Refused, OneWorker,
         LaunchedLate, NothingDone, WrittenLate, Kill, Fails, Finish, Killed
    <2> QED BY <2>2, <2>3, <2>4, <2>5, <2>6, <2>7 DEF IInv, TypeOK
  <1>9. ASSUME NEW outcome \in Outcomes, Checksum(outcome) PROVE IInv'
    <2>1. UNCHANGED <<net, remote>>
      BY <1>9 DEF Checksum
    <2>2. NetType' /\ RemoteType' /\ NetInv' /\ RemoteInv'
      BY <1>0, <2>1, WorkersSame DEF IInv
    <2>3. CallType'
      <3>1. file # Downloaded /\ file \in Contents \cup {Absent}
        BY <1>0, <1>9 DEF IInv, WrittenLate, Checksum, CallType
      <3>2. CASE (\E m \in {"error", "cancelled", "timeout"} : Fails(m)) /\ UNCHANGED preflight
        BY <1>0, <1>9, <3>1, <3>2 DEF CallType, CallLabels, Messages, Checksum, Fails, Finish
      <3>3. CASE preflight' = file /\ pc' = "write" /\ UNCHANGED finish
        BY <1>0, <1>9, <3>1, <3>3 DEF CallType, CallLabels, Checksum
      <3>4. CASE preflight' = file /\ Finish("denied", "denied")
        BY <1>0, <1>9, <3>1, <3>4 DEF CallType, CallLabels, Messages, Checksum, Finish
      <3> QED BY <1>9, <3>2, <3>3, <3>4 DEF Checksum, Outcomes
    <2>4. OneWorker'
      BY <1>0, <1>9, <2>1 DEF IInv, CallType, OneWorker, Checksum, Fails, Finish, Outcomes
    <2>5. LaunchedLate'
      <3>1. \/ \E m \in {"error", "cancelled", "timeout"} : Fails(m)
            \/ pc' = "write" /\ UNCHANGED finish
            \/ Finish("denied", "denied")
        BY <1>9 DEF Checksum, Outcomes
      <3>2. pc = "checksum" /\ UNCHANGED <<audit, file, exec>>
        BY <1>9 DEF Checksum
      <3> QED BY <2>1, <3>1, <3>2 DEF IInv, LaunchedLate, NothingDone, Fails, Finish
    <2>6. WrittenLate'
      BY <1>0, <1>9, <2>1 DEF IInv, CallType, WrittenLate, Checksum, Fails, Finish,
         Outcomes
    <2>7. ResultTrue'
      <3>1. /\ pc = "checksum" /\ op = "download" /\ file # Downloaded
            /\ remote.touched = {} /\ ~remote.ran /\ exec = "none"
        BY <1>9 DEF Checksum, IInv, OneWorker, WrittenLate, RemoteInv, AsksLate, RemoteOps, SFTPOps
      <3>2. \/ \E m \in {"error", "cancelled", "timeout"} : Fails(m)
            \/ pc' = "write" /\ UNCHANGED finish
            \/ Finish("denied", "denied")
        BY <1>9 DEF Checksum, Outcomes
      <3>3. UNCHANGED <<op, audit, file, exec, answer>>
        BY <1>9 DEF Checksum
      <3> QED BY <2>1, <3>1, <3>2, <3>3 DEF IInv, ResultTrue, Refused, Fails, Finish
    <2> QED BY <2>2, <2>3, <2>4, <2>5, <2>6, <2>7 DEF IInv, TypeOK
  <1>10. ASSUME StartWrite PROVE IInv'
    <2>1. UNCHANGED <<net, remote>>
      BY <1>10 DEF StartWrite
    <2>2. NetType' /\ RemoteType' /\ NetInv' /\ RemoteInv'
      BY <1>0, <2>1, WorkersSame DEF IInv
    <2>3. CallType'
      BY <1>0, <1>10, <2>1 DEF IInv, CallType, CallLabels, Messages, StartWrite, Fails,
         Finish
    <2>4. OneWorker'
      BY <1>0, <1>10, <2>1 DEF IInv, CallType, OneWorker, StartWrite, Fails, Finish
    <2>5. LaunchedLate'
      BY <1>0, <1>10, <2>1 DEF IInv, CallType, LaunchedLate, NothingDone, StartWrite,
         Fails, Finish
    <2>6. WrittenLate'
      BY <1>0, <1>10, <2>1 DEF IInv, CallType, WrittenLate, StartWrite, Fails, Finish
    <2>7. ResultTrue'
      BY <1>0, <1>10, <2>1 DEF IInv, CallType, ResultTrue, Truth, Refused, OneWorker,
         LaunchedLate, NothingDone, WrittenLate, StartWrite, Fails, Finish
    <2> QED BY <2>2, <2>3, <2>4, <2>5, <2>6, <2>7 DEF IInv, TypeOK
  <1>11. ASSUME Replace PROVE IInv'
    <2>1. UNCHANGED <<net, remote>>
      BY <1>11 DEF Replace
    <2>2. NetType' /\ RemoteType' /\ NetInv' /\ RemoteInv'
      BY <1>0, <2>1, WorkersSame DEF IInv
    <2>3. CallType'
      BY <1>0, <1>11, <2>1 DEF IInv, CallType, CallLabels, Messages, Replace
    <2>4. OneWorker'
      BY <1>0, <1>11, <2>1 DEF IInv, CallType, OneWorker, Replace
    <2>5. LaunchedLate'
      BY <1>0, <1>11, <2>1 DEF IInv, CallType, LaunchedLate, NothingDone, Replace
    <2>6. WrittenLate'
      BY <1>0, <1>11, <2>1 DEF IInv, CallType, WrittenLate, Replace
    <2>7. ResultTrue'
      BY <1>0, <1>11, <2>1 DEF IInv, CallType, ResultTrue, Truth, Refused, OneWorker,
         LaunchedLate, NothingDone, WrittenLate, Replace
    <2> QED BY <2>2, <2>3, <2>4, <2>5, <2>6, <2>7 DEF IInv, TypeOK
  <1>12. ASSUME NEW message \in CommitOutcomes, EndWrite(message) PROVE IInv'
    <2>1. UNCHANGED <<net, remote>>
      BY <1>12 DEF EndWrite
    <2>2. NetType' /\ RemoteType' /\ NetInv' /\ RemoteInv'
      BY <1>0, <2>1, WorkersSame DEF IInv
    <2>3. CallType'
      BY <1>0, <1>12, <2>1 DEF IInv, CallType, CallLabels, Messages, EndWrite, Written,
         CommitOutcomes
    <2>4. OneWorker'
      BY <1>0, <1>12, <2>1 DEF IInv, CallType, OneWorker, EndWrite, Written,
         CommitOutcomes
    <2>5. LaunchedLate'
      BY <1>0, <1>12, <2>1 DEF IInv, CallType, LaunchedLate, NothingDone, EndWrite,
         Written, CommitOutcomes
    <2>6. WrittenLate'
      BY <1>0, <1>12, <2>1 DEF IInv, CallType, WrittenLate, EndWrite, Written,
         CommitOutcomes
    <2>7. ResultTrue'
      <3>1. pc = "writing" /\ op = "download" /\ net.pc = "success" /\ net.bytes = net.size
        BY <1>12 DEF EndWrite, IInv, WrittenLate, NetInv, BodyWhole
      <3>2. message = "success" => Truth
        BY <1>12, <3>1 DEF EndWrite, Truth, RemoteOps, SFTPOps
      <3>3. UNCHANGED <<op, audit, file, exec, answer>> /\ pc' = "finish" /\ finish'.message = message
        BY <1>12 DEF EndWrite, Written
      <3>4. message = "success" => finish'.status = "success" /\ finish'.first = "audit"
        BY <1>12 DEF EndWrite, Written
      <3>5. message \notin {"denied", "cancelled"}
        BY DEF CommitOutcomes
      <3> QED BY <2>1, <3>1, <3>2, <3>3, <3>4, <3>5 DEF IInv, ResultTrue, Refused, Truth
    <2> QED BY <2>2, <2>3, <2>4, <2>5, <2>6, <2>7 DEF IInv, TypeOK
  <1>13. ASSUME NEW recorded \in BOOLEAN, Complete(recorded) PROVE IInv'
    <2>1. UNCHANGED <<net, remote>>
      BY <1>13 DEF Complete
    <2>2. NetType' /\ RemoteType' /\ NetInv' /\ RemoteInv'
      BY <1>0, <2>1, WorkersSame DEF IInv
    <2>3. CallType'
      BY <1>0, <1>13, <2>1 DEF IInv, CallType, CallLabels, Messages, Complete, Answer
    <2>4. OneWorker'
      BY <1>0, <1>13, <2>1 DEF IInv, CallType, OneWorker, Complete, Answer
    <2>5. LaunchedLate'
      BY <1>0, <1>13, <2>1 DEF IInv, CallType, LaunchedLate, NothingDone, Complete, Answer
    <2>6. WrittenLate'
      BY <1>0, <1>13, <2>1 DEF IInv, CallType, WrittenLate, Complete, Answer
    <2>7. ResultTrue'
      BY <1>0, <1>13, <2>1 DEF IInv, CallType, ResultTrue, Truth, Refused, OneWorker,
         LaunchedLate, NothingDone, WrittenLate, Complete, Answer
    <2> QED BY <2>2, <2>3, <2>4, <2>5, <2>6, <2>7 DEF IInv, TypeOK
  <1>14. ASSUME Cancel PROVE IInv'
    <2>1. UNCHANGED <<net, remote>>
      BY <1>14 DEF Cancel
    <2>2. NetType' /\ RemoteType' /\ NetInv' /\ RemoteInv'
      BY <1>0, <2>1, WorkersSame DEF IInv
    <2>3. CallType'
      BY <1>0, <1>14, <2>1 DEF IInv, CallType, CallLabels, Messages, Cancel
    <2>4. OneWorker'
      BY <1>0, <1>14, <2>1 DEF IInv, CallType, OneWorker, Cancel
    <2>5. LaunchedLate'
      BY <1>0, <1>14, <2>1 DEF IInv, CallType, LaunchedLate, NothingDone, Cancel
    <2>6. WrittenLate'
      BY <1>0, <1>14, <2>1 DEF IInv, CallType, WrittenLate, Cancel
    <2>7. ResultTrue'
      BY <1>0, <1>14, <2>1 DEF IInv, CallType, ResultTrue, Truth, Refused, OneWorker,
         LaunchedLate, NothingDone, WrittenLate, Cancel
    <2> QED BY <2>2, <2>3, <2>4, <2>5, <2>6, <2>7 DEF IInv, TypeOK
  <1>15. ASSUME NEW c \in Contents \cup {Absent}, Edit(c) PROVE IInv'
    <2>1. UNCHANGED <<net, remote>>
      BY <1>15 DEF Edit
    <2>2. NetType' /\ RemoteType' /\ NetInv' /\ RemoteInv'
      BY <1>0, <2>1, WorkersSame DEF IInv
    <2>3. CallType'
      BY <1>0, <1>15, <2>1 DEF IInv, CallType, CallLabels, Messages, Edit
    <2>4. OneWorker'
      BY <1>0, <1>15, <2>1 DEF IInv, CallType, OneWorker, Edit
    <2>5. LaunchedLate'
      BY <1>15, <2>1, ContentsAssumption DEF IInv, LaunchedLate, NothingDone, Edit, Absent, Downloaded
    <2>6. WrittenLate'
      BY <1>15, <2>1, ContentsAssumption DEF IInv, WrittenLate, Edit, Absent, Downloaded
    <2>7. ResultTrue'
      BY <1>15, <2>1, ContentsAssumption DEF IInv, ResultTrue, Truth, Refused, Edit, Absent, Downloaded
    <2> QED BY <2>2, <2>3, <2>4, <2>5, <2>6, <2>7 DEF IInv, TypeOK
  <1>16. CASE UNCHANGED vars
    <2>1. UNCHANGED <<net, remote>> /\ UNCHANGED callVars
      BY <1>16 DEF vars
    <2>2. NetType' /\ RemoteType' /\ NetInv' /\ RemoteInv'
      BY <1>0, <2>1, WorkersSame DEF IInv
    <2>3. CallType' /\ OneWorker' /\ LaunchedLate' /\ WrittenLate' /\ ResultTrue'
      BY <1>0, <2>1 DEF IInv, callVars, CallType, OneWorker, LaunchedLate, NothingDone,
         WrittenLate, ResultTrue, Truth, Refused
    <2> QED BY <2>2, <2>3 DEF IInv, TypeOK
  <1> QED
    BY <1>1, <1>2, <1>3, <1>4, <1>5, <1>6, <1>7, <1>8, <1>9, <1>10, <1>11, <1>12, <1>13,
       <1>14, <1>15, <1>16 DEF Next, Handle

\* Every initial state satisfies the inductive invariant.
LEMMA InitEstablishes == Init => IInv
  <1> SUFFICES ASSUME Init PROVE IInv
    OBVIOUS
  <1>1. CallType
    <2>1. finish \in [status : {"none", "success", "denied", "cancelled", "error"},
                      message : Messages, first : {"audit", "message"}]
      BY DEF Init, NoFinish, Messages
    <2> QED BY <2>1 DEF Init, CallType, CallLabels, Messages
  <1>2. /\ (CHOOSE p \in Policies : TRUE) \in Policies /\ (CHOOSE u \in Urls : TRUE) \in Urls
        /\ (CHOOSE p \in Profiles : TRUE) \in Profiles
    BY NetworkAssumption, RemoteAssumption
  <1>3. /\ NetType /\ net.pc = "idle" /\ net.dialled = {} /\ net.sent = << >>
        /\ op \in NetworkOps => net.op = op
    <2>1. << >> \in Seq(Urls)
      OBVIOUS
    <2>2. CASE net = NetworkIdle /\ op \notin NetworkOps
      BY <1>2, <2>1, <2>2 DEF NetType, NetworkIdle, NetLabels
    <2>3. ASSUME NEW p \in Policies, NEW u \in Urls, op \in NetworkOps,
                 net = [NetworkIdle EXCEPT !.op = op, !.policy = p, !.target = u]
          PROVE  /\ NetType /\ net.pc = "idle" /\ net.dialled = {} /\ net.sent = << >>
                 /\ op \in NetworkOps => net.op = op
      <3>1. net = [pc |-> "idle", op |-> op, policy |-> p, target |-> u, dialled |-> {}, sent |-> << >>,
                   size |-> 0, bytes |-> 0]
        BY <2>3 DEF NetworkIdle
      <3>2. net.pc = "idle" /\ net.op = op /\ net.dialled = {} /\ net.sent = << >>
        BY <3>1
      <3>3. op \in NetworkOps
        BY <2>3
      <3>4. NetType
        BY <2>1, <3>1, <3>3 DEF NetType, NetLabels
      <3> QED BY <3>2, <3>4
    <2> QED BY <2>2, <2>3 DEF Init, NetworkOps, RemoteOps, SFTPOps
  <1>4. /\ RemoteType /\ remote.pc = "idle" /\ remote.touched = {} /\ ~remote.ran
        /\ remote.kept = remote.produced
        /\ op \in RemoteOps => remote.op = op
    <2>1. [s \in Streams |-> 0] \in [Streams -> Nat] /\ MaxOutput \in Nat
      BY RemoteAssumption
    <2>2. CASE remote = RemoteIdle /\ op \notin RemoteOps
      BY <1>2, <2>1, <2>2 DEF RemoteType, RemoteIdle, RemoteLabels
    <2>3. ASSUME NEW p \in Profiles, NEW q \in RemotePaths, NEW d \in RemotePaths, op \in RemoteOps,
                 remote = [RemoteIdle EXCEPT !.op = op, !.profile = p, !.path = q, !.destination = d]
          PROVE  /\ RemoteType /\ remote.pc = "idle" /\ remote.touched = {} /\ ~remote.ran
                 /\ remote.kept = remote.produced
                 /\ op \in RemoteOps => remote.op = op
      <3>1. remote = [pc |-> "idle", op |-> op, profile |-> p, path |-> q, destination |-> d,
                      roots |-> {}, touched |-> {}, ran |-> FALSE, file |-> "kept",
                      produced |-> [s \in Streams |-> 0], kept |-> [s \in Streams |-> 0],
                      remaining |-> MaxOutput, exceeded |-> FALSE]
        BY <2>3 DEF RemoteIdle
      <3>2. /\ remote.pc = "idle" /\ remote.op = op /\ remote.touched = {} /\ ~remote.ran
            /\ remote.kept = [s \in Streams |-> 0] /\ remote.produced = [s \in Streams |-> 0]
            /\ remote.profile = p /\ remote.file = "kept" /\ remote.remaining = MaxOutput
        BY <3>1
      <3>3. remote.ran \in BOOLEAN /\ remote.exceeded \in BOOLEAN
        BY <3>1
      <3>4. RemoteType
        BY <2>1, <2>3, <3>1, <3>2, <3>3 DEF RemoteType, RemoteLabels
      <3> QED BY <3>2, <3>4
    <2> QED BY <2>2, <2>3 DEF Init, NetworkOps, RemoteOps, SFTPOps
  <1>5. NetInv
    <2>1. net.policy.redirects \in Nat
      BY <1>3, NetworkAssumption DEF NetType
    <2> QED BY <1>3, <2>1 DEF NetInv, Validated, Allowance, BodyWhole, RequestsPermitted
  <1>6. RemoteInv
    BY <1>4 DEF RemoteInv, AsksLate, Permitted, OutputWhole, RemoteContained
  <1>7. file # Downloaded
    BY ContentsAssumption DEF Init, Absent, Downloaded
  <1>8. OneWorker /\ LaunchedLate /\ WrittenLate /\ ResultTrue
    BY <1>3, <1>4, <1>7 DEF Init, OneWorker, LaunchedLate, NothingDone, WrittenLate, ResultTrue, Refused
  <1> QED BY <1>1, <1>3, <1>4, <1>5, <1>6, <1>8 DEF IInv, TypeOK

\* The inductive invariant holds in every reachable state.
THEOREM Inductive == Spec => []IInv
  BY InitEstablishes, StepPreserves, PTL DEF Spec

\* Every variable keeps its type.
THEOREM TypeCorrect == Spec => []TypeOK
  BY Inductive, PTL DEF IInv

\* policy.go, dialContext and CheckRedirect: the Network Worker connects and
\* sends only where its policy allows, whatever names resolve to.
THEOREM NetworkPermitted == Spec => []RequestsPermitted
  <1>1. IInv => RequestsPermitted
    BY DEF IInv, NetInv
  <1> QED BY <1>1, Inductive, PTL

\* secureExistingPath and secureCreationPath: the Remote Worker touches only
\* what is below a resolved root, and runs only what the profile lists.
THEOREM RemoteStaysInside == Spec => []RemoteContained
  <1>1. IInv => RemoteContained
    BY DEF IInv, RemoteInv
  <1> QED BY <1>1, Inductive, PTL

\* beginExternalAudit: no effect without a durable record of the call.
THEOREM AuditedFirst == Spec => []EffectsAreAudited
  <1>1. IInv => EffectsAreAudited
    BY DEF IInv, LaunchedLate, NothingDone, NetInv, Validated, RemoteInv, AsksLate, EffectsAreAudited
  <1> QED BY <1>1, Inductive, PTL

\* finishExternalAudit: a success is one, and is recorded as one.
THEOREM SuccessHolds == Spec => []SuccessIsTrue
  <1>1. IInv => SuccessIsTrue
    BY DEF IInv, ResultTrue, Truth, SuccessIsTrue
  <1> QED BY <1>1, Inductive, PTL

\* A refusal has no effect, and no cancellation is reported of a file that was
\* replaced.
THEOREM RefusalHolds == Spec => []RefusalChangesNothing
  <1>1. IInv => RefusalChangesNothing
    BY DEF IInv, ResultTrue, Refused, RefusalChangesNothing
  <1> QED BY <1>1, Inductive, PTL
=============================================================================
