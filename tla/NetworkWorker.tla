--------------------------- MODULE NetworkWorker ---------------------------
(***************************************************************************)
(* The Network Worker: one process that runs one signed job                *)
(* (networkworker/service.go) under a policy on what may be reached        *)
(* (networkworker/policy.go).                                              *)
(*                                                                         *)
(* A URL is what the policy looks at: scheme, host and port.  A host is a  *)
(* name or an address.  The resolver may answer every lookup differently,  *)
(* and a server may redirect anywhere.  A policy's domains are the names   *)
(* its patterns match, and a CIDR is the addresses it holds with those     *)
(* for which it is as narrow as their special-purpose range.               *)
(***************************************************************************)
EXTENDS Naturals, Sequences, FiniteSets

CONSTANTS
    Names,               \* host names
    Addresses,           \* IP addresses
    DeniedNames,         \* permanentlyDeniedHostnames
    DeniedAddresses,     \* permanentlyDeniedAddresses
    RestrictedAddresses, \* those isRestrictedAddress holds of
    Urls,                \* the targets requested and redirected to
    Policies,            \* the policies of the profiles
    MaxBody              \* limits.MaxResponseBodyBytes

ASSUME NetworkAssumption ==
    /\ DeniedNames \subseteq Names /\ Names \cap Addresses = {}
    /\ DeniedAddresses \cup RestrictedAddresses \subseteq Addresses
    /\ MaxBody \in Nat
    /\ Urls # {} /\ \A u \in Urls : u.host \in Names \cup Addresses
    /\ Policies # {} /\ \A p \in Policies : p.redirects \in Nat

VARIABLE net \* the worker process and what it has done

NetworkOps == {"web_fetch", "download", "upload"}
Method(op) == IF op = "upload" THEN "PUT" ELSE "GET"

NetworkIdle ==
    [pc |-> "idle", op |-> "none", policy |-> CHOOSE p \in Policies : TRUE,
     target |-> CHOOSE u \in Urls : TRUE, dialled |-> {}, sent |-> << >>,
     size |-> 0, bytes |-> 0]

----------------------------------------------------------------------------
(* Faulty variants of the definitions below.  No specification uses them:  *)
(* each shows that a property can fail.                                    *)

\* The dialer connects to whatever the second lookup answers.
DialUnvalidated(host, port, policy, answers) ==
    IF host \in Addresses THEN {host} ELSE answers

\* The reader stops at the limit and so never sees that there was more.
ReadToLimit(size) == IF size < MaxBody THEN size ELSE MaxBody

----------------------------------------------------------------------------
(* The policy. *)

\* addressInCIDRs, addressInExplicitRestrictedCIDR
InCIDRs(a, policy)       == \E c \in policy.cidrs : a \in c.members
InExplicitCIDR(a, policy) == \E c \in policy.cidrs : a \in c.explicit

validateAddress(a, policy) ==
    /\ a \notin DeniedAddresses
    /\ a \in RestrictedAddresses => policy.allowPrivate /\ InExplicitCIDR(a, policy)

domainAllowed(host, policy) == host \in policy.domains

\* The addresses of the host that may be dialled; none when it is refused.
validateHost(host, policy, answers) ==
    CASE host \in DeniedNames -> {}
      [] host \in Addresses \ DeniedNames ->
            {a \in {host} : InCIDRs(a, policy) /\ validateAddress(a, policy)}
      [] OTHER ->
            {a \in answers : /\ domainAllowed(host, policy)
                             /\ \A b \in answers : validateAddress(b, policy)}

validateTarget(url, policy, answers) ==
    /\ url.scheme \in policy.schemes /\ url.port \in policy.ports
    /\ validateHost(url.host, policy, answers) # {}

validateDialTarget(host, port, policy, answers) ==
    IF port \in policy.ports THEN validateHost(host, policy, answers) ELSE {}

validateOperationMethod(op, method) ==
    method \in CASE op = "web_fetch" -> {"GET", "HEAD"}
                 [] op = "download"  -> {"GET"}
                 [] op = "upload"    -> {"POST", "PUT"}

----------------------------------------------------------------------------
(* The steps of Service.Execute. *)

NetworkFail    == net' = [net EXCEPT !.pc = "error"]
NetworkRunning == net.pc \notin {"idle", "success", "error"}

\* Serve reads the job and prepareJob checks what was signed.  The capability
\* is good unless it expired on the way (module RequestGate).
NetworkPrepare(accepted) ==
    /\ net.pc = "job"
    /\ IF accepted /\ validateOperationMethod(net.op, Method(net.op))
          THEN net' = [net EXCEPT !.pc = "check"]
          ELSE NetworkFail

\* executeAuthorized looks the target up before anything is sent.
NetworkCheck(answers) ==
    /\ net.pc = "check"
    /\ IF validateTarget(net.target, net.policy, answers)
          THEN net' = [net EXCEPT !.pc = "dial"]
          ELSE NetworkFail

\* dialContext looks it up again and tries the addresses until one answers.
NetworkDial(answers, tried, connected) ==
    LET allowed == validateDialTarget(net.target.host, net.target.port, net.policy, answers)
        dials   == {[host |-> net.target.host, port |-> net.target.port, address |-> a] : a \in tried}
    IN  /\ net.pc = "dial"
        /\ tried \subseteq allowed
        /\ IF connected THEN tried # {} ELSE tried = allowed
        /\ net' = [net EXCEPT !.dialled = @ \cup dials,
                              !.pc = IF connected THEN "send" ELSE "error"]

NetworkSend ==
    /\ net.pc = "send"
    /\ net' = [net EXCEPT !.pc = "response", !.sent = Append(@, net.target)]

\* CheckRedirect; len(via) is the number of requests sent.
mayRedirect(url, answers) ==
    /\ net.op # "upload"
    /\ ~(Len(net.sent) > net.policy.redirects)
    /\ validateOperationMethod(net.op, Method(net.op))
    /\ validateTarget(url, net.policy, answers)

NetworkRedirect(url, answers) ==
    /\ net.pc = "response"
    /\ IF mayRedirect(url, answers)
          THEN net' = [net EXCEPT !.pc = "dial", !.target = url]
          ELSE NetworkFail

\* readBounded of a body of size bytes, of which the header declares declared
\* (0 when it declares nothing): one byte more than the limit is read.
bytesRead(size) == IF size < MaxBody + 1 THEN size ELSE MaxBody + 1
readBounded(declared, size) == declared <= MaxBody /\ bytesRead(size) <= MaxBody

NetworkBody(declared, size) ==
    /\ net.pc = "response"
    /\ IF readBounded(declared, size)
          THEN net' = [net EXCEPT !.pc = "success", !.size = size, !.bytes = bytesRead(size)]
          ELSE NetworkFail

\* The job's timeout, and any failure of the connection.
NetworkBroken == NetworkRunning /\ NetworkFail

NetworkStep ==
    \/ \E accepted \in BOOLEAN : NetworkPrepare(accepted)
    \/ \E answers \in SUBSET Addresses : NetworkCheck(answers)
    \/ \E answers \in SUBSET Addresses, tried \in SUBSET Addresses, connected \in BOOLEAN :
          NetworkDial(answers, tried, connected)
    \/ NetworkSend
    \/ \E url \in Urls, answers \in SUBSET Addresses : NetworkRedirect(url, answers)
    \/ \E declared, size \in 0..(MaxBody + 1) : NetworkBody(declared, size)
    \/ NetworkBroken

----------------------------------------------------------------------------
(* Properties. *)

\* Whatever the resolver answers at the check, at a redirect and at the dial,
\* a connection is opened only to an address the policy allows: never a cloud
\* metadata address, a special-purpose one only when the policy names its
\* range, a literal address only inside an allowed CIDR, a name only when the
\* policy lists it.  A request goes out only on an allowed scheme and port,
\* at most MaxRedirects times after the first, and an upload once.
RequestsPermitted ==
    /\ \A d \in net.dialled :
          /\ d.address \notin DeniedAddresses
          /\ d.address \in RestrictedAddresses =>
                /\ net.policy.allowPrivate
                /\ \E c \in net.policy.cidrs : d.address \in c.explicit
          /\ d.host \in net.policy.domains \/ \E c \in net.policy.cidrs : d.host \in c.members
          /\ d.port \in net.policy.ports
    /\ \A i \in DOMAIN net.sent :
          /\ net.sent[i].scheme \in net.policy.schemes
          /\ \E d \in net.dialled : d.host = net.sent[i].host /\ d.port = net.sent[i].port
    /\ Len(net.sent) <= 1 + net.policy.redirects
    /\ net.op = "upload" => Len(net.sent) <= 1
=============================================================================
