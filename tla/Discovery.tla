------------------------------ MODULE Discovery ------------------------------
(***************************************************************************)
(* Probes of a route under the operator's consent (discovery.py).  An      *)
(* operator approves what a route resolves to: the executable, its         *)
(* arguments and overrides, and the endpoint that would receive the        *)
(* credential.  A prober resolves the route again in its own environment;  *)
(* it starts the executable in a process group of its own, or makes one    *)
(* request through a Provider, and records the evidence.  Meanwhile files  *)
(* are replaced, and the prober may be interrupted or killed.              *)
(***************************************************************************)
EXTENDS Providers

CONSTANTS
  Contents,     \* contents of the executable's file, and of the overrides
  Endpoints,    \* provider, base URL, model and reference to the credential
  Approvals,    \* identifiers of approvals
  MaxProbes,    \* bound: probes made
  MaxReplaced   \* bound: replacements of the file

ASSUME DiscoveryAssumption ==
  /\ {"none", "env"} \cap Endpoints = {}
  /\ {MaxProbes, MaxReplaced} \subseteq Nat

VARIABLES
  file,      \* the executable's file: its content, and how often it was replaced
  approval,  \* the rows of discovery_approvals
  probe,     \* the probe under way
  group,     \* its process group: the executable and what that started
  evidence,  \* the probe's row of discovery_evidence
  used       \* history: what the probe started or sent, and whether under audit

discoveryVars == <<file, approval, probe, group, evidence, used>>
vars == <<providerVars, discoveryVars>>

Members == {"leader", "child"}
Tiers == {"handshake", "generative"}

\* What a route states of its endpoint: all of it, or what the environment says
Routes == Endpoints \cup {"env"}

NoApproval == [tier |-> "none", route |-> "env", endpoint |-> "none", content |-> 0]
NoProbe == [pc |-> "idle", number |-> 0, tier |-> "none", id |-> 0, unlisted |-> FALSE,
            route |-> "env", endpoint |-> "none", content |-> 0, replaced |-> 0, status |-> "none"]
Unused == [content |-> 0, endpoint |-> "none", audited |-> FALSE, stale |-> FALSE]
NoGroup == [m \in Members |-> "none"]

InitDiscovery ==
  /\ \E c \in Contents : file = [content |-> c, replaced |-> 0]
  /\ approval = [a \in Approvals |-> NoApproval]
  /\ probe = NoProbe /\ group = NoGroup /\ evidence = "none" /\ used = Unused

----------------------------------------------------------------------------
\* Resolution and consent

\* _resolve: what the route means in an environment; a file that cannot be read
\* has no identity.
Resolved(route, environment) ==
  [route |-> route, content |-> file.content,
   endpoint |-> IF route = "env" THEN environment ELSE route]

FaultyFingerprint(r) == <<r.route, r.content>>

Fingerprint(r) == <<r.route, r.endpoint, r.content>>

\* approve: the operator's environment need not be the prober's.
Approve(a) ==
  /\ approval[a] = NoApproval /\ file.content # 0
  /\ \E tier \in Tiers, route \in Routes, environment \in Endpoints :
       LET r == Resolved(route, environment)
       IN approval' = [approval EXCEPT ![a] =
            [tier |-> tier, route |-> r.route, endpoint |-> r.endpoint, content |-> r.content]]
  /\ UNCHANGED <<providerVars, file, probe, group, evidence, used>>

Replace ==
  /\ file.replaced < MaxReplaced
  /\ \E c \in (Contents \cup {0}) \ {file.content} :
       file' = [content |-> c, replaced |-> file.replaced + 1]
  /\ UNCHANGED <<providerVars, approval, probe, group, evidence, used>>

Approved(a, tier, r) ==
  /\ approval[a].tier = tier
  /\ Fingerprint(approval[a]) = Fingerprint(r)

Set(pc) == probe' = [probe EXCEPT !.pc = pc]

\* _authorize: a refusal is recorded, and nothing is begun.
Authorize(tier, route, environment) ==
  /\ probe.pc = "idle" /\ probe.number < MaxProbes
  /\ LET r == Resolved(route, environment)
         granted(a, unlisted) ==
           [NoProbe EXCEPT !.pc = IF tier = "handshake" THEN "spawn" ELSE "request",
              !.number = probe.number + 1, !.tier = tier, !.id = a, !.unlisted = unlisted,
              !.route = route, !.endpoint = r.endpoint, !.content = r.content,
              !.replaced = file.replaced]
     IN \/ probe' = granted(0, TRUE)
        \/ \E a \in Approvals : Approved(a, tier, r) /\ probe' = granted(a, FALSE)
        \/ \E a \in Approvals : ~Approved(a, tier, r) /\ probe' = [probe EXCEPT !.number = @ + 1]
  /\ used' = [Unused EXCEPT !.audited = probe'.unlisted]
  /\ group' = NoGroup /\ evidence' = "none"
  /\ UNCHANGED <<providerVars, file, approval>>

----------------------------------------------------------------------------
\* handshake

Gone(m) == group[m] \in {"none", "gone"}
Left == {m \in Members : group[m] = "running"}

\* Popen, with what the file holds now
Spawn ==
  /\ probe.pc = "spawn"
  /\ \/ /\ file.content # 0
        /\ group' = [NoGroup EXCEPT !["leader"] = "running"]
        /\ used' = [used EXCEPT !.content = file.content, !.stale = file.replaced # probe.replaced]
        /\ Set("wait")
     \/ probe' = [probe EXCEPT !.pc = "record", !.status = "failed"] /\ UNCHANGED <<group, used>>
  /\ UNCHANGED <<providerVars, file, approval, evidence>>

\* The executable starts a descendant; members end by themselves or are reaped.
Fork ==
  /\ group["leader"] = "running" /\ group["child"] = "none"
  /\ group' = [group EXCEPT !["child"] = "running"]
  /\ UNCHANGED <<providerVars, file, approval, probe, evidence, used>>

MemberEnds(m) ==
  /\ group[m] \in {"running", "killed"}
  /\ group' = [group EXCEPT ![m] = "gone"]
  /\ UNCHANGED <<providerVars, file, approval, probe, evidence, used>>

\* process.wait returns, or its time is over
Waited ==
  /\ probe.pc = "wait"
  /\ \/ Gone("leader") /\ probe' = [probe EXCEPT !.pc = "terminate", !.status = "completed"]
     \/ probe' = [probe EXCEPT !.pc = "terminate", !.status = "timeout"]
  /\ UNCHANGED <<providerVars, file, approval, group, evidence, used>>

FaultyTerminate ==
  /\ probe.pc = "terminate"
  /\ group' = [m \in Members |->
       IF m \in Left /\ probe.status = "timeout" THEN "killed" ELSE group[m]]
  /\ probe' = [probe EXCEPT !.pc = "record"]
  /\ UNCHANGED <<providerVars, file, approval, evidence, used>>

\* _terminate_group: SIGTERM, and SIGKILL unless the group goes in time.  A member
\* that SIGKILL does not end at once makes wait fail (_run_handshake).
Terminate ==
  /\ probe.pc = "terminate"
  /\ \/ Left = {} /\ UNCHANGED group
     \/ group' = [m \in Members |-> IF m \in Left THEN "killed" ELSE group[m]]
  /\ \/ probe' = [probe EXCEPT !.pc = "record"]
     \/ group'["leader"] = "killed" /\ probe' = [probe EXCEPT !.pc = "record", !.status = "failed"]
  /\ UNCHANGED <<providerVars, file, approval, evidence, used>>

----------------------------------------------------------------------------
\* generative

\* The Provider is made from what was resolved; it may refuse the endpoint.
Request ==
  /\ probe.pc = "request"
  /\ \/ /\ call.pc = "off" /\ form.client = "probe"
        /\ call' = [call EXCEPT !.pc = "send"]
        /\ used' = [used EXCEPT !.endpoint = probe.endpoint]
        /\ Set("answer")
     \/ probe' = [probe EXCEPT !.pc = "record", !.status = "failed"] /\ UNCHANGED <<call, used>>
     \/ Set("idle") /\ UNCHANGED <<call, used>>   \* no model is named: nothing is recorded
  /\ UNCHANGED <<form, session, remote, wire, mode, result, observed, file, approval, group, evidence>>

Answered ==
  /\ probe.pc = "answer" /\ call.pc = "ended"
  /\ probe' = [probe EXCEPT !.pc = "record",
                            !.status = IF result = "completed" THEN "completed" ELSE "failed"]
  /\ UNCHANGED <<providerVars, file, approval, group, evidence, used>>

----------------------------------------------------------------------------
\* Evidence

\* _record_evidence: evidence and audit in one transaction.  When it fails, only
\* generative tries again, with a failure.
Record ==
  /\ probe.pc = "record"
  /\ \/ evidence' = probe.status /\ Set("idle")
     \/ /\ probe.tier = "generative" /\ probe.status = "completed"
        /\ probe' = [probe EXCEPT !.status = "failed"] /\ UNCHANGED evidence
     \/ Set("idle") /\ UNCHANGED evidence
  /\ UNCHANGED <<providerVars, file, approval, group, used>>

\* The prober is interrupted or killed: nothing is recorded, and its process
\* group is left alone.
Interrupt ==
  /\ probe.pc # "idle"
  /\ Set("idle")
  /\ call' = [call EXCEPT !.pc = IF form.client = "probe" THEN "ended" ELSE @]
  /\ UNCHANGED <<form, session, remote, wire, mode, result, observed, file, approval, group, evidence, used>>

Prober ==
  \/ \E tier \in Tiers, route \in Routes, environment \in Endpoints :
       Authorize(tier, route, environment)
  \/ Spawn \/ Waited \/ Terminate \/ Request \/ Answered \/ Record \/ Interrupt

Surroundings == \/ \E a \in Approvals : Approve(a)
                \/ Replace \/ Fork
                \/ \E m \in Members : MemberEnds(m)

Init == InitProvider /\ InitDiscovery

\* A client is a runner's task, or the prober.
Next == \/ (Remote \/ Client) /\ UNCHANGED discoveryVars
        \/ form.client = "probe" /\ (Prober \/ Surroundings)

Spec == Init /\ [][Next]_vars

----------------------------------------------------------------------------
\* Properties

\* What is started or sent a credential is what the operator approved for this
\* tier: no other endpoint, and no other file unless that was replaced after the
\* probe was authorized; or it is an unlisted use with an audit row.  The route
\* given, the prober's environment and the file may differ from those approved
\* (approve, _authorize, _run_handshake, generative).
UsedAsApproved ==
  used.content # 0 \/ used.endpoint # "none" =>
    \/ used.audited
    \/ \E a \in Approvals :
         /\ approval[a].tier = IF used.content # 0 THEN "handshake" ELSE "generative"
         /\ used.content # 0 => used.content = approval[a].content \/ used.stale
         /\ used.endpoint # "none" => used.endpoint = approval[a].endpoint

\* Evidence is recorded when everything it is about is over: no member of the
\* process group is left that was not killed, and a row that says completed
\* stands on an executable that ended by itself, or on a turn that the remote
\* finished (_run_handshake, _terminate_group, generative).
EvidenceIsLast ==
  /\ evidence # "none" => Left = {}
  /\ evidence = "completed" =>
       \/ probe.tier = "handshake" /\ group["leader"] = "gone"
       \/ probe.tier = "generative" /\ remote.state = "finished"
=============================================================================
