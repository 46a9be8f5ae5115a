--------------------------- MODULE DiscoveryProofs ---------------------------
(***************************************************************************)
(* For any configurations, attempts and turns: a client sets no permission *)
(* mode above the one it has read from the session in the same attempt,    *)
(* and what it counts as a known outcome is true of the remote.  For any   *)
(* routes, endpoints, files and approvals: what a probe starts or sends a  *)
(* credential is what the operator approved, or is audited, and evidence   *)
(* is recorded when everything it is about is over.                        *)
(*                                                                         *)
(* Four invariants, one for each: MInv of the modes, AInv of the answers,  *)
(* DInv of the consent and EInv of the evidence; AInv needs MInv, and EInv *)
(* all of them.                                                            *)
(***************************************************************************)
EXTENDS Discovery, TLAPS, WellFoundedInduction

----------------------------------------------------------------------------
\* Permission modes

\* m is not above what was observed: nothing read does not bypass permissions.
Below(m, o) == IF o = "none" THEN m # "bypass" ELSE m \in Modes => Rank[m] <= Rank[o]

CallOK == call = [pc |-> call.pc, attempt |-> call.attempt, turns |-> call.turns,
                  target |-> call.target]

ModesTyped ==
  /\ CallOK /\ mode \in Modes \cup {"none"} /\ observed \in Modes \cup {"none"}
  /\ form \in ClientForm
  /\ session = [exists |-> session.exists, mode |-> session.mode, changes |-> session.changes]
  /\ session.mode \in Modes /\ session.changes \in Nat
  /\ remote = [state |-> remote.state, acted |-> remote.acted, status |-> remote.status]

\* Before the mode is set nothing is under way at the server; nothing is read
\* before an attempt begins.
Steps ==
  /\ call.pc \in {"begin", "inspect", "narrow", "mention", "delegate"} => remote.state = "none"
  /\ call.pc \in {"off", "begin", "inspect"} => observed = "none"
  /\ call.pc = "off" => mode = "none"
  /\ call.pc = "inspect" => mode = form.asked
  /\ call.pc = "mention" => form.mention # "no"

\* The mode to be set is below the observed one, and so is the client's own mode
\* once the session is ensured.
ModesBelow ==
  /\ call.pc \in {"narrow", "delegate"} => call.target \in Modes /\ Below(call.target, observed)
  /\ observed # "none" => Below(mode, observed)
  /\ call.pc \in {"warm", "warming", "turn", "mention", "delegate", "send", "waiting"} =>
       Below(mode, observed)

MInv == ModesTyped /\ Steps /\ ModesBelow

SetsBelow ==
  call.pc \in {"narrow", "delegate"} /\ session' # session /\ session'.changes = session.changes =>
    IF observed = "none" THEN session'.mode # "bypass"
    ELSE Rank[session'.mode] <= Rank[observed]

\* The ranks are in order.
LEMMA Ranks == /\ Rank["ask"] = 0 /\ Rank["accept_edits"] = 1 /\ Rank["bypass"] = 2
               /\ \A m \in Modes : Rank[m] \in 0..2
               /\ Modes = {"ask", "accept_edits", "bypass"}
BY DEF Rank, Modes

\* narrow_permission_mode gives neither argument's permissions up to the other.
LEMMA NarrowIsBelow ==
  ASSUME NEW p \in Modes, NEW q \in Modes
  PROVE  /\ Narrow(p, q) \in Modes /\ Rank[Narrow(p, q)] <= Rank[p]
         /\ Narrow(p, p) = p
         /\ Narrow(p, q) = "bypass" => p = "bypass"
BY Ranks DEF Narrow

\* Below is transitive through narrowing, and ask is below everything.
LEMMA NarrowedBelow ==
  ASSUME NEW p \in Modes, NEW q \in Modes, NEW o \in Modes \cup {"none"}, Below(p, o)
  PROVE  Below(Narrow(p, q), o)
BY Ranks DEF Narrow, Below, Modes

LEMMA AskBelow == \A o \in Modes \cup {"none"} : Below("ask", o) /\ Below("none", o)
BY Ranks DEF Below, Modes

\* The initial state satisfies the invariant.
LEMMA MInvInit == Init => MInv
<1> SUFFICES ASSUME Init PROVE MInv
  OBVIOUS
<1>1. form \in ClientForm
  BY ProviderAssumption DEF Init, InitProvider
<1>2. call.pc \in {"begin", "off"} /\ CallOK
  BY DEF Init, InitProvider, CallOK
<1>3. mode = "none" /\ observed = "none" /\ remote = Idle
  BY DEF Init, InitProvider
<1>4. session = [exists |-> session.exists, mode |-> session.mode, changes |-> session.changes]
      /\ session.mode \in Modes /\ session.changes = 0
  BY DEF Init, InitProvider
<1> QED BY <1>1, <1>2, <1>3, <1>4 DEF MInv, ModesTyped, Steps, ModesBelow, Idle

\* The remote sends no turn it was not sent, and changes no mode but as another
\* client asks.
LEMMA RemoteKeepsMInv == MInv /\ Remote => MInv' /\ SetsBelow
<1> SUFFICES ASSUME MInv, Remote PROVE MInv' /\ SetsBelow
  OBVIOUS
<1>1. CASE ModeChange
  <2>1. session' = [exists |-> session'.exists, mode |-> session'.mode, changes |-> session'.changes]
        /\ session'.changes = session.changes + 1 /\ session'.mode \in Modes
    BY <1>1 DEF ModeChange, MInv, ModesTyped
  <2> QED BY <1>1, <2>1 DEF ModeChange, MInv, ModesTyped, CallOK, Steps, ModesBelow, SetsBelow, remoteOnly
<1>2. CASE Refuse \/ Accept \/ Gateway \/ Act \/ Finish \/ Break
  <2>1. /\ remote.state # "none" /\ UNCHANGED remoteOnly
        /\ session' = session \/ session' = [session EXCEPT !.exists = TRUE]
    BY <1>2 DEF Refuse, Accept, Gateway, Act, Finish, Break, Close
  <2>2. call.pc \notin {"begin", "inspect", "narrow", "mention", "delegate"}
    BY <2>1 DEF MInv, Steps
  <2>3. \/ \E s, t, a : remote' = [remote EXCEPT !.state = s, !.status = t, !.acted = a]
        \/ \E s : remote' = [remote EXCEPT !.state = s]
        \/ \E a : remote' = [remote EXCEPT !.acted = a]
        \/ \E t : remote' = [remote EXCEPT !.status = t]
        \/ \E s, t : remote' = [remote EXCEPT !.state = s, !.status = t]
    BY <1>2 DEF Refuse, Accept, Gateway, Act, Finish, Break, Close
  <2>4. ModesTyped'
    BY <2>1, <2>3 DEF MInv, ModesTyped, CallOK, remoteOnly
  <2> QED BY <2>1, <2>2, <2>4 DEF MInv, Steps, ModesBelow, SetsBelow, remoteOnly
<1> QED BY <1>1, <1>2 DEF Remote

\* A step that moves the client and leaves the modes alone keeps the invariant,
\* unless it moves to where something must be shown.
LEMMA MovedOn ==
  ASSUME MInv, UNCHANGED <<form, session, mode, observed>>,
         CallOK', remote' = [state |-> remote'.state, acted |-> remote'.acted, status |-> remote'.status],
         call'.pc \notin {"off", "begin", "inspect", "narrow", "mention", "delegate"},
         \/ call'.pc \notin {"warm", "warming", "turn", "send", "waiting"}
         \/ Below(mode, observed)
  PROVE  MInv' /\ SetsBelow
BY DEF MInv, ModesTyped, CallOK, Steps, ModesBelow, SetsBelow

\* An attempt that ends, or waits to be retried, keeps the invariant.
LEMMA EndKeepsMInv ==
  ASSUME MInv, NEW kind, End(kind), UNCHANGED <<form, session, remote, mode, observed>>
  PROVE  MInv' /\ SetsBelow
<1>1. call'.pc \in {"retry", "ended"} /\ CallOK'
  BY DEF End, Goto, MInv, ModesTyped, CallOK
<1>2. remote' = [state |-> remote'.state, acted |-> remote'.acted, status |-> remote'.status]
  BY DEF MInv, ModesTyped
<1> QED BY <1>1, <1>2, MovedOn

\* What a snapshot reads is the observed mode, or both stay.
LEMMA SnapshotReads ==
  ASSUME MInv, Snapshot
  PROVE  \/ mode' \in Modes /\ observed' = mode'
         \/ mode' = mode /\ observed' = observed
BY DEF Snapshot, MInv, ModesTyped, Modes

\* A mode is below itself.
LEMMA SelfBelow == \A m \in Modes : Below(m, m)
BY Ranks DEF Below, Modes

\* The look at a resumed session narrows what it read.
LEMMA InspectKeepsMInv == MInv /\ Inspect => MInv' /\ SetsBelow
<1> SUFFICES ASSUME MInv, Inspect PROVE MInv' /\ SetsBelow
  OBVIOUS
<1> DEFINE parent == Or(mode', "ask")
           wanted == Or(form.asked, parent)
<1>1. call.pc = "inspect" /\ UNCHANGED <<form, session, remote>> /\ SetsBelow
  BY DEF Inspect, SetsBelow
<1>2. \/ mode' \in Modes /\ observed' = mode'
      \/ mode' = mode /\ observed' = observed /\ observed = "none"
  BY <1>1, SnapshotReads DEF Inspect, MInv, Steps
<1>3. mode' \in Modes \cup {"none"} /\ observed' \in Modes \cup {"none"}
  BY <1>2 DEF MInv, ModesTyped
<1>4. parent \in Modes /\ wanted \in Modes
  BY <1>3 DEF Or, MInv, ModesTyped, ClientForm, Modes
<1>5. CASE call' = [call EXCEPT !.pc = "ensure"]
  <2>1. call'.pc = "ensure" /\ CallOK'
    BY <1>5 DEF MInv, ModesTyped, CallOK
  <2>2. observed' # "none" => Below(mode', observed')
    BY <1>2, SelfBelow
  <2> QED BY <1>1, <1>3, <2>1, <2>2 DEF MInv, ModesTyped, Steps, ModesBelow
<1>6. CASE /\ mode' # "none" /\ Narrow(parent, wanted) # mode'
           /\ call' = [call EXCEPT !.pc = "narrow", !.target = Narrow(parent, wanted)]
  <2>1. call'.pc = "narrow" /\ call'.target = Narrow(parent, wanted) /\ CallOK'
    BY <1>6 DEF MInv, ModesTyped, CallOK
  <2>2. parent = mode'
    BY <1>6 DEF Or
  <2>3. observed' = mode' /\ mode' \in Modes
    <3>1. CASE mode' = mode
      <4>1. wanted = mode'
        BY <1>1, <1>6, <3>1 DEF MInv, Steps, Or
      <4>2. Narrow(parent, wanted) = mode'
        BY <2>2, <4>1, <1>4, NarrowIsBelow
      <4> QED BY <4>2, <1>6
    <3> QED BY <3>1, <1>2
  <2>4. Below(mode', observed')
    BY <2>3, SelfBelow
  <2>5. Below(call'.target, observed') /\ call'.target \in Modes
    BY <1>3, <1>4, <2>1, <2>2, <2>4, NarrowedBelow, NarrowIsBelow
  <2>6. remote.state = "none"
    BY <1>1 DEF MInv, Steps
  <2> QED BY <1>1, <1>3, <2>1, <2>4, <2>5, <2>6 DEF MInv, ModesTyped, Steps, ModesBelow
<1> HIDE DEF parent, wanted
<1>7. \/ /\ mode' # "none" /\ Narrow(parent, wanted) # mode'
         /\ call' = [call EXCEPT !.pc = "narrow", !.target = Narrow(parent, wanted)]
      \/ call' = [call EXCEPT !.pc = "ensure"]
  BY DEF Inspect, parent, wanted
<1> QED BY <1>5, <1>6, <1>7

\* A mention narrows the mode that is known, or read now.
LEMMA MentionKeepsMInv == MInv /\ Mention => MInv' /\ SetsBelow
<1> SUFFICES ASSUME MInv, Mention PROVE MInv' /\ SetsBelow
  OBVIOUS
<1> DEFINE parent == Or(mode', "ask")
           wanted == Or(form.mention, parent)
<1>1. /\ call.pc = "mention" /\ UNCHANGED <<form, session, remote>> /\ SetsBelow
      /\ remote.state = "none" /\ form.mention # "no"
  BY DEF Mention, SetsBelow, MInv, Steps
<1>2. mode' \in Modes \cup {"none"} /\ observed' \in Modes \cup {"none"} /\ Below(mode', observed')
  <2>1. CASE mode' = mode /\ observed' = observed
    BY <2>1, <1>1 DEF MInv, ModesTyped, ModesBelow
  <2>2. CASE mode' \in Modes /\ observed' = mode'
    BY <2>2, SelfBelow
  <2> QED BY <2>1, <2>2, SnapshotReads DEF Mention
<1>3. parent \in Modes /\ wanted \in Modes
  BY <1>1, <1>2 DEF Or, MInv, ModesTyped, ClientForm, Modes
<1>4. Below(parent, observed')
  BY <1>2, AskBelow DEF Or
<1>5. call' = [call EXCEPT !.pc = "delegate", !.target = Narrow(parent, wanted)]
  BY DEF Mention, ChildMode
<1>6. call'.pc = "delegate" /\ call'.target = Narrow(parent, wanted) /\ CallOK'
  BY <1>5 DEF MInv, ModesTyped, CallOK
<1> HIDE DEF parent, wanted
<1>7. call'.target \in Modes /\ Below(call'.target, observed')
  BY <1>2, <1>3, <1>4, <1>6, NarrowIsBelow, NarrowedBelow
<1> QED BY <1>1, <1>2, <1>6, <1>7 DEF MInv, ModesTyped, Steps, ModesBelow

\* The mode that is set is the target.
LEMMA SetModeKeepsMInv == MInv /\ SetMode => MInv' /\ SetsBelow
<1> SUFFICES ASSUME MInv, SetMode PROVE MInv' /\ SetsBelow
  OBVIOUS
<1>1. /\ call.pc \in {"narrow", "delegate"} /\ UNCHANGED <<form, remote, wire, observed>>
      /\ call.target \in Modes /\ Below(call.target, observed)
  BY DEF SetMode, MInv, ModesBelow
<1>2. SetsBelow
  <2>1. session' = session \/ session'.mode = call.target
    BY DEF SetMode, MInv, ModesTyped
  <2> QED BY <1>1, <2>1 DEF SetsBelow, Below
<1>3. /\ session' = [exists |-> session'.exists, mode |-> session'.mode, changes |-> session'.changes]
      /\ session'.mode \in Modes /\ session'.changes \in Nat
  BY <1>1 DEF SetMode, MInv, ModesTyped
<1>4. CASE mode' = call.target /\ Goto(IF call.pc = "narrow" THEN "ensure" ELSE "send")
  <2>1. call'.pc \in {"ensure", "send"} /\ CallOK'
    BY <1>4 DEF Goto, MInv, ModesTyped, CallOK
  <2> QED BY <1>1, <1>2, <1>3, <1>4, <2>1 DEF MInv, ModesTyped, Steps, ModesBelow
<1>5. ASSUME UNCHANGED mode, NEW kind, End(kind) PROVE MInv' /\ SetsBelow
  <2>1. call'.pc \in {"retry", "ended"} /\ CallOK'
    BY <1>5 DEF End, Goto, MInv, ModesTyped, CallOK
  <2> QED BY <1>1, <1>2, <1>3, <1>5, <2>1 DEF MInv, ModesTyped, Steps, ModesBelow
<1> QED BY <1>4, <1>5 DEF SetMode

\* The other steps of the client set no mode.
LEMMA ClientKeepsMInv == MInv /\ Client => MInv' /\ SetsBelow
<1> SUFFICES ASSUME MInv, Client PROVE MInv' /\ SetsBelow
  OBVIOUS
<1>0. CallOK /\ remote = [state |-> remote.state, acted |-> remote.acted, status |-> remote.status]
  BY DEF MInv, ModesTyped
<1>1. CASE Retry
  <2>1. call'.pc = "begin" /\ CallOK' /\ remote' = Idle
    BY <1>1, <1>0 DEF Retry, CallOK
  <2>2. mode' = "none" /\ observed' = "none" /\ UNCHANGED <<form, session>>
    BY <1>1 DEF Retry
  <2> QED BY <2>1, <2>2 DEF MInv, ModesTyped, Steps, ModesBelow, SetsBelow, Idle
<1>2. CASE Begin
  <2>1. /\ call.pc = "begin" /\ call'.pc \in {"send", "inspect", "ensure"} /\ CallOK'
        /\ form.kind = "http" <=> call'.pc = "send"
    BY <1>2, <1>0 DEF Begin, Goto, CallOK
  <2>2. mode' = form.asked /\ UNCHANGED <<form, session, remote, observed>>
    BY <1>2 DEF Begin
  <2>3. mode' \in Modes \cup {"none"}
    BY <2>2 DEF MInv, ModesTyped, ClientForm
  <2>4. form.kind = "http" => mode' = "none"
    BY <2>2 DEF MInv, ModesTyped, ClientForm
  <2>5. call'.pc = "send" => Below(mode', observed')
    BY <2>1, <2>2, <2>4, AskBelow DEF MInv, ModesTyped
  <2>6. observed' = "none" /\ remote'.state = "none" /\ SetsBelow
    BY <2>1, <2>2 DEF MInv, Steps, SetsBelow
  <2> QED BY <2>1, <2>2, <2>3, <2>5, <2>6 DEF MInv, ModesTyped, Steps, ModesBelow
<1>3. CASE LookupFails
  BY <1>3, EndKeepsMInv DEF LookupFails
<1>4. CASE Ensure
  <2>1. CASE \E kind : End(kind)
    BY <1>4, <2>1, EndKeepsMInv DEF Ensure
  <2>2. CASE ~(mode = "bypass" /\ observed = "none") /\ (Goto("warm") \/ Goto("turn"))
    <3>1. call'.pc \in {"warm", "turn"} /\ CallOK'
      BY <2>2, <1>0 DEF Goto, CallOK
    <3>2. Below(mode, observed)
      BY <2>2 DEF Below, MInv, ModesBelow
    <3> QED BY <1>4, <3>1, <3>2, <1>0, MovedOn DEF Ensure
  <2> QED BY <1>4, <2>1, <2>2 DEF Ensure
<1>5. CASE Turn
  <2>1. CASE call'.pc = "mention"
    <3>1. form.mention # "no" /\ CallOK' /\ remote' = Idle /\ call.pc = "turn"
      BY <1>5, <2>1, <1>0 DEF Turn, Goto, CallOK
    <3>2. UNCHANGED <<form, session, mode, observed>>
      BY <1>5 DEF Turn
    <3> QED BY <2>1, <3>1, <3>2 DEF MInv, ModesTyped, Steps, ModesBelow, SetsBelow, Idle
  <2>2. CASE call'.pc = "send"
    <3>1. CallOK' /\ remote' = Idle /\ call.pc = "turn" /\ UNCHANGED <<form, session, mode, observed>>
      BY <1>5, <1>0 DEF Turn, Goto, CallOK
    <3>2. remote' = [state |-> remote'.state, acted |-> remote'.acted, status |-> remote'.status]
      BY <3>1 DEF Idle
    <3> QED BY <2>2, <3>1, <3>2, MovedOn DEF MInv, ModesBelow
  <2>3. call'.pc \in {"mention", "send"}
    BY <1>5, <1>0 DEF Turn, Goto, CallOK
  <2> QED BY <2>1, <2>2, <2>3
<1>6. CASE Send
  <2>1. /\ call'.pc \in {"warming", "waiting"} /\ CallOK' /\ call.pc \in {"warm", "send"}
        /\ UNCHANGED <<form, session, mode, observed>>
    BY <1>6, <1>0 DEF Send, CallOK
  <2>2. remote' = [state |-> remote'.state, acted |-> remote'.acted, status |-> remote'.status]
    BY <1>6 DEF Send, Idle
  <2> QED BY <2>1, <2>2, MovedOn DEF MInv, ModesBelow
<1>7. CASE Receive
  <2>0. call.pc \in {"warming", "waiting"} /\ UNCHANGED <<form, session, remote, mode, observed>>
    BY <1>7 DEF Receive, Waiting
  <2>1. CASE Completed
    <3>1. call'.pc \in {"turn", "ended"} /\ CallOK'
      BY <2>1, <1>0 DEF Completed, Goto, CallOK
    <3> QED BY <2>0, <3>1, <1>0, MovedOn DEF MInv, ModesBelow
  <2>2. CASE \E kind : End(kind)
    BY <2>0, <2>2, EndKeepsMInv
  <2> QED BY <1>7, <2>1, <2>2 DEF Receive, Judged
<1>8. CASE GiveUp
  BY <1>8, EndKeepsMInv DEF GiveUp
<1>9. CASE Final
  <2>1. call'.pc = "ended" /\ CallOK' /\ UNCHANGED <<form, session, remote, mode, observed>>
    BY <1>9, <1>0 DEF Final, Goto, CallOK
  <2> QED BY <2>1, <1>0, MovedOn
<1> QED BY <1>1, <1>2, <1>3, <1>4, <1>5, <1>6, <1>7, <1>8, <1>9, InspectKeepsMInv,
        MentionKeepsMInv, SetModeKeepsMInv DEF Client

\* The prober starts a request of its own, or drops one.
LEMMA ProberKeepsMInv == MInv /\ (Prober \/ Surroundings) => MInv' /\ SetsBelow
<1> SUFFICES ASSUME MInv, Prober \/ Surroundings PROVE MInv' /\ SetsBelow
  OBVIOUS
<1>0. CallOK /\ remote = [state |-> remote.state, acted |-> remote.acted, status |-> remote.status]
  BY DEF MInv, ModesTyped
<1>1. CASE UNCHANGED providerVars
  BY <1>1 DEF providerVars, MInv, ModesTyped, CallOK, Steps, ModesBelow, SetsBelow
<1>2. CASE call.pc = "off" /\ call' = [call EXCEPT !.pc = "send"]
           /\ UNCHANGED <<form, session, remote, mode, observed>>
  <2>1. call'.pc = "send" /\ CallOK'
    BY <1>2, <1>0 DEF CallOK
  <2>2. Below(mode, observed)
    BY <1>2, AskBelow DEF MInv, Steps, ModesTyped
  <2> QED BY <1>0, <1>2, <2>1, <2>2, MovedOn
<1>3. CASE call' = [call EXCEPT !.pc = IF form.client = "probe" THEN "ended" ELSE @]
           /\ UNCHANGED <<form, session, remote, mode, observed>>
  <2>1. CASE form.client = "probe"
    <3>1. call'.pc = "ended" /\ CallOK'
      BY <1>3, <2>1, <1>0 DEF CallOK
    <3> QED BY <1>0, <1>3, <3>1, MovedOn
  <2>2. CASE form.client # "probe"
    <3>1. call' = call
      BY <1>3, <2>2, <1>0 DEF CallOK
    <3> QED BY <1>3, <3>1 DEF MInv, ModesTyped, CallOK, Steps, ModesBelow, SetsBelow
  <2> QED BY <2>1, <2>2
<1>4. Request => \/ call.pc = "off" /\ call' = [call EXCEPT !.pc = "send"]
                    /\ UNCHANGED <<form, session, remote, mode, observed>>
                 \/ UNCHANGED providerVars
  BY DEF Request, providerVars
<1>5. Interrupt => call' = [call EXCEPT !.pc = IF form.client = "probe" THEN "ended" ELSE @]
                   /\ UNCHANGED <<form, session, remote, mode, observed>>
  BY DEF Interrupt
<1>6. Prober \/ Surroundings => Request \/ Interrupt \/ UNCHANGED providerVars
  BY DEF Prober, Surroundings, Authorize, Spawn, Waited, Terminate, Answered, Record, Approve,
         Replace, Fork, MemberEnds
<1> QED BY <1>1, <1>2, <1>3, <1>4, <1>5, <1>6

\* The invariant is inductive, and no step sets a mode above what was observed.
LEMMA MInvInductive == MInv /\ [Next]_vars => MInv' /\ [SetsBelow]_providerVars
<1> SUFFICES ASSUME MInv, [Next]_vars PROVE MInv' /\ (SetsBelow \/ UNCHANGED providerVars)
  OBVIOUS
<1>1. CASE UNCHANGED vars
  BY <1>1 DEF vars, providerVars, MInv, ModesTyped, CallOK, Steps, ModesBelow
<1> QED BY <1>1, RemoteKeepsMInv, ClientKeepsMInv, ProberKeepsMInv DEF Next

\* For any configurations, attempts, turns and changes by other clients, a client
\* sets no permission mode above the one it has read in the same attempt, and
\* none that bypasses permissions without having read it (session_snapshot,
\* _warm_coddy, ensure_session, _complete_coddy).
THEOREM ModesOnlyNarrow == Spec => ModeNotWidened
<1>1. Spec => []MInv
  BY MInvInit, MInvInductive, PTL DEF Spec
<1>2. Spec => [][SetsBelow]_providerVars
  BY <1>1, MInvInductive, PTL DEF Spec
<1> QED BY <1>2, PTL DEF ModeNotWidened, SetsBelow

----------------------------------------------------------------------------
\* Verdicts on answers

\* The least element of a set of natural numbers, the first bad block of a stream.
LEMMA LeastNatural ==
  ASSUME NEW S \in SUBSET Nat, S # {}
  PROVE  Min(S) \in S /\ \A m \in S : Min(S) <= m
<1> DEFINE Less == {ss \in Nat \X Nat : ss[1] < ss[2]}
<1>0. IsWellFoundedOn(Less, Nat)
  BY NatLessThanWellFounded, Zenon DEF OpToRel
<1>1. PICK x \in S : \A y \in S : ~ (<<y, x>> \in Less)
  <2> HIDE DEF Less
  <2> QED BY <1>0, WFMin, Zenon
<1>2. ASSUME NEW y \in S PROVE x <= y
  <2>1. x \in Nat /\ y \in Nat
    OBVIOUS
  <2>2. <<y, x>> \notin {ss \in Nat \X Nat : ss[1] < ss[2]}
    BY <1>1
  <2> QED BY <2>1, <2>2
<1> QED BY <1>2 DEF Min

\* A stream is judged complete only where it shows its end, and temporarily
\* refused only by an error that no text and no tool call precedes.
LEMMA StreamVerdictShown ==
  ASSUME NEW blocks, DOMAIN blocks \subseteq Nat \ {0}
  PROVE  /\ StreamVerdict(blocks) = "completed" => \E i \in DOMAIN blocks : blocks[i] = "reason"
         /\ StreamVerdict(blocks) = "transient" =>
              \E i \in DOMAIN blocks : /\ blocks[i] \in Statuses
                                       /\ \A j \in DOMAIN blocks : j <= i => blocks[j] \notin {"text", "tool"}
<1> DEFINE bad == {i \in DOMAIN blocks : blocks[i] \in Statuses \cup {"malformed"}}
<1>1. CASE bad = {}
  <2>1. StreamVerdict(blocks) # "transient"
    BY <1>1 DEF StreamVerdict
  <2>2. StreamVerdict(blocks) = "completed" => Range(blocks) \cap {"reason", "elsewhere"} # {}
                                               /\ "elsewhere" \notin Range(blocks)
    BY <1>1 DEF StreamVerdict
  <2> QED BY <2>1, <2>2 DEF Range
<1>2. CASE bad # {}
  <2> DEFINE i == Min(bad)
  <2>1. i \in bad /\ i \in Nat \ {0}
    BY <1>2, LeastNatural
  <2>2. StreamVerdict(blocks) = IF blocks[i] = "malformed" \/ \E k \in 1..i : blocks[k] \in {"text", "tool"}
                                THEN "unknown" ELSE ErrorKind(blocks[i])
    BY <1>2 DEF StreamVerdict
  <2>3. ErrorKind(blocks[i]) # "completed"
    BY DEF ErrorKind
  <2>4. ASSUME StreamVerdict(blocks) = "transient"
        PROVE  /\ blocks[i] \in Statuses
               /\ \A j \in DOMAIN blocks : j <= i => blocks[j] \notin {"text", "tool"}
    <3> HIDE DEF i
    <3>1. blocks[i] # "malformed" /\ \A k \in 1..i : blocks[k] \notin {"text", "tool"}
      BY <2>2, <2>4
    <3>2. \A j \in DOMAIN blocks : j <= i => j \in 1..i
      BY <2>1
    <3> QED BY <2>1, <3>1, <3>2
  <2> QED BY <2>1, <2>2, <2>3, <2>4
<1> QED BY <1>1, <1>2

Block == Statuses \cup {"text", "tool", "reason", "elsewhere", "done", "body"}

\* What the wire shows is so: its end, that the turn failed, and what it did.
WireHolds ==
  /\ wire \in Seq(Block)
  /\ remote.state \in {"none", "sent", "refused", "running", "finished", "failed"}
  /\ remote.acted \in BOOLEAN
  /\ remote.status \in Refusals => remote.state = "refused"
  /\ remote.state \in {"none", "sent", "refused"} => wire = <<>> /\ ~remote.acted
  /\ \A i \in 1..Len(wire) :
       /\ wire[i] \in {"reason", "body"} => remote.state = "finished"
       /\ wire[i] \in Statuses =>
            /\ remote.state = "failed"
            /\ \A j \in 1..Len(wire) : wire[j] \in {"text", "tool"} => j < i
  /\ form.stream /\ remote.acted => \E j \in 1..Len(wire) : wire[j] \in {"text", "tool"}

\* A known result stays until the client begins another turn, and while it asks
\* for none, nothing is under way.
ResultHolds ==
  /\ call.pc \in {"off", "begin", "inspect", "narrow", "ensure", "warm", "mention", "delegate", "send"} =>
       remote.state = "none"
  /\ result = "completed" => call.pc \in {"turn", "ended"}
  /\ result = "transient" => call.pc \in {"retry", "ended"}
  /\ KnownOutcomeIsTrue

AInv == WireHolds /\ ResultHolds

\* The initial state satisfies the invariant.
LEMMA AInvInit == Init => AInv
BY DEF Init, InitProvider, Idle, AInv, WireHolds, ResultHolds, KnownOutcomeIsTrue, Refusals

\* What the remote appends to the wire is typed and leaves the blocks before it.
LEMMA Appended ==
  ASSUME NEW b \in Block, wire \in Seq(Block), wire' = Append(wire, b)
  PROVE  /\ wire' \in Seq(Block) /\ Len(wire') = Len(wire) + 1
         /\ wire'[Len(wire) + 1] = b
         /\ \A i \in 1..Len(wire) : wire'[i] = wire[i]
OBVIOUS

\* The remote does nothing behind a known result, and shows on the wire what it does.
LEMMA RemoteKeepsAInv == MInv /\ AInv /\ Remote => AInv'
<1> SUFFICES ASSUME MInv, AInv, Remote PROVE AInv'
  OBVIOUS
<1>0. remote = [state |-> remote.state, acted |-> remote.acted, status |-> remote.status]
  BY DEF MInv, ModesTyped
<1>1. CASE Refuse
  <2>1. \E s \in Refusals : remote' = [state |-> "refused", acted |-> remote.acted, status |-> s]
    BY <1>1, <1>0 DEF Refuse
  <2>2. remote.state = "sent" /\ wire' = wire /\ form' = form /\ call' = call /\ result' = result
    BY <1>1 DEF Refuse, remoteOnly
  <2> QED BY <2>1, <2>2 DEF AInv, WireHolds, ResultHolds, KnownOutcomeIsTrue
<1>2. CASE Accept
  <2>1. remote' = [state |-> "running", acted |-> remote.acted, status |-> remote.status]
    BY <1>2, <1>0 DEF Accept
  <2>2. remote.state = "sent" /\ wire' = wire /\ form' = form /\ call' = call /\ result' = result
    BY <1>2 DEF Accept, remoteOnly
  <2> QED BY <2>1, <2>2 DEF AInv, WireHolds, ResultHolds, KnownOutcomeIsTrue
<1>3. CASE Gateway
  <2>1. remote' = [state |-> remote.state, acted |-> remote.acted, status |-> "error"]
    BY <1>3, <1>0 DEF Gateway
  <2>2. remote.state = "running" /\ wire' = wire /\ form' = form /\ call' = call /\ result' = result
    BY <1>3 DEF Gateway, remoteOnly
  <2> QED BY <2>1, <2>2 DEF AInv, WireHolds, ResultHolds, KnownOutcomeIsTrue, Refusals
<1>4. CASE Act
  <2>1. remote' = [state |-> "running", acted |-> TRUE, status |-> remote.status]
        /\ remote.state = "running"
    BY <1>4, <1>0 DEF Act
  <2>2. form' = form /\ call' = call /\ result' = result
    BY <1>4 DEF Act, remoteOnly
  <2>3. CASE form.stream
    <3>1. PICK b \in {"text", "tool"} : wire' = Append(wire, b)
      BY <1>4, <2>3 DEF Act
    <3>2. b \in Block /\ b \notin Statuses
      BY DEF Block, Statuses, Refusals
    <3>3. /\ wire' \in Seq(Block) /\ Len(wire') = Len(wire) + 1 /\ Len(wire) \in Nat
          /\ wire'[Len(wire) + 1] = b
          /\ \A i \in 1..Len(wire) : wire'[i] = wire[i]
      BY <3>1, <3>2, Appended DEF AInv, WireHolds
    <3>4. \A i \in 1..Len(wire') : wire'[i] \notin {"reason", "body"} \cup Statuses
      BY <3>2, <3>3, <2>1 DEF AInv, WireHolds
    <3>5. \E j \in 1..Len(wire') : wire'[j] \in {"text", "tool"}
      BY <3>3
    <3>6. WireHolds'
      BY <3>3, <3>4, <3>5, <2>1, <2>2 DEF AInv, WireHolds
    <3> QED BY <3>6, <2>1, <2>2 DEF AInv, ResultHolds, KnownOutcomeIsTrue
  <2>4. CASE ~form.stream
    <3>1. wire' = wire
      BY <1>4, <2>4 DEF Act
    <3> QED BY <3>1, <2>1, <2>2, <2>4 DEF AInv, WireHolds, ResultHolds, KnownOutcomeIsTrue
  <2> QED BY <2>3, <2>4
<1>5. CASE Finish \/ Break
  <2>1. PICK state \in {"finished", "failed"},
             blocks \in {<<"reason", "done">>, <<"elsewhere", "done">>, <<"body">>, <<"done">>}
                        \cup {<<s>> : s \in Statuses} :
          /\ Close(state, blocks)
          /\ blocks \in {<<"reason", "done">>, <<"body">>} => state = "finished"
          /\ blocks \in {<<s>> : s \in Statuses} => state = "failed"
    BY <1>5 DEF Finish, Break, Statuses, Refusals
  <2>2. remote' = [state |-> state, acted |-> remote.acted, status |-> remote.status]
        /\ remote.state = "running" /\ wire' = wire \o blocks
        /\ form' = form /\ call' = call /\ result' = result
    BY <2>1, <1>0 DEF Close, remoteOnly
  <2>3. /\ blocks \in Seq(Block) /\ Len(blocks) \in {1, 2}
        /\ \A k \in 1..Len(blocks) : /\ blocks[k] \notin {"text", "tool"}
                                     /\ blocks[k] \in {"reason", "body"} => state = "finished"
                                     /\ blocks[k] \in Statuses => state = "failed"
    <3>1. CASE blocks \in {<<"reason", "done">>, <<"elsewhere", "done">>, <<"body">>, <<"done">>}
      <4>1. {"reason", "elsewhere", "body", "done"} \subseteq Block
            /\ {"reason", "elsewhere", "body", "done"} \cap Statuses = {}
        BY DEF Block, Statuses, Refusals
      <4>2. CASE blocks = <<"reason", "done">>
        BY <4>1, <4>2, <2>1
      <4>3. CASE blocks = <<"elsewhere", "done">>
        BY <4>1, <4>3
      <4>4. CASE blocks = <<"body">>
        BY <4>1, <4>4, <2>1
      <4>5. CASE blocks = <<"done">>
        BY <4>1, <4>5
      <4> QED BY <3>1, <4>2, <4>3, <4>4, <4>5
    <3>2. CASE blocks \in {<<s>> : s \in Statuses}
      <4>1. PICK s \in Statuses : blocks = <<s>>
        BY <3>2
      <4>2. state = "failed" /\ s \notin {"text", "tool", "reason", "body"} /\ s \in Block
        BY <2>1, <3>2 DEF Statuses, Refusals, Block
      <4> QED BY <4>1, <4>2
    <3> QED BY <2>1, <3>1, <3>2
  <2>4. /\ wire' \in Seq(Block) /\ Len(wire') = Len(wire) + Len(blocks) /\ Len(wire) \in Nat
        /\ \A i \in 1..Len(wire) : wire'[i] = wire[i]
        /\ \A i \in (Len(wire) + 1)..Len(wire') : wire'[i] = blocks[i - Len(wire)]
    BY <2>2, <2>3 DEF AInv, WireHolds
  <2>5. \A i \in 1..Len(wire) : wire[i] \notin {"reason", "body"} \cup Statuses
    BY <2>2 DEF AInv, WireHolds
  <2>6. \A i \in (Len(wire) + 1)..Len(wire') : i - Len(wire) \in 1..Len(blocks)
    BY <2>4, <2>3
  <2>7. \A i \in 1..Len(wire') : \/ i \in 1..Len(wire)
                                 \/ i \in (Len(wire) + 1)..Len(wire')
    BY <2>4, <2>3
  <2>8. ASSUME NEW i \in 1..Len(wire')
        PROVE  /\ wire'[i] \in {"reason", "body"} => state = "finished"
               /\ wire'[i] \in Statuses =>
                    /\ state = "failed"
                    /\ \A j \in 1..Len(wire') : wire'[j] \in {"text", "tool"} => j < i
    <3>1. CASE i \in 1..Len(wire)
      BY <3>1, <2>4, <2>5
    <3>2. CASE i \in (Len(wire) + 1)..Len(wire')
      <4>1. \A j \in 1..Len(wire') : wire'[j] \in {"text", "tool"} => j \in 1..Len(wire)
        BY <2>3, <2>4, <2>6, <2>7
      <4>2. wire'[i] = blocks[i - Len(wire)] /\ i - Len(wire) \in 1..Len(blocks)
        BY <3>2, <2>4, <2>6
      <4>3. \A j \in 1..Len(wire) : j < i
        BY <3>2, <2>4
      <4> QED BY <4>1, <4>2, <4>3, <2>3
    <3> QED BY <3>1, <3>2, <2>7
  <2>9. form.stream /\ remote.acted => \E j \in 1..Len(wire') : wire'[j] \in {"text", "tool"}
    <3>1. 1..Len(wire) \subseteq 1..Len(wire')
      BY <2>3, <2>4
    <3> QED BY <3>1, <2>4 DEF AInv, WireHolds
  <2>10. WireHolds'
    BY <2>1, <2>2, <2>4, <2>8, <2>9 DEF AInv, WireHolds
  <2> QED BY <2>1, <2>2, <2>10 DEF AInv, ResultHolds, KnownOutcomeIsTrue
<1>6. CASE ModeChange
  BY <1>6 DEF ModeChange, remoteOnly, AInv, WireHolds, ResultHolds, KnownOutcomeIsTrue
<1> QED BY <1>1, <1>2, <1>3, <1>4, <1>5, <1>6 DEF Remote

\* What a client reads of an answer is a part of it, and a break.
LEMMA VerdictShown ==
  ASSUME AInv, NEW n \in 0..Len(wire), NEW cut \in {<<>>, <<"malformed">>},
         NEW kind \in Verdicts(SubSeq(wire, 1, n) \o cut)
  PROVE  /\ kind = "completed" => remote.state = "finished"
         /\ kind = "transient" /\ (form.stream \/ form.kind = "http") =>
              remote.state = "failed" /\ ~remote.acted
<1> DEFINE blocks == SubSeq(wire, 1, n) \o cut
<1>1. /\ DOMAIN blocks \subseteq Nat \ {0}
      /\ \A i \in DOMAIN blocks : \/ i \in 1..n /\ i \in 1..Len(wire) /\ blocks[i] = wire[i]
                                  \/ i = n + 1 /\ blocks[i] = "malformed"
      /\ 1..n \subseteq DOMAIN blocks
  <2>1. SubSeq(wire, 1, n) \in Seq(Block) /\ Len(SubSeq(wire, 1, n)) = n
        /\ \A i \in 1..n : SubSeq(wire, 1, n)[i] = wire[i]
    BY DEF AInv, WireHolds
  <2>2. CASE cut = <<>>
    BY <2>1, <2>2
  <2>3. CASE cut = <<"malformed">>
    BY <2>1, <2>3
  <2> QED BY <2>2, <2>3
<1> HIDE DEF blocks
<1>2. CASE form.stream
  <2>1. kind = StreamVerdict(blocks)
    BY <1>2 DEF Verdicts, blocks
  <2>2. kind = "completed" => remote.state = "finished"
    BY <2>1, <1>1, StreamVerdictShown DEF AInv, WireHolds
  <2>3. ASSUME kind = "transient" PROVE remote.state = "failed" /\ ~remote.acted
    <3>1. PICK i \in DOMAIN blocks :
            /\ blocks[i] \in Statuses
            /\ \A j \in DOMAIN blocks : j <= i => blocks[j] \notin {"text", "tool"}
      BY <2>1, <2>3, <1>1, StreamVerdictShown
    <3>2. i \in 1..n /\ i \in 1..Len(wire) /\ blocks[i] = wire[i]
      BY <3>1, <1>1 DEF Statuses, Refusals
    <3>3. remote.state = "failed"
          /\ \A j \in 1..Len(wire) : wire[j] \in {"text", "tool"} => j < i
      BY <3>1, <3>2 DEF AInv, WireHolds
    <3>4. ASSUME NEW j \in 1..Len(wire), wire[j] \in {"text", "tool"} PROVE FALSE
      <4>1. j < i
        BY <3>3, <3>4
      <4>2. j \in 1..n /\ j \in DOMAIN blocks /\ j <= i
        BY <4>1, <3>2, <1>1
      <4>3. blocks[j] = wire[j]
        BY <4>2, <1>1
      <4> QED BY <4>2, <4>3, <3>1, <3>4
    <3> QED BY <3>3, <3>4, <1>2 DEF AInv, WireHolds
  <2> QED BY <2>2, <2>3
<1>3. CASE ~form.stream
  <2>1. kind \in BodyVerdicts(blocks)
    BY <1>3 DEF Verdicts, blocks
  <2>2. kind = "completed" => blocks = <<"body">>
    BY <2>1 DEF BodyVerdicts, ErrorKind
  <2>3. kind = "completed" => remote.state = "finished"
    <3> SUFFICES ASSUME kind = "completed" PROVE remote.state = "finished"
      OBVIOUS
    <3>1. 1 \in DOMAIN blocks /\ blocks[1] = "body"
      BY <2>2
    <3> QED BY <3>1, <1>1 DEF AInv, WireHolds
  <2>4. form.kind = "http" => kind # "transient"
    BY <2>1 DEF BodyVerdicts
  <2> QED BY <2>3, <2>4, <1>3
<1> QED BY <1>2, <1>3

Asking == {"off", "begin", "inspect", "narrow", "ensure", "warm", "mention", "delegate", "send"}

\* A step that leaves the turn alone keeps the invariant, if what it makes of the
\* answer is so and it moves the client accordingly.
LEMMA AnswerKept ==
  ASSUME AInv, UNCHANGED <<form, remote, wire>>,
         call'.pc \in Asking => remote.state = "none",
         result' = "completed" => call'.pc \in {"turn", "ended"} /\ remote.state = "finished",
         result' = "transient" => call'.pc \in {"retry", "ended"},
         result' = "transient" /\ (form.stream \/ form.kind = "http") =>
           remote.state \in {"none", "refused", "failed"} /\ ~remote.acted
  PROVE  AInv'
BY DEF AInv, WireHolds, ResultHolds, KnownOutcomeIsTrue, Asking

\* An attempt that ends keeps the invariant, if nothing was begun for it or its
\* end is not a temporary failure.
LEMMA EndKeepsAInv ==
  ASSUME MInv, AInv, NEW kind, kind # "completed", End(kind), UNCHANGED <<form, remote, wire>>,
         kind = "transient" /\ (form.stream \/ form.kind = "http") =>
           remote.state \in {"none", "refused", "failed"} /\ ~remote.acted
  PROVE  AInv'
<1>1. result' = kind /\ call'.pc \in {"retry", "ended"}
  BY DEF End, Goto, MInv, ModesTyped, CallOK
<1>2. kind = "transient" => call'.pc \in {"retry", "ended"}
  BY <1>1
<1> QED BY <1>1, <1>2, AnswerKept DEF Asking

\* An error is temporary only as a refusal.
LEMMA TemporaryIsRefusal ==
  ASSUME NEW s, ErrorKind(s) = "transient"
  PROVE  s \in Refusals
BY DEF ErrorKind, Refusals

\* What the client concludes from an answer is so.
LEMMA ReceiveKeepsAInv == MInv /\ AInv /\ Receive => AInv'
<1> SUFFICES ASSUME MInv, AInv, Receive PROVE AInv'
  OBVIOUS
<1>0. UNCHANGED <<form, remote, wire>>
  BY DEF Receive
<1>1. CASE remote.status # "ok" /\ End(ErrorKind(remote.status))
  <2>1. ErrorKind(remote.status) # "completed"
    BY DEF ErrorKind
  <2>2. ErrorKind(remote.status) = "transient" => remote.state = "refused" /\ ~remote.acted
    BY TemporaryIsRefusal DEF AInv, WireHolds
  <2> QED BY <1>0, <1>1, <2>1, <2>2, EndKeepsAInv
<1>2. CASE \E n \in 0..Len(wire), cut \in {<<>>, <<"malformed">>} :
             \E kind \in Verdicts(SubSeq(wire, 1, n) \o cut) : Judged(kind)
  <2>1. PICK n \in 0..Len(wire), cut \in {<<>>, <<"malformed">>} :
               \E kind \in Verdicts(SubSeq(wire, 1, n) \o cut) : Judged(kind)
    BY <1>2
  <2>2. PICK kind \in Verdicts(SubSeq(wire, 1, n) \o cut) : Judged(kind)
    BY <2>1
  <2>3. /\ kind = "completed" => remote.state = "finished"
        /\ kind = "transient" /\ (form.stream \/ form.kind = "http") =>
             remote.state = "failed" /\ ~remote.acted
    BY VerdictShown
  <2>4. CASE kind = "completed"
    <3>1. result' = "completed" /\ call'.pc \in {"turn", "ended"}
      BY <2>2, <2>4 DEF Judged, Completed, Goto, MInv, ModesTyped, CallOK
    <3> QED BY <3>1, <2>3, <2>4, <1>0, AnswerKept DEF Asking
  <2>5. CASE kind # "completed"
    BY <2>2, <2>3, <2>5, <1>0, EndKeepsAInv DEF Judged
  <2> QED BY <2>4, <2>5
<1>3. CASE End("permanent") \/ End("unknown")
  <2>1. "permanent" # "completed" /\ "permanent" # "transient"
        /\ "unknown" # "completed" /\ "unknown" # "transient"
    OBVIOUS
  <2> QED BY <1>0, <1>3, <2>1, EndKeepsAInv
<1> QED BY <1>1, <1>2, <1>3 DEF Receive

\* The client's other steps ask for nothing while a turn is under way.
LEMMA ClientKeepsAInv == MInv /\ AInv /\ Client => AInv'
<1> SUFFICES ASSUME MInv, AInv, Client PROVE AInv'
  OBVIOUS
<1>0. CallOK /\ "permanent" # "completed" /\ "permanent" # "transient"
      /\ "unknown" # "completed" /\ "unknown" # "transient"
  BY DEF MInv, ModesTyped
<1>a. call.pc \in Asking => remote.state = "none" /\ wire = <<>> /\ ~remote.acted
                            /\ result \notin {"completed", "transient"}
  BY DEF AInv, ResultHolds, WireHolds, Asking
<1>b. Kinds \cap {"completed"} = {}
  BY DEF Kinds
<1>1. CASE Retry \/ Turn
  <2>1. /\ remote' = Idle /\ wire' = <<>> /\ result' = "none" /\ form' = form
    BY <1>1 DEF Retry, Turn
  <2> QED BY <2>1 DEF Idle, AInv, WireHolds, ResultHolds, KnownOutcomeIsTrue, Refusals
<1>2. CASE Begin \/ Inspect \/ Mention
  <2>1. call.pc \in Asking /\ UNCHANGED <<form, remote, wire, result>>
    BY <1>2 DEF Begin, Inspect, Mention, Asking
  <2> QED BY <2>1, <1>a, AnswerKept
<1>3. CASE LookupFails
  <2>1. call.pc \in Asking /\ UNCHANGED <<form, remote, wire>>
    BY <1>3 DEF LookupFails, Asking
  <2>2. PICK kind \in Kinds : End(kind)
    BY <1>3 DEF LookupFails
  <2> QED BY <2>1, <2>2, <1>a, <1>b, EndKeepsAInv
<1>4. CASE Ensure
  <2>1. call.pc \in Asking /\ UNCHANGED <<form, remote, wire>>
    BY <1>4 DEF Ensure, Asking
  <2>2. CASE End("permanent")
    BY <2>1, <2>2, <1>0, EndKeepsAInv
  <2>3. CASE UNCHANGED result
    BY <2>1, <2>3, <1>a, AnswerKept
  <2> QED BY <1>4, <2>2, <2>3 DEF Ensure
<1>5. CASE SetMode
  <2>1. call.pc \in Asking /\ UNCHANGED <<form, remote, wire>>
    BY <1>5 DEF SetMode, Asking
  <2>2. CASE UNCHANGED result
    BY <2>1, <2>2, <1>a, AnswerKept
  <2>3. CASE End("unknown")
    BY <2>1, <2>3, <1>0, EndKeepsAInv
  <2>4. CASE \E kind \in Kinds : End(kind)
    BY <2>1, <2>4, <1>a, <1>b, EndKeepsAInv
  <2> QED BY <1>5, <2>2, <2>3, <2>4 DEF SetMode
<1>6. CASE Send
  <2>1. call.pc \in Asking /\ wire' = wire /\ result' = result /\ form' = form
    BY <1>6 DEF Send, Asking
  <2>2. remote' = [state |-> "sent", acted |-> FALSE, status |-> "ok"]
    BY <1>6 DEF Send, Idle
  <2>3. call'.pc \notin Asking
    BY <1>6, <1>0 DEF Send, CallOK, Asking
  <2> QED BY <2>1, <2>2, <2>3, <1>a DEF AInv, WireHolds, ResultHolds, KnownOutcomeIsTrue, Asking, Refusals
<1>7. CASE GiveUp
  <2>1. UNCHANGED <<form, remote, wire>> /\ (End("unknown") \/ End("permanent"))
    BY <1>7 DEF GiveUp
  <2> QED BY <2>1, <1>0, EndKeepsAInv
<1>8. CASE Final
  <2>1. call.pc = "turn" /\ call'.pc = "ended" /\ UNCHANGED <<form, remote, wire, result>>
    BY <1>8, <1>0 DEF Final, Goto, CallOK
  <2>2. result # "transient" /\ (result = "completed" => remote.state = "finished")
    BY <2>1 DEF AInv, ResultHolds, KnownOutcomeIsTrue
  <2> QED BY <2>1, <2>2, AnswerKept DEF Asking
<1> QED BY <1>1, <1>2, <1>3, <1>4, <1>5, <1>6, <1>7, <1>8, ReceiveKeepsAInv DEF Client

\* A prober begins its one request before anything else, and may be interrupted.
LEMMA ProberKeepsAInv == MInv /\ AInv /\ (Prober \/ Surroundings) => AInv'
<1> SUFFICES ASSUME MInv, AInv, Prober \/ Surroundings PROVE AInv'
  OBVIOUS
<1>0. CallOK
  BY DEF MInv, ModesTyped
<1>1. CASE UNCHANGED providerVars
  BY <1>1 DEF providerVars, AInv, WireHolds, ResultHolds, KnownOutcomeIsTrue
<1>2. CASE Request /\ ~UNCHANGED providerVars
  <2>1. call.pc = "off" /\ call'.pc = "send" /\ UNCHANGED <<form, remote, wire, result>>
    BY <1>2, <1>0 DEF Request, CallOK, providerVars
  <2> QED BY <2>1, AnswerKept DEF AInv, ResultHolds, Asking
<1>3. CASE Interrupt
  <2>1. UNCHANGED <<form, remote, wire, result>> /\ (call'.pc = "ended" \/ call' = call)
    BY <1>3, <1>0 DEF Interrupt, CallOK
  <2> QED BY <2>1 DEF AInv, WireHolds, ResultHolds, KnownOutcomeIsTrue
<1>4. Prober \/ Surroundings => Request \/ Interrupt \/ UNCHANGED providerVars
  BY DEF Prober, Surroundings, Authorize, Spawn, Waited, Terminate, Answered, Record, Approve,
         Replace, Fork, MemberEnds
<1> QED BY <1>1, <1>2, <1>3, <1>4

\* The invariants are inductive together.
LEMMA AInvInductive == MInv /\ AInv /\ [Next]_vars => AInv'
<1> SUFFICES ASSUME MInv, AInv, [Next]_vars PROVE AInv'
  OBVIOUS
<1>1. CASE UNCHANGED vars
  BY <1>1 DEF vars, providerVars, AInv, WireHolds, ResultHolds, KnownOutcomeIsTrue
<1> QED BY <1>1, RemoteKeepsAInv, ClientKeepsAInv, ProberKeepsAInv DEF Next

\* For any configurations, and however streams are cut and errors arrive: what is
\* called completed was finished by the remote, and what is called temporary, and
\* so repeated by the manager, had no effect (_open_coddy, _parse_coddy_stream).
THEOREM KnownOutcomesTrue == Spec => []KnownOutcomeIsTrue
<1>1. Spec => []MInv
  BY MInvInit, MInvInductive, PTL DEF Spec
<1>2. Spec => []AInv
  BY <1>1, AInvInit, AInvInductive, PTL DEF Spec
<1>3. AInv => KnownOutcomeIsTrue
  BY DEF AInv, ResultHolds
<1> QED BY <1>2, <1>3, PTL

----------------------------------------------------------------------------
\* Consent

\* The fields of the records that steps update
Shape ==
  /\ file = [content |-> file.content, replaced |-> file.replaced] /\ file.replaced \in Nat
  /\ approval = [a \in Approvals |-> approval[a]]
  /\ probe = [pc |-> probe.pc, number |-> probe.number, tier |-> probe.tier, id |-> probe.id,
              unlisted |-> probe.unlisted, route |-> probe.route, endpoint |-> probe.endpoint,
              content |-> probe.content, replaced |-> probe.replaced, status |-> probe.status]
  /\ used = [content |-> used.content, endpoint |-> used.endpoint,
             audited |-> used.audited, stale |-> used.stale]

Begun == probe.pc \in {"spawn", "request"}

\* A probe that is granted but has not begun holds what was approved for its
\* tier, or its audit row is written.
GrantHolds ==
  Begun =>
    /\ probe.tier = IF probe.pc = "spawn" THEN "handshake" ELSE "generative"
    /\ used.content = 0 /\ used.endpoint = "none"
    /\ \/ used.audited
       \/ /\ probe.id \in Approvals
          /\ approval[probe.id].tier = probe.tier
          /\ approval[probe.id].content = probe.content
          /\ approval[probe.id].endpoint = probe.endpoint

\* What the probe read of the file is what it holds, unless it was replaced.
ReadHolds ==
  Begun => /\ probe.replaced \in Nat /\ probe.replaced <= file.replaced
           /\ probe.replaced = file.replaced => probe.content = file.content

DInv == Shape /\ GrantHolds /\ ReadHolds /\ UsedAsApproved

\* The initial state satisfies the invariant.
LEMMA DInvInit == Init => DInv
BY DEF Init, InitDiscovery, DInv, Shape, GrantHolds, ReadHolds, UsedAsApproved, Begun,
       NoProbe, Unused

\* A step of the provider's client or of its server leaves all of it alone.
LEMMA ClientKeepsDInv == DInv /\ UNCHANGED discoveryVars => DInv'
BY DEF discoveryVars, DInv, Shape, GrantHolds, ReadHolds, UsedAsApproved, Begun

\* A probe that goes on, with nothing new begun or used, keeps the invariant.
LEMMA GoesOn ==
  ASSUME DInv, UNCHANGED <<file, approval, used>>,
         probe'.pc \notin {"spawn", "request"},
         probe' = [pc |-> probe'.pc, number |-> probe'.number, tier |-> probe'.tier, id |-> probe'.id,
              unlisted |-> probe'.unlisted, route |-> probe'.route, endpoint |-> probe'.endpoint,
              content |-> probe'.content, replaced |-> probe'.replaced, status |-> probe'.status]
  PROVE  DInv'
BY DEF DInv, Shape, GrantHolds, ReadHolds, UsedAsApproved, Begun

\* An approval is written once.
LEMMA ApproveKeepsDInv ==
  ASSUME DInv, NEW a \in Approvals, Approve(a)
  PROVE  DInv'
<1>1. approval[a].tier = "none"
  BY DEF Approve, NoApproval
<1>2. \A b \in Approvals : approval[b].tier \in Tiers => approval'[b] = approval[b]
  BY <1>1 DEF Approve, Tiers, DInv, Shape
<1>3. UNCHANGED <<file, probe, used>>
  BY DEF Approve
<1>4. Shape'
  BY <1>3 DEF Approve, DInv, Shape
<1>5. GrantHolds'
  BY <1>2, <1>3 DEF DInv, GrantHolds, Begun, Tiers
<1>6. ReadHolds'
  BY <1>3 DEF DInv, ReadHolds, Begun
<1>7. UsedAsApproved'
  <2> SUFFICES ASSUME used.content # 0 \/ used.endpoint # "none", ~used.audited
               PROVE  UsedAsApproved'
    BY <1>3 DEF UsedAsApproved
  <2>1. PICK b \in Approvals :
          /\ approval[b].tier = IF used.content # 0 THEN "handshake" ELSE "generative"
          /\ used.content # 0 => used.content = approval[b].content \/ used.stale
          /\ used.endpoint # "none" => used.endpoint = approval[b].endpoint
    BY DEF DInv, UsedAsApproved
  <2>2. approval'[b] = approval[b]
    BY <2>1, <1>2 DEF Tiers
  <2> QED BY <2>1, <2>2, <1>3 DEF UsedAsApproved
<1> QED BY <1>4, <1>5, <1>6, <1>7 DEF DInv

\* A file that is replaced is not what an earlier reading says.
LEMMA ReplaceKeepsDInv == DInv /\ Replace => DInv'
<1> SUFFICES ASSUME DInv, Replace PROVE DInv'
  OBVIOUS
<1>1. file'.replaced = file.replaced + 1 /\ UNCHANGED <<approval, probe, used>>
      /\ file' = [content |-> file'.content, replaced |-> file'.replaced]
  BY DEF Replace
<1>2. ReadHolds'
  BY <1>1 DEF DInv, Shape, ReadHolds, Begun
<1> QED BY <1>1, <1>2 DEF DInv, Shape, GrantHolds, UsedAsApproved, Begun

\* A grant holds what the approval's fingerprint says.
LEMMA AuthorizeKeepsDInv ==
  ASSUME DInv, NEW tier \in Tiers, NEW route, NEW environment, Authorize(tier, route, environment)
  PROVE  DInv'
<1> DEFINE r == Resolved(route, environment)
           granted(a, unlisted) ==
           [NoProbe EXCEPT !.pc = IF tier = "handshake" THEN "spawn" ELSE "request",
              !.number = probe.number + 1, !.tier = tier, !.id = a, !.unlisted = unlisted,
              !.route = route, !.endpoint = r.endpoint, !.content = r.content,
              !.replaced = file.replaced]
<1>1. /\ UNCHANGED <<file, approval>>
      /\ used' = [content |-> 0, endpoint |-> "none", audited |-> probe'.unlisted, stale |-> FALSE]
  BY DEF Authorize, Unused
<1>2. UsedAsApproved'
  BY <1>1 DEF UsedAsApproved
<1>3. CASE \E a \in Approvals : probe' = [probe EXCEPT !.number = @ + 1]
  <2>1. probe.pc = "idle"
    BY DEF Authorize
  <2>2. probe'.pc = "idle" /\ Shape'
    BY <1>1, <1>3, <2>1 DEF DInv, Shape
  <2> QED BY <2>2, <1>2 DEF DInv, GrantHolds, ReadHolds, Begun
<1>4. ASSUME NEW a, NEW unlisted, probe' = granted(a, unlisted),
             unlisted = TRUE \/ (a \in Approvals /\ Approved(a, tier, r))
      PROVE  DInv'
  <2>1. probe' = [pc |-> IF tier = "handshake" THEN "spawn" ELSE "request",
                  number |-> probe.number + 1, tier |-> tier, id |-> a, unlisted |-> unlisted,
                  route |-> route, endpoint |-> r.endpoint, content |-> r.content,
                  replaced |-> file.replaced, status |-> "none"]
    BY <1>4 DEF NoProbe
  <2>2. Shape'
    BY <1>1, <2>1 DEF DInv, Shape
  <2>3. r.content = file.content
    BY DEF Resolved
  <2> HIDE DEF r
  <2>4. ReadHolds'
    BY <1>1, <2>1, <2>3 DEF DInv, Shape, ReadHolds, Begun
  <2>5. a \in Approvals /\ Approved(a, tier, r) =>
          approval[a].tier = tier /\ approval[a].endpoint = r.endpoint /\ approval[a].content = r.content
    BY DEF Approved, Fingerprint
  <2>6. GrantHolds'
    BY <1>1, <1>4, <2>1, <2>5 DEF GrantHolds, Begun, Tiers
  <2> QED BY <2>2, <2>4, <2>6, <1>2 DEF DInv
<1>5. \/ probe' = granted(0, TRUE)
      \/ \E a \in Approvals : Approved(a, tier, r) /\ probe' = granted(a, FALSE)
      \/ \E a \in Approvals : probe' = [probe EXCEPT !.number = @ + 1]
  BY DEF Authorize
<1> HIDE DEF granted, r
<1> QED BY <1>3, <1>4, <1>5

\* The start uses what the file holds, which was approved or is stale.
LEMMA SpawnKeepsDInv == DInv /\ Spawn => DInv'
<1> SUFFICES ASSUME DInv, Spawn PROVE DInv'
  OBVIOUS
<1>1. CASE probe' = [probe EXCEPT !.pc = "record", !.status = "failed"] /\ UNCHANGED <<group, used>>
  <2>1. UNCHANGED <<file, approval, used>>
    BY <1>1 DEF Spawn
  <2> QED BY <1>1, <2>1, GoesOn DEF DInv, Shape
<1>2. CASE /\ used' = [used EXCEPT !.content = file.content, !.stale = file.replaced # probe.replaced]
           /\ probe' = [probe EXCEPT !.pc = "wait"]
  <2>1. UNCHANGED <<file, approval>> /\ probe.pc = "spawn"
    BY DEF Spawn
  <2>2. /\ used'.content = file.content /\ used'.endpoint = used.endpoint
        /\ used'.audited = used.audited /\ used'.stale = (file.replaced # probe.replaced)
        /\ used' = [content |-> used'.content, endpoint |-> used'.endpoint,
                    audited |-> used'.audited, stale |-> used'.stale]
    BY <1>2 DEF DInv, Shape
  <2>3. probe'.pc = "wait" /\ Shape'
    BY <1>2, <2>1, <2>2 DEF DInv, Shape
  <2>4. used.endpoint = "none"
        /\ (used.audited \/ /\ probe.id \in Approvals /\ approval[probe.id].tier = "handshake"
                            /\ approval[probe.id].content = probe.content)
    BY <2>1 DEF DInv, GrantHolds, Begun
  <2>5. used'.stale \/ probe.content = file.content
    BY <2>1, <2>2 DEF DInv, ReadHolds, Begun
  <2>6. UsedAsApproved'
    <3> SUFFICES ASSUME ~used'.audited, used'.content # 0 PROVE UsedAsApproved'
      BY <2>2, <2>4 DEF UsedAsApproved
    <3> QED BY <2>1, <2>2, <2>4, <2>5 DEF UsedAsApproved
  <2> QED BY <2>3, <2>6 DEF DInv, GrantHolds, ReadHolds, Begun
<1> QED BY <1>1, <1>2 DEF Spawn, Set

\* The request goes to the endpoint that was resolved.
LEMMA RequestKeepsDInv == DInv /\ Request => DInv'
<1> SUFFICES ASSUME DInv, Request PROVE DInv'
  OBVIOUS
<1>0. UNCHANGED <<file, approval>> /\ probe.pc = "request"
  BY DEF Request
<1>1. CASE probe' = [probe EXCEPT !.pc = "record", !.status = "failed"] /\ UNCHANGED used
  BY <1>0, <1>1, GoesOn DEF DInv, Shape
<1>2. CASE probe' = [probe EXCEPT !.pc = "idle"] /\ UNCHANGED used
  BY <1>0, <1>2, GoesOn DEF DInv, Shape
<1>3. CASE used' = [used EXCEPT !.endpoint = probe.endpoint] /\ probe' = [probe EXCEPT !.pc = "answer"]
  <2>1. /\ used'.content = used.content /\ used'.endpoint = probe.endpoint
        /\ used'.audited = used.audited
        /\ used' = [content |-> used'.content, endpoint |-> used'.endpoint,
                    audited |-> used'.audited, stale |-> used'.stale]
    BY <1>3 DEF DInv, Shape
  <2>2. probe'.pc = "answer" /\ Shape'
    BY <1>0, <1>3, <2>1 DEF DInv, Shape
  <2>3. used.content = 0
        /\ (used.audited \/ /\ probe.id \in Approvals /\ approval[probe.id].tier = "generative"
                            /\ approval[probe.id].endpoint = probe.endpoint)
    BY <1>0 DEF DInv, GrantHolds, Begun
  <2>4. UsedAsApproved'
    BY <1>0, <2>1, <2>3 DEF UsedAsApproved
  <2> QED BY <2>2, <2>4 DEF DInv, GrantHolds, ReadHolds, Begun
<1> QED BY <1>1, <1>2, <1>3 DEF Request, Set

\* The other steps begin and use nothing.
LEMMA RestKeepsDInv ==
  DInv /\ (Waited \/ Terminate \/ Answered \/ Record \/ Interrupt \/ Fork
           \/ \E m \in Members : MemberEnds(m)) => DInv'
<1> SUFFICES ASSUME DInv, Waited \/ Terminate \/ Answered \/ Record \/ Interrupt \/ Fork
                          \/ \E m \in Members : MemberEnds(m)
             PROVE  DInv'
  OBVIOUS
<1>1. CASE Fork \/ \E m \in Members : MemberEnds(m)
  BY <1>1 DEF Fork, MemberEnds, DInv, Shape, GrantHolds, ReadHolds, UsedAsApproved, Begun
<1>2. CASE Waited \/ Terminate \/ Answered \/ Record \/ Interrupt
  <2>1. UNCHANGED <<file, approval, used>>
    BY <1>2 DEF Waited, Terminate, Answered, Record, Interrupt
  <2>2. \/ \E pc \in {"record", "idle"} : probe' = [probe EXCEPT !.pc = pc]
        \/ \E status : probe' = [probe EXCEPT !.status = status] /\ probe.pc = "record"
        \/ \E pc \in {"terminate", "record"}, status \in {"completed", "timeout", "failed"} :
             probe' = [probe EXCEPT !.pc = pc, !.status = status]
    <3>1. CASE Waited
      BY <3>1 DEF Waited
    <3>2. CASE Terminate
      BY <3>2 DEF Terminate
    <3>3. CASE Answered
      BY <3>3 DEF Answered
    <3>4. CASE Record
      BY <3>4 DEF Record, Set
    <3>5. CASE Interrupt
      BY <3>5 DEF Interrupt, Set
    <3> QED BY <1>2, <3>1, <3>2, <3>3, <3>4, <3>5
  <2> QED BY <2>1, <2>2, GoesOn DEF DInv, Shape
<1> QED BY <1>1, <1>2

\* The invariant is inductive.
LEMMA DInvInductive == DInv /\ [Next]_vars => DInv'
<1> SUFFICES ASSUME DInv, [Next]_vars PROVE DInv'
  OBVIOUS
<1>1. CASE UNCHANGED discoveryVars
  BY <1>1, ClientKeepsDInv
<1>2. CASE Prober
  BY <1>2, AuthorizeKeepsDInv, SpawnKeepsDInv, RequestKeepsDInv, RestKeepsDInv DEF Prober
<1>3. CASE Surroundings
  BY <1>3, ApproveKeepsDInv, ReplaceKeepsDInv, RestKeepsDInv DEF Surroundings
<1> QED BY <1>1, <1>2, <1>3 DEF Next, vars

\* For any approvals, environments and replacements of the file, a probe starts
\* only what was approved for a handshake, unless the file was replaced after its
\* authorization, and sends a credential only to an endpoint approved for
\* generative probes, or the use is audited (_authorize, handshake, generative).
THEOREM ProbesAsApproved == Spec => []UsedAsApproved
<1>1. Spec => []DInv
  BY DInvInit, DInvInductive, PTL DEF Spec
<1> QED BY <1>1, PTL DEF DInv

----------------------------------------------------------------------------
\* Evidence

\* What the evidence is about is over, and stays so.
Over == \/ probe.tier = "handshake" /\ group["leader"] = "gone"
        \/ probe.tier = "generative" /\ remote.state = "finished" /\ call.pc = "ended"

\* The tier goes with the step of the probe.
TierHolds ==
  /\ probe.pc \in {"idle", "spawn", "wait", "terminate", "request", "answer", "record"}
  /\ probe.pc \in {"spawn", "wait", "terminate"} => probe.tier = "handshake"
  /\ probe.pc \in {"request", "answer"} => probe.tier = "generative"
  /\ probe.pc = "record" => probe.tier \in Tiers

\* The group is empty before the start, and ended when the probe comes to record.
GroupHolds ==
  /\ group = [m \in Members |-> group[m]]
  /\ probe.pc \in {"spawn", "request", "answer"} => group = NoGroup
  /\ probe.pc = "wait" => group["leader"] # "none"
  /\ probe.pc = "record" \/ evidence # "none" => Left = {}

\* What completed is over, from the status to the row.
CompletedHolds ==
  /\ evidence # "none" => probe.pc = "idle"
  /\ (probe.pc \in {"terminate", "record"} /\ probe.status = "completed") \/ evidence = "completed"
       => Over

EInv == TierHolds /\ GroupHolds /\ CompletedHolds

\* The initial state satisfies the invariant.
LEMMA EInvInit == Init => EInv
BY DEF Init, InitDiscovery, EInv, TierHolds, GroupHolds, CompletedHolds, NoProbe, NoGroup, Left

\* A client that has ended goes no further, and the remote leaves a finished turn.
LEMMA OverStays ==
  ASSUME MInv, Remote \/ Client, remote.state = "finished", call.pc = "ended"
  PROVE  remote'.state = "finished" /\ call'.pc = "ended"
<1>1. ~Client
  BY DEF Client, Retry, Begin, LookupFails, Inspect, Ensure, Turn, Mention, SetMode, Send, Receive,
         Waiting, GiveUp, Final
<1>2. CASE Remote
  BY <1>2 DEF Remote, Refuse, Accept, Gateway, Act, Finish, Break, Close, ModeChange, remoteOnly
<1> QED BY <1>1, <1>2

\* The client's and the remote's steps leave the evidence true.
LEMMA ClientKeepsEInv ==
  ASSUME MInv, EInv, UNCHANGED discoveryVars, Remote \/ Client \/ UNCHANGED <<call, remote>>
  PROVE  EInv'
<1>1. UNCHANGED <<probe, group, evidence>>
  BY DEF discoveryVars
<1>2. Over => Over'
  BY <1>1, OverStays DEF Over
<1> QED BY <1>1, <1>2 DEF EInv, TierHolds, GroupHolds, CompletedHolds, Left

\* The group's own steps: members that are left end, or start others.
LEMMA GroupKeepsEInv ==
  ASSUME EInv, Fork \/ \E m \in Members : MemberEnds(m)
  PROVE  EInv'
<1>1. UNCHANGED <<probe, evidence, remote, call>>
  BY DEF Fork, MemberEnds, providerVars
<1>2. CASE Fork
  <2>1. group["leader"] = "running" /\ group' = [group EXCEPT !["child"] = "running"] /\ Left # {}
    BY <1>2 DEF Fork, Left, Members
  <2>2. group'["leader"] = "running" /\ group' = [m \in Members |-> group'[m]]
    BY <2>1 DEF EInv, GroupHolds, Members
  <2>3. probe.pc # "record" /\ evidence = "none" /\ probe.pc \notin {"spawn", "request", "answer"}
    BY <2>1 DEF EInv, GroupHolds, NoGroup, Members
  <2>4. ~(probe.pc = "terminate" /\ probe.status = "completed")
    BY <1>2, <2>1, <2>3 DEF EInv, TierHolds, CompletedHolds, Over
  <2> QED BY <1>1, <2>2, <2>3, <2>4 DEF EInv, TierHolds, GroupHolds, CompletedHolds
<1>3. ASSUME NEW m \in Members, MemberEnds(m) PROVE EInv'
  <2>1. group[m] \in {"running", "killed"} /\ group' = [group EXCEPT ![m] = "gone"]
    BY <1>3 DEF MemberEnds
  <2>2. /\ group' = [k \in Members |-> group'[k]]
        /\ \A k \in Members : group'[k] = IF k = m THEN "gone" ELSE group[k]
    BY <2>1 DEF EInv, GroupHolds
  <2>3. "leader" \in Members
    BY DEF Members
  <2>4. Left' \subseteq Left /\ group # NoGroup /\ (group["leader"] = "gone" => group'["leader"] = "gone")
        /\ (group["leader"] # "none" => group'["leader"] # "none")
    BY <2>1, <2>2, <2>3 DEF Left, NoGroup
  <2> QED BY <1>1, <2>2, <2>4 DEF EInv, TierHolds, GroupHolds, CompletedHolds, Over
<1> QED BY <1>2, <1>3

\* A new probe starts from an empty group, without evidence.
LEMMA AuthorizeKeepsEInv ==
  ASSUME DInv, NEW tier \in Tiers, NEW route, NEW environment, Authorize(tier, route, environment)
  PROVE  EInv'
<1>1. group' = NoGroup /\ evidence' = "none" /\ probe.pc = "idle"
  BY DEF Authorize
<1>2. \/ probe'.pc = "idle"
      \/ probe'.pc = (IF tier = "handshake" THEN "spawn" ELSE "request") /\ probe'.tier = tier
  BY <1>1 DEF Authorize, NoProbe, DInv, Shape
<1> QED BY <1>1, <1>2 DEF EInv, TierHolds, GroupHolds, CompletedHolds, NoGroup, Left, Tiers

\* The steps of a handshake.
LEMMA HandshakeKeepsEInv ==
  ASSUME DInv, EInv, Spawn \/ Waited \/ Terminate
  PROVE  EInv'
<1>1. UNCHANGED <<evidence, remote, call>> /\ evidence = "none"
  BY DEF Spawn, Waited, Terminate, providerVars, EInv, CompletedHolds
<1>2. probe.tier = "handshake" /\ probe.pc \in {"spawn", "wait", "terminate"}
  BY DEF Spawn, Waited, Terminate, EInv, TierHolds
<1>3. probe'.tier = "handshake"
  BY <1>2 DEF Spawn, Waited, Terminate, Set, DInv, Shape
<1>4. CASE Spawn
  <2>1. probe.pc = "spawn" /\ group = NoGroup
    BY <1>4 DEF Spawn, EInv, GroupHolds
  <2>2. \/ probe'.pc = "wait" /\ group' = [NoGroup EXCEPT !["leader"] = "running"]
        \/ probe'.pc = "record" /\ probe'.status = "failed" /\ group' = group
    BY <1>4 DEF Spawn, Set, DInv, Shape
  <2> QED BY <1>1, <1>3, <2>1, <2>2
          DEF EInv, TierHolds, GroupHolds, CompletedHolds, NoGroup, Left, Members, Tiers
<1>5. CASE Waited
  <2>1. /\ probe.pc = "wait" /\ UNCHANGED group /\ probe'.pc = "terminate"
        /\ (probe'.status = "completed" /\ Gone("leader")) \/ probe'.status = "timeout"
    BY <1>5 DEF Waited, DInv, Shape
  <2> QED BY <1>1, <1>3, <2>1 DEF EInv, TierHolds, GroupHolds, CompletedHolds, Over, Gone, Left
<1>6. CASE Terminate
  <2>1. /\ probe.pc = "terminate" /\ probe'.pc = "record"
        /\ probe'.status = probe.status \/ probe'.status = "failed"
    BY <1>6 DEF Terminate, DInv, Shape
  <2>2. /\ group' = [m \in Members |-> group'[m]] /\ Left' = {}
        /\ group["leader"] = "gone" => group'["leader"] = "gone"
    BY <1>6 DEF Terminate, Left, EInv, GroupHolds, Members
  <2> QED BY <1>1, <1>2, <1>3, <2>1, <2>2
          DEF EInv, TierHolds, GroupHolds, CompletedHolds, Over, Left, Tiers
<1> QED BY <1>4, <1>5, <1>6

\* The steps of a generative probe; the client's verdict on the answer is true.
LEMMA GenerativeKeepsEInv ==
  ASSUME MInv, AInv, DInv, EInv, Request \/ Answered
  PROVE  EInv'
<1>1. UNCHANGED <<evidence, group, remote>> /\ evidence = "none"
  BY DEF Request, Answered, providerVars, EInv, CompletedHolds
<1>2. probe.tier = "generative" /\ probe.pc \in {"request", "answer"} /\ group = NoGroup /\ Left = {}
  BY DEF Request, Answered, EInv, TierHolds, GroupHolds, NoGroup, Left
<1>3. probe'.tier = "generative"
  BY <1>2 DEF Request, Answered, Set, DInv, Shape
<1>4. CASE Request
  <2>1. probe'.pc \in {"answer", "idle"} \/ (probe'.pc = "record" /\ probe'.status = "failed")
    BY <1>4 DEF Request, Set, DInv, Shape
  <2> QED BY <1>1, <1>2, <1>3, <2>1 DEF EInv, TierHolds, GroupHolds, CompletedHolds, Left, Tiers
<1>5. CASE Answered
  <2>1. /\ probe'.pc = "record" /\ call.pc = "ended" /\ UNCHANGED call
        /\ probe'.status = "completed" => result = "completed"
    BY <1>5 DEF Answered, providerVars, DInv, Shape
  <2>2. probe'.status = "completed" => remote.state = "finished"
    BY <2>1 DEF AInv, ResultHolds, KnownOutcomeIsTrue
  <2> QED BY <1>1, <1>2, <1>3, <2>1, <2>2
          DEF EInv, TierHolds, GroupHolds, CompletedHolds, Over, Left, Tiers
<1> QED BY <1>4, <1>5

\* The record of the evidence, and an interrupt, which leaves none.
LEMMA RecordKeepsEInv ==
  ASSUME MInv, DInv, EInv, Record \/ Interrupt
  PROVE  EInv'
<1>1. UNCHANGED <<group, remote>> /\ probe'.tier = probe.tier
  BY DEF Record, Interrupt, Set, providerVars, DInv, Shape
<1>2. CASE Record
  <2>1. probe.pc = "record" /\ evidence = "none" /\ Left = {} /\ UNCHANGED call /\ probe.tier \in Tiers
    BY <1>2 DEF Record, providerVars, EInv, TierHolds, GroupHolds, CompletedHolds
  <2>2. \/ probe'.pc = "idle" /\ evidence' \in {probe.status, "none"}
        \/ probe'.pc = "record" /\ probe'.status = "failed" /\ evidence' = "none"
    BY <1>2, <2>1 DEF Record, Set, DInv, Shape
  <2>3. probe.status = "completed" => Over'
    BY <1>1, <2>1 DEF EInv, CompletedHolds, Over
  <2> QED BY <1>1, <2>1, <2>2, <2>3 DEF EInv, TierHolds, GroupHolds, CompletedHolds, Left
<1>3. CASE Interrupt
  <2>1. probe'.pc = "idle" /\ evidence' = evidence /\ probe.pc # "idle"
    BY <1>3 DEF Interrupt, Set, DInv, Shape
  <2> QED BY <1>1, <2>1 DEF EInv, TierHolds, GroupHolds, CompletedHolds
<1> QED BY <1>2, <1>3

\* The invariant is inductive, beside the other three.
LEMMA EInvInductive == MInv /\ AInv /\ DInv /\ EInv /\ [Next]_vars => EInv'
<1> SUFFICES ASSUME MInv, AInv, DInv, EInv, [Next]_vars PROVE EInv'
  OBVIOUS
<1>1. CASE UNCHANGED vars
  BY <1>1, ClientKeepsEInv DEF vars, providerVars
<1>2. CASE (Remote \/ Client) /\ UNCHANGED discoveryVars
  BY <1>2, ClientKeepsEInv
<1>3. CASE Prober
  BY <1>3, AuthorizeKeepsEInv, HandshakeKeepsEInv, GenerativeKeepsEInv, RecordKeepsEInv DEF Prober
<1>4. CASE Surroundings
  <2>1. ASSUME Replace \/ \E a \in Approvals : Approve(a) PROVE EInv'
    <3>1. UNCHANGED <<probe, group, evidence, remote, call>>
      BY <2>1 DEF Replace, Approve, providerVars
    <3> QED BY <3>1 DEF EInv, TierHolds, GroupHolds, CompletedHolds, Over, Left
  <2> QED BY <1>4, <2>1, GroupKeepsEInv DEF Surroundings
<1> QED BY <1>1, <1>2, <1>3, <1>4 DEF Next

\* For any routes, files and approvals, and however a probe is interrupted:
\* evidence is recorded when no member of the process group is left that was not
\* killed, and says completed of an executable that ended by itself, or of a turn
\* that the remote finished (_run_handshake, _terminate_group, generative).
THEOREM EvidenceTrue == Spec => []EvidenceIsLast
<1>1. EInv => EvidenceIsLast
  BY DEF EInv, GroupHolds, CompletedHolds, Over, EvidenceIsLast
<1> QED BY <1>1, MInvInit, MInvInductive, AInvInit, AInvInductive, DInvInit, DInvInductive,
           EInvInit, EInvInductive, PTL DEF Spec
=============================================================================
