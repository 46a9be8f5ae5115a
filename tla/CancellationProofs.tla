-------------------------- MODULE CancellationProofs --------------------------
(***************************************************************************)
(* For every grace period: capacity is released only after the group is     *)
(* gone, and the signals come once each, in order, a full period apart.     *)
(***************************************************************************)
EXTENDS Cancellation, SequenceTheorems, TLAPS

\* The signals sent are a prefix of TERM, KILL; the second timer runs behind
\* the first; a group that is still there has received each signal whose time
\* is stored; and a released answer is true now.
Inv ==
  /\ requested \in -1..(2 * Grace) /\ termed \in -1..Grace
  /\ killed \in BOOLEAN /\ group \in BOOLEAN
  /\ reason \in {"none", "terminal", "other"}
  /\ answer \in {Running, Unknown, Cancelled}
  /\ signals \in {<<>>, <<"TERM">>, <<"TERM", "KILL">>}
  /\ termed = -1 => signals = <<>> /\ ~killed
  /\ termed # -1 => requested >= Grace + termed
  /\ ~killed => signals # <<"TERM", "KILL">>
  /\ group /\ termed # -1 => signals # <<>>
  /\ answer = Cancelled => ~group /\ requested # -1

\* The initial state satisfies the invariant.
LEMMA InvInit == Init => Inv
<1> SUFFICES ASSUME Init PROVE Inv
  OBVIOUS
<1>1. requested \in -1..(2 * Grace) /\ termed \in -1..Grace
  BY GraceAssumption DEF Init
<1>2. answer = Running /\ answer # Cancelled
  BY DEF Init, Running, Cancelled
<1> QED BY <1>1, <1>2 DEF Init, Inv

\* Concatenation on the sequences that occur.
LEMMA Appended ==
  /\ <<>> \o <<>> \o <<>> = <<>>
  /\ <<>> \o <<"TERM">> \o <<>> = <<"TERM">>
  /\ <<"TERM">> \o <<>> \o <<>> = <<"TERM">>
  /\ <<"TERM">> \o <<>> \o <<"KILL">> = <<"TERM", "KILL">>
  /\ <<"TERM", "KILL">> \o <<>> \o <<>> = <<"TERM", "KILL">>
<1> DEFINE S == {"TERM", "KILL"}
<1>1. <<>> \in Seq(S) /\ <<"TERM">> \in Seq(S) /\ <<"KILL">> \in Seq(S)
  OBVIOUS
<1>2. <<"TERM", "KILL">> \in Seq(S)
  OBVIOUS
<1> HIDE DEF S
<1>3. \A q \in Seq(S) : q \o <<>> = q /\ <<>> \o q = q
  BY ConcatEmptySeq
<1>4. <<"TERM">> \o <<"KILL">> = <<"TERM", "KILL">>
  <2> DEFINE q == <<"TERM">> \o <<"KILL">>
  <2>1. /\ q \in Seq(S) /\ Len(q) = Len(<<"TERM">>) + Len(<<"KILL">>)
        /\ \A i \in 1..(Len(<<"TERM">>) + Len(<<"KILL">>)) :
             q[i] = IF i <= Len(<<"TERM">>) THEN <<"TERM">>[i] ELSE <<"KILL">>[i - Len(<<"TERM">>)]
    BY <1>1, ConcatProperties
  <2>2. Len(q) = 2 /\ q[1] = "TERM" /\ q[2] = "KILL"
    BY <2>1
  <2>3. \A i \in 1..Len(q) : q[i] = <<"TERM", "KILL">>[i]
    BY <2>2
  <2>4. Len(q) = Len(<<"TERM", "KILL">>)
    BY <2>2
  <2> HIDE DEF q
  <2>5. q = <<"TERM", "KILL">>
    BY <2>1, <2>3, <2>4, <1>2, SeqEqual
  <2> QED BY <2>5 DEF q
<1> QED BY <1>1, <1>2, <1>3, <1>4

\* The three answers are different.
LEMMA AnswersDiffer == Running # Cancelled /\ Unknown # Cancelled
BY DEF Running, Unknown, Cancelled

\* A signal changes the sequence only as KillIsLast allows.
SignalStep(req) ==
  signals' # signals =>
       \/ signals' = <<"TERM">> /\ req >= Grace
       \/ signals' = <<"TERM", "KILL">> /\ termed >= Grace /\ req = 2 * Grace

\* One poll, with the request time and the stop reason it finds.
LEMMA PollKeepsInv ==
  ASSUME Inv, NEW req \in -1..(2 * Grace), NEW why \in {"none", "terminal", "other"},
         req = requested \/ (requested = -1 /\ req = 0),
         Polled(req, why), group' = group, requested' = req, reason' = why
  PROVE  Inv' /\ SignalStep(req)
<1> DEFINE active == req # -1 /\ ~Confirmed(~group, why)
           term == active /\ TermDue(req)
           kill == active /\ KillDue(req)
<1>1. /\ signals' = signals \o Sent(term, "TERM") \o Sent(kill, "KILL")
      /\ termed' = IF term THEN 0 ELSE termed
      /\ killed' = (killed \/ kill)
      /\ answer' = Status(req, ~group, why)
  BY DEF Polled
<1>2. Grace \in Nat \ {0}
  BY GraceAssumption
<1>3. termed # -1 => req = requested
  BY <1>2 DEF Inv
<1>4. term => termed = -1 /\ req >= Grace /\ ~kill /\ signals = <<>> /\ ~killed
  BY DEF TermDue, KillDue, Inv
<1>5. kill => ~killed /\ termed >= Grace /\ req = requested /\ termed # -1
  BY <1>2, <1>3 DEF KillDue, Inv
<1>6. kill => req = 2 * Grace /\ (group => signals = <<"TERM">>)
  BY <1>2, <1>5 DEF Inv
<1>7. \/ signals' = signals /\ ~(term /\ group) /\ ~(kill /\ group)
      \/ term /\ group /\ signals' = <<"TERM">>
      \/ kill /\ group /\ signals' = <<"TERM", "KILL">>
  <2>1. CASE term /\ group
    <3>1. Sent(term, "TERM") = <<"TERM">> /\ Sent(kill, "KILL") = <<>> /\ signals = <<>>
      BY <2>1, <1>4 DEF Sent
    <3> QED BY <3>1, <2>1, <1>1, Appended
  <2>2. CASE kill /\ group
    <3>1. Sent(term, "TERM") = <<>> /\ Sent(kill, "KILL") = <<"KILL">> /\ signals = <<"TERM">>
      BY <2>2, <1>4, <1>6 DEF Sent
    <3> QED BY <3>1, <2>2, <1>1, Appended
  <2>3. CASE ~(term /\ group) /\ ~(kill /\ group)
    <3>1. Sent(term, "TERM") = <<>> /\ Sent(kill, "KILL") = <<>>
      BY <2>3 DEF Sent
    <3>2. signals \in {<<>>, <<"TERM">>, <<"TERM", "KILL">>}
      BY DEF Inv
    <3> QED BY <3>1, <3>2, <2>3, <1>1, Appended
  <2> QED BY <2>1, <2>2, <2>3
<1>8. SignalStep(req)
  BY <1>7, <1>4, <1>5, <1>6 DEF SignalStep
<1>9. Inv'
  <2>1. requested' \in -1..(2 * Grace) /\ termed' \in -1..Grace /\ group' \in BOOLEAN
    BY <1>1, <1>2 DEF Inv
  <2>2. killed' \in BOOLEAN /\ reason' \in {"none", "terminal", "other"}
    BY <1>1 DEF Inv
  <2>3. answer' \in {Running, Unknown, Cancelled}
    BY <1>1 DEF Status
  <2>4. signals' \in {<<>>, <<"TERM">>, <<"TERM", "KILL">>}
    BY <1>7 DEF Inv
  <2>5. termed' = -1 => signals' = <<>> /\ ~killed'
    BY <1>1, <1>2, <1>5, <1>7 DEF Inv
  <2>6. termed' # -1 => requested' >= Grace + termed'
    <3>1. CASE term
      BY <3>1, <1>1, <1>2, <1>4
    <3>2. CASE ~term
      BY <3>2, <1>1, <1>2, <1>3 DEF Inv
    <3> QED BY <3>1, <3>2
  <2>7. ~killed' => signals' # <<"TERM", "KILL">>
    BY <1>1, <1>7 DEF Inv
  <2>8. group' /\ termed' # -1 => signals' # <<>>
    <3>1. CASE term
      BY <3>1, <1>7
    <3>2. CASE ~term
      BY <3>2, <1>1, <1>7 DEF Inv
    <3> QED BY <3>1, <3>2
  <2>9. answer' = Cancelled => ~group' /\ requested' # -1
    BY <1>1, AnswersDiffer DEF Status, Confirmed
  <2> QED BY <2>1, <2>2, <2>3, <2>4, <2>5, <2>6, <2>7, <2>8, <2>9 DEF Inv
<1> QED BY <1>8, <1>9

\* Time passing keeps the second timer behind the first.
LEMMA TickKeepsInv == Inv /\ ClockTick => Inv'
<1> SUFFICES ASSUME Inv, ClockTick PROVE Inv'
  OBVIOUS
<1>1. Grace \in Nat \ {0}
  BY GraceAssumption
<1>2. /\ requested' = Older(requested, 2 * Grace) /\ termed' = Older(termed, Grace)
      /\ UNCHANGED <<killed, reason, signals, group, answer>>
  BY DEF ClockTick
<1>3. requested' \in -1..(2 * Grace) /\ termed' \in -1..Grace
  BY <1>1, <1>2 DEF Inv, Older
<1>4. (termed' = -1 <=> termed = -1) /\ (requested' = -1 <=> requested = -1)
  BY <1>1, <1>2 DEF Inv, Older
<1>5. termed' # -1 => requested' >= Grace + termed'
  BY <1>1, <1>2 DEF Inv, Older
<1> QED BY <1>2, <1>3, <1>4, <1>5 DEF Inv

\* Every step keeps the invariant, and sends signals only as allowed.
LEMMA NextKeepsInv == Inv /\ [Next]_vars => Inv' /\ SignalStep(requested)
<1> SUFFICES ASSUME Inv, [Next]_vars PROVE Inv' /\ SignalStep(requested)
  OBVIOUS
<1>0. Grace \in Nat \ {0}
  BY GraceAssumption
<1>1. CASE Request
  <2> DEFINE req == IF requested = -1 THEN 0 ELSE requested
  <2>1. req \in -1..(2 * Grace) /\ (req = requested \/ (requested = -1 /\ req = 0))
    BY <1>0 DEF Inv
  <2>2. Polled(req, reason) /\ group' = group /\ requested' = req /\ reason' = reason
    BY <1>1 DEF Request
  <2>3. reason \in {"none", "terminal", "other"}
    BY DEF Inv
  <2> HIDE DEF req
  <2>4. Inv' /\ SignalStep(req)
    BY <2>1, <2>2, <2>3, PollKeepsInv
  <2>5. req # requested => ~(req >= Grace) /\ req # 2 * Grace
    BY <2>1, <1>0
  <2> QED BY <2>4, <2>5 DEF SignalStep
<1>2. CASE AdapterStopped
  <2>1. PICK why \in {"terminal", "other"} :
          reason' = why /\ Polled(requested, why) /\ UNCHANGED <<requested, group>>
    BY <1>2 DEF AdapterStopped
  <2>2. requested \in -1..(2 * Grace) /\ why \in {"none", "terminal", "other"}
    BY DEF Inv
  <2> QED BY <2>1, <2>2, PollKeepsInv
<1>3. CASE Poll
  <2>1. requested \in -1..(2 * Grace) /\ reason \in {"none", "terminal", "other"}
    BY DEF Inv
  <2> QED BY <1>3, <2>1, PollKeepsInv DEF Poll
<1>4. CASE RequestRaises
  BY <1>4, <1>0 DEF RequestRaises, Inv, SignalStep
<1>5. CASE PollRaises \/ GroupEnds \/ GroupKilled
  <2>1. group' = FALSE /\ UNCHANGED <<requested, termed, killed, signals, answer>>
    BY <1>5 DEF PollRaises, GroupEnds, GroupKilled
  <2>2. reason' \in {"none", "terminal", "other"}
    BY <1>5 DEF PollRaises, GroupEnds, GroupKilled, Inv
  <2> QED BY <2>1, <2>2 DEF Inv, SignalStep
<1>6. CASE ClockTick
  BY <1>6, TickKeepsInv DEF ClockTick, SignalStep
<1>7. CASE UNCHANGED vars
  BY <1>7 DEF vars, Inv, SignalStep
<1> QED BY <1>1, <1>2, <1>3, <1>4, <1>5, <1>6, <1>7 DEF Next

\* The invariant holds throughout.
LEMMA InvHolds == Spec => []Inv
<1>1. Inv /\ [Next]_vars => Inv'
  BY NextKeepsInv
<1> QED BY <1>1, InvInit, PTL DEF Spec

\* The supervisor's fields, signals and answers stay well typed, for every
\* grace period.
THEOREM SupervisorTyped == Spec => []TypeOK
<1>1. Inv => TypeOK
  <2>1. <<>> \in Seq({"TERM", "KILL"}) /\ <<"TERM">> \in Seq({"TERM", "KILL"})
    OBVIOUS
  <2>2. <<"TERM", "KILL">> \in Seq({"TERM", "KILL"})
    OBVIOUS
  <2>3. Inv => signals \in Seq({"TERM", "KILL"})
    BY <2>1, <2>2 DEF Inv
  <2> QED BY <2>3 DEF Inv, TypeOK
<1> QED BY <1>1, InvHolds, PTL

\* Capacity is released only when the group is gone and was asked to stop.
THEOREM CapacityReleasedSafely == Spec => []ReleaseIsSafe
<1>1. Inv => ReleaseIsSafe
  BY DEF Inv, ReleaseIsSafe, Running, Unknown, Cancelled
<1> QED BY <1>1, InvHolds, PTL

\* SIGTERM, then SIGKILL, once each, every one a full grace period after what
\* it follows.
THEOREM SignalsInOrder == Spec => KillIsLast
<1>1. Inv /\ [Next]_vars =>
        [signals' # signals =>
           \/ signals' = <<"TERM">> /\ requested >= Grace
           \/ /\ signals' = <<"TERM", "KILL">>
              /\ termed >= Grace /\ requested = 2 * Grace]_vars
  BY NextKeepsInv DEF SignalStep
<1> QED BY <1>1, InvHolds, PTL DEF Spec, KillIsLast
=============================================================================
