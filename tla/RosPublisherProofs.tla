------------------------- MODULE RosPublisherProofs -------------------------
(***************************************************************************)
(* Proofs about RosPublisher, for any number of spinner threads, any       *)
(* buffer size and any number of samples.                                  *)
(***************************************************************************)
EXTENDS RosPublisher, SequenceTheorems, TLAPS

\* A new connection has an empty buffer.
LEMMA TypeInit == Init => TypeOK
  <1> SUFFICES ASSUME Init PROVE TypeOK
    OBVIOUS
  <1>1. Capacity \in Nat
    BY SizeAssumption DEF Capacity
  <1>2. <<>> \in Seq(Samples) /\ Len(<<>>) = 0
    BY EmptySeq
  <1>3. Len(buffer) =< Capacity
    BY <1>1, <1>2 DEF Init
  <1>4. written \in 0 .. MaxWrites
    BY WritesAssumption DEF Init
  <1> QED
    BY <1>2, <1>3, <1>4 DEF Init, TypeOK

\* A write keeps the buffer within its capacity, of samples only.
LEMMA WriteType == TypeOK /\ Write => TypeOK'
  <1> SUFFICES ASSUME TypeOK, Write PROVE TypeOK'
    OBVIOUS
  <1>1. written' \in Samples /\ written' \in 0 .. MaxWrites
    BY WritesAssumption DEF TypeOK, Write, Samples
  <1>2. Capacity \in Nat \ {0} /\ Capacity' = Capacity
    BY SizeAssumption DEF Write, Capacity
  <1>3. /\ buffer' \in Seq(Samples) /\ Len(buffer') =< Capacity
        /\ accepted' \in Seq(Samples)
        /\ writer' \in {"idle", "signal", "trigger"}
    <2>1. CASE Len(buffer) < Capacity
      <3>1. /\ buffer' = Append(buffer, written')
            /\ accepted' = Append(accepted, written')
            /\ writer' = "signal"
        BY <2>1, <1>2 DEF TypeOK, Write, Full
      <3>2. /\ Append(buffer, written') \in Seq(Samples)
            /\ Append(accepted, written') \in Seq(Samples)
            /\ Len(Append(buffer, written')) = Len(buffer) + 1
        BY <1>1, AppendProperties DEF TypeOK
      <3> QED
        BY <2>1, <1>2, <3>1, <3>2 DEF TypeOK
    <2>2. CASE Len(buffer) = Capacity /\ policy # "BUFFER"
      <3>1. buffer # <<>>
        BY <2>2, <1>2 DEF TypeOK
      <3>2. Tail(buffer) \in Seq(Samples) /\ Len(Tail(buffer)) = Len(buffer) - 1
        BY <3>1, HeadTailProperties DEF TypeOK
      <3>3. /\ buffer' = Append(Tail(buffer), written')
            /\ accepted' = Append(accepted, written')
            /\ writer' = "signal"
        BY <2>2, <1>2 DEF TypeOK, Write, Full
      <3>4. /\ Append(Tail(buffer), written') \in Seq(Samples)
            /\ Append(accepted, written') \in Seq(Samples)
            /\ Len(Append(Tail(buffer), written')) = Len(buffer)
        BY <1>1, <3>2, AppendProperties DEF TypeOK
      <3> QED
        BY <2>2, <1>2, <3>3, <3>4 DEF TypeOK
    <2>3. CASE Len(buffer) = Capacity /\ policy = "BUFFER"
      BY <2>3, <1>2 DEF TypeOK, Write, Full
    <2> QED
      BY <2>1, <2>2, <2>3, <1>2 DEF TypeOK
  <1> QED
    BY <1>1, <1>2, <1>3 DEF TypeOK, Write, executorVars

\* Every other step keeps the types.
LEMMA TypeStep == TypeOK /\ [Next]_vars => TypeOK'
  <1> SUFFICES ASSUME TypeOK, [Next]_vars PROVE TypeOK'
    OBVIOUS
  <1> USE DEF TypeOK, Capacity, executorVars
  <1>1. CASE WriteUnbuffered
    <2>1. written' \in Samples
      BY <1>1, WritesAssumption DEF WriteUnbuffered, Samples
    <2> QED
      BY <1>1, <2>1, WritesAssumption DEF WriteUnbuffered
  <1>2. CASE Write
    BY <1>2, WriteType
  <1>3. CASE Signal
    BY <1>3 DEF Signal
  <1>4. CASE Trigger
    BY <1>4 DEF Trigger
  <1>5. CASE Remove
    BY <1>5 DEF Remove
  <1>6. CASE Cancel
    BY <1>6 DEF Cancel
  <1>7. ASSUME NEW e \in Spinners, NEW h \in Handlers, Take(e, h)
        PROVE  TypeOK'
    BY <1>7 DEF Take, Goto, GroupPlaces
  <1>8. ASSUME NEW e \in Spinners, Wait(e)
        PROVE  TypeOK'
    BY <1>8 DEF Wait, Goto
  <1>9. ASSUME NEW e \in Spinners, NEW other \in BOOLEAN, EndWait(e, other)
        PROVE  TypeOK'
    BY <1>9 DEF EndWait, Goto
  <1>10. ASSUME NEW e \in Spinners, OtherReturns(e)
         PROVE  TypeOK'
    BY <1>10 DEF OtherReturns, Goto
  <1>11. ASSUME NEW e \in Spinners, Execute(e)
         PROVE  TypeOK'
    BY <1>11 DEF Execute, Finish, Goto, GroupPlaces, LockedPlaces
  <1>12. ASSUME NEW e \in Spinners, Read(e)
         PROVE  TypeOK'
    <2>1. /\ Head(buffer) \in Samples
          /\ Tail(buffer) \in Seq(Samples)
          /\ Len(Tail(buffer)) = Len(buffer) - 1
      BY <1>12, HeadTailProperties DEF Read
    <2>2. Len(buffer') =< Capacity'
      BY <1>12, <2>1, SizeAssumption DEF Read
    <2> QED
      BY <1>12, <2>1, <2>2 DEF Read, Goto, GroupPlaces, LockedPlaces
  <1>13. ASSUME NEW e \in Spinners, Publish(e)
         PROVE  TypeOK'
    BY <1>13 DEF Publish, Goto, GroupPlaces, LockedPlaces
  <1>14. ASSUME NEW e \in Spinners, NoMoreWork(e)
         PROVE  TypeOK'
    BY <1>14 DEF NoMoreWork, Finish, Goto
  <1>15. ASSUME NEW e \in Spinners, NoLoan(e)
         PROVE  TypeOK'
    BY <1>15 DEF NoLoan, Goto, GroupPlaces, LockedPlaces
  <1>16. ASSUME NEW e \in Spinners, Retrigger(e)
         PROVE  TypeOK'
    BY <1>16 DEF Retrigger, Goto, GroupPlaces, LockedPlaces
  <1>17. ASSUME NEW e \in Spinners, RetriggerGuard(e)
         PROVE  TypeOK'
    BY <1>17 DEF RetriggerGuard, Finish, Goto
  <1>18. CASE UNCHANGED vars
    BY <1>18 DEF vars
  <1> QED
    BY <1>1, <1>2, <1>3, <1>4, <1>5, <1>6, <1>7, <1>8, <1>9, <1>10, <1>11,
       <1>12, <1>13, <1>14, <1>15, <1>16, <1>17, <1>18
       DEF Next, Writer, Destructor, Spin, Wake, WakeByOther

\* The buffer stays within its bound and every variable within its type,
\* whatever writer, spinners and destructor do.
THEOREM TypeCorrect == Spec => []TypeOK
  BY TypeInit, TypeStep, PTL DEF Spec

-----------------------------------------------------------------------------
\* The control part of the invariant.
Control ==
    /\ OneInGroup
    /\ FuncUntilCancel
    /\ InflightIsRead
    /\ UnbufferedIsEmpty
    /\ NoForgottenSample

\* Threads, flag and execute_mutex_ stay in step with the samples.
LEMMA ControlStep == TypeOK /\ Control /\ [Next]_vars => Control'
  <1> SUFFICES ASSUME TypeOK, Control, [Next]_vars PROVE Control'
    OBVIOUS
  <1> USE DEF Control, OneInGroup, FuncUntilCancel, InflightIsRead,
              UnbufferedIsEmpty, NoForgottenSample, executorVars, GroupPlaces,
              LockedPlaces
  <1>0. exec \in [Spinners -> {"idle", "waiting"} \cup GroupPlaces]
    BY DEF TypeOK
  <1>1. CASE WriteUnbuffered
    BY <1>0, <1>1 DEF WriteUnbuffered
  <1>2. CASE Write
    BY <1>0, <1>2 DEF Write
  <1>3. CASE Signal
    BY <1>0, <1>3 DEF Signal
  <1>4. CASE Trigger
    BY <1>0, <1>4 DEF Trigger
  <1>5. CASE Remove
    BY <1>0, <1>5 DEF Remove
  <1>6. CASE Cancel
    BY <1>0, <1>6 DEF Cancel, Locked
  <1>7. ASSUME NEW e \in Spinners, NEW h \in Handlers, Take(e, h)
        PROVE  Control'
    BY <1>0, <1>7 DEF Take, Goto, GroupBusy
  <1>8. ASSUME NEW e \in Spinners, Wait(e)
        PROVE  Control'
    BY <1>0, <1>8 DEF Wait, Goto
  <1>9. ASSUME NEW e \in Spinners, NEW other \in BOOLEAN, EndWait(e, other)
        PROVE  Control'
    BY <1>0, <1>9 DEF EndWait, Goto
  <1>10. ASSUME NEW e \in Spinners, OtherReturns(e)
        PROVE  Control'
    BY <1>0, <1>10 DEF OtherReturns, Goto
  <1>11. ASSUME NEW e \in Spinners, Execute(e)
        PROVE  Control'
    BY <1>0, <1>11 DEF Execute, Goto, Locked, Finish
  <1>12. ASSUME NEW e \in Spinners, Read(e)
        PROVE  Control'
    BY <1>0, <1>12 DEF Read, Goto
  <1>13. ASSUME NEW e \in Spinners, Publish(e)
        PROVE  Control'
    BY <1>0, <1>13 DEF Publish, Goto
  <1>14. ASSUME NEW e \in Spinners, NoMoreWork(e)
        PROVE  Control'
    BY <1>0, <1>14 DEF NoMoreWork, Goto, Finish
  <1>15. ASSUME NEW e \in Spinners, NoLoan(e)
        PROVE  Control'
    BY <1>0, <1>15 DEF NoLoan, Goto
  <1>16. ASSUME NEW e \in Spinners, Retrigger(e)
        PROVE  Control'
    BY <1>0, <1>16 DEF Retrigger, Goto
  <1>17. ASSUME NEW e \in Spinners, RetriggerGuard(e)
        PROVE  Control'
    BY <1>0, <1>17 DEF RetriggerGuard, Goto, Finish
  <1>18. CASE UNCHANGED vars
    BY <1>18 DEF vars
  <1> QED
    BY <1>1, <1>2, <1>3, <1>4, <1>5, <1>6, <1>7, <1>8, <1>9, <1>10, <1>11,
       <1>12, <1>13, <1>14, <1>15, <1>16, <1>17, <1>18
       DEF Next, Writer, Destructor, Spin, Wake, WakeByOther

-----------------------------------------------------------------------------
(* Samples are natural numbers, so their order makes sense.                *)

\* A sequence of samples that ends in a new one.
LEMMA AppendNewest ==
    ASSUME NEW s \in Seq(Samples), NEW w \in Nat, w + 1 \in Samples,
           Increasing(s), \A i \in 1 .. Len(s) : s[i] =< w
    PROVE  LET t == Append(s, w + 1)
           IN  /\ Increasing(t)
               /\ \A i \in 1 .. Len(t) : t[i] =< w + 1
               /\ t # <<>> /\ t[Len(t)] = w + 1
  <1> DEFINE t == Append(s, w + 1)
  <1>1. /\ t \in Seq(Samples) /\ t # <<>> /\ Len(t) = Len(s) + 1
        /\ \A i \in 1 .. Len(s) : t[i] = s[i]
        /\ t[Len(s) + 1] = w + 1
    BY AppendProperties
  <1>2. Len(s) \in Nat /\ \A i \in 1 .. Len(s) : s[i] \in Nat
    BY ElementOfSeq, LenProperties, WritesAssumption DEF Samples
  <1> HIDE DEF t
  <1>3. \A i \in 1 .. Len(t) : i \in 1 .. Len(s) \/ i = Len(s) + 1
    BY <1>1, <1>2
  <1>4. \A i \in 1 .. Len(t) : t[i] =< w + 1
    BY <1>1, <1>2, <1>3
  <1>5. Increasing(t)
    BY <1>1, <1>2, <1>3 DEF Increasing
  <1> QED
    BY <1>1, <1>4, <1>5 DEF t

\* A sequence of samples without one of them.
LEMMA DropOldest ==
    ASSUME NEW p \in Seq(Samples), NEW b \in Seq(Samples), b # <<>>,
           NEW w \in Nat, Increasing(p \o b),
           \A i \in 1 .. Len(p \o b) : (p \o b)[i] =< w
    PROVE  LET t == p \o Tail(b)
           IN  Increasing(t) /\ \A i \in 1 .. Len(t) : t[i] =< w
  <1> DEFINE s == p \o b
             t == p \o Tail(b)
  <1>1. /\ Tail(b) \in Seq(Samples) /\ Len(Tail(b)) = Len(b) - 1
        /\ \A i \in 1 .. Len(Tail(b)) : Tail(b)[i] = b[i + 1]
    BY HeadTailProperties
  <1>2. Len(p) \in Nat /\ Len(b) \in Nat \ {0}
    BY LenProperties, EmptySeq
  <1>3. /\ Len(s) = Len(p) + Len(b)
        /\ \A i \in 1 .. Len(p) + Len(b) :
              s[i] = IF i <= Len(p) THEN p[i] ELSE b[i - Len(p)]
    BY ConcatProperties
  <1>4. /\ Len(t) = Len(p) + Len(Tail(b))
        /\ \A i \in 1 .. Len(p) + Len(Tail(b)) :
              t[i] = IF i <= Len(p) THEN p[i] ELSE Tail(b)[i - Len(p)]
    BY <1>1, ConcatProperties
  <1> HIDE DEF s, t
  <1>5. \A i \in 1 .. Len(t) :
          t[i] = IF i <= Len(p) THEN s[i] ELSE s[i + 1]
    <2> SUFFICES ASSUME NEW i \in 1 .. Len(t)
                 PROVE  t[i] = IF i <= Len(p) THEN s[i] ELSE s[i + 1]
      OBVIOUS
    <2>1. CASE i <= Len(p)
      <3>1. /\ i \in 1 .. Len(p) + Len(Tail(b))
            /\ i \in 1 .. Len(p) + Len(b)
        BY <2>1, <1>1, <1>2, <1>4
      <3>2. t[i] = p[i]
        BY <2>1, <3>1, <1>4
      <3>3. s[i] = p[i]
        BY <2>1, <3>1, <1>3
      <3> QED
        BY <2>1, <3>2, <3>3
    <2>2. CASE ~(i <= Len(p))
      <3>1. i - Len(p) \in 1 .. Len(Tail(b)) /\ i + 1 \in 1 .. Len(p) + Len(b)
        BY <2>2, <1>1, <1>2, <1>4
      <3>2. t[i] = Tail(b)[i - Len(p)]
        BY <2>2, <1>1, <1>2, <1>4
      <3>3. Tail(b)[i - Len(p)] = b[(i - Len(p)) + 1]
        BY <3>1, <1>1
      <3>4. s[i + 1] = b[(i + 1) - Len(p)]
        BY <3>1, <2>2, <1>2, <1>3
      <3>5. (i - Len(p)) + 1 = (i + 1) - Len(p)
        BY <1>2
      <3> QED
        BY <2>2, <3>2, <3>3, <3>4, <3>5
    <2> QED
      BY <2>1, <2>2
  <1>6. Len(t) = Len(s) - 1 /\ Len(s) \in Nat
    BY <1>1, <1>2, <1>3, <1>4
  <1>7. Increasing(s) /\ \A i \in 1 .. Len(s) : s[i] =< w
    BY DEF s
  <1>8. \A i \in 1 .. Len(t) : t[i] =< w
    <2> SUFFICES ASSUME NEW i \in 1 .. Len(t) PROVE t[i] =< w
      OBVIOUS
    <2> DEFINE k == IF i <= Len(p) THEN i ELSE i + 1
    <2>1. k \in 1 .. Len(s)
      BY <1>2, <1>6
    <2>2. t[i] = s[k]
      BY <1>5
    <2> HIDE DEF k
    <2> QED
      BY <1>7, <2>1, <2>2
  <1>9. Increasing(t)
    <2> SUFFICES ASSUME NEW i \in 1 .. Len(t), NEW j \in 1 .. Len(t), i < j
                 PROVE  t[i] < t[j]
      BY DEF Increasing
    <2> DEFINE at(k) == IF k <= Len(p) THEN k ELSE k + 1
    <2>1. at(i) \in 1 .. Len(s) /\ at(j) \in 1 .. Len(s) /\ at(i) < at(j)
      BY <1>2, <1>6
    <2>2. t[i] = s[at(i)] /\ t[j] = s[at(j)]
      BY <1>5
    <2> HIDE DEF at
    <2> QED
      BY <1>7, <2>1, <2>2 DEF Increasing
  <1> QED
    BY <1>8, <1>9 DEF t

\* The last of a concatenation, and a sample appended to its second part.
LEMMA ConcatAppend ==
    ASSUME NEW s \in Seq(Samples), NEW t \in Seq(Samples), NEW x \in Samples
    PROVE  s \o Append(t, x) = Append(s \o t, x)
  <1>1. <<x>> \in Seq(Samples)
    OBVIOUS
  <1>2. s \o t \in Seq(Samples)
    BY ConcatProperties
  <1>3. Append(t, x) = t \o <<x>> /\ Append(s \o t, x) = (s \o t) \o <<x>>
    BY <1>2, AppendIsConcat
  <1> QED
    BY <1>1, <1>3, ConcatAssociative

\* What a step does to the samples: nothing that can be seen, or it adds the
\* sample just written, possibly in exchange for the oldest in the buffer.
FlowUnchanged ==
    Flow' = Flow /\ accepted' = accepted /\ written' \in {written, written + 1}

FlowAppended ==
    /\ written' = written + 1
    /\ accepted' = Append(accepted, written')
    /\ \/ Flow' = Append(Flow, written')
       \/ /\ policy \notin {"BUFFER", "UNBUFFERED"}
          /\ buffer # <<>>
          /\ Flow' = Append((published \o inflight) \o Tail(buffer), written')

LEMMA FlowStep ==
    ASSUME TypeOK, Control, [Next]_vars
    PROVE  policy' = policy /\ (FlowUnchanged \/ FlowAppended)
  <1> USE DEF executorVars
  <1>0. /\ published \in Seq(Samples) /\ inflight \in Seq(Samples)
        /\ buffer \in Seq(Samples) /\ published \o inflight \in Seq(Samples)
    BY ConcatProperties DEF TypeOK
  <1>1. ASSUME UNCHANGED <<policy, written, accepted, buffer, inflight, published>>
        PROVE  policy' = policy /\ FlowUnchanged
    BY <1>1 DEF Flow, FlowUnchanged
  <1>2. CASE WriteUnbuffered
    <2>1. written' \in Samples /\ written' = written + 1
      BY <1>2, WritesAssumption DEF WriteUnbuffered, Samples, TypeOK
    <2>2. /\ buffer = <<>> /\ inflight = <<>>
          /\ buffer' = <<>> /\ inflight' = <<>>
      BY <1>2 DEF WriteUnbuffered, Control, UnbufferedIsEmpty
    <2>3. published' = Append(published, written') /\ published' \in Seq(Samples)
      BY <1>2, <2>1, AppendProperties, <1>0 DEF WriteUnbuffered
    <2>4. (published \o <<>>) \o <<>> = published
      BY <1>0, ConcatEmptySeq
    <2>5. (published' \o <<>>) \o <<>> = published'
      BY <2>3, ConcatEmptySeq
    <2>6. Flow = published /\ Flow' = published'
      BY <2>2, <2>4, <2>5 DEF Flow
    <2> QED
      BY <1>2, <2>1, <2>3, <2>6 DEF WriteUnbuffered, FlowAppended
  <1>3. CASE Write
    <2>1. written' \in Samples /\ written' = written + 1
      BY <1>3, WritesAssumption DEF Write, Samples, TypeOK
    <2>2. CASE Len(buffer) < Capacity
      <3>1. buffer' = Append(buffer, written') /\ accepted' = Append(accepted, written')
        BY <1>3, <2>2, <1>0, LenProperties, SizeAssumption DEF Write, Capacity, Full
      <3>2. Flow' = Append(Flow, written')
        BY <1>0, <1>3, <2>1, <3>1, ConcatAppend DEF Flow, Write
      <3> QED
        BY <1>3, <2>1, <3>1, <3>2 DEF Write, FlowAppended
    <2>3. CASE Len(buffer) = Capacity /\ policy # "BUFFER"
      <3>1. buffer # <<>>
        BY <2>3, SizeAssumption DEF Capacity
      <3>2. /\ buffer' = Append(Tail(buffer), written')
            /\ accepted' = Append(accepted, written')
        BY <1>3, <2>3, <1>0, LenProperties, SizeAssumption DEF Write, Capacity, Full
      <3>3. Tail(buffer) \in Seq(Samples)
        BY <3>1, <1>0, HeadTailProperties
      <3>4. Flow' = Append((published \o inflight) \o Tail(buffer), written')
        BY <1>0, <1>3, <2>1, <3>2, <3>3, ConcatAppend DEF Flow, Write
      <3> QED
        BY <1>3, <2>1, <2>3, <3>1, <3>2, <3>4 DEF Write, FlowAppended
    <2>4. CASE Len(buffer) = Capacity /\ policy = "BUFFER"
      <3>1. buffer' = buffer /\ accepted' = accepted
        BY <1>3, <2>4, <1>0, LenProperties, SizeAssumption DEF Write, Capacity, Full
      <3> QED
        BY <1>3, <2>1, <3>1 DEF Write, Flow, FlowUnchanged
    <2>5. Len(buffer) < Capacity \/ Len(buffer) = Capacity
      <3>1. Capacity \in Nat
        BY SizeAssumption DEF Capacity
      <3> QED
        BY <3>1 DEF TypeOK
    <2> QED
      BY <2>2, <2>3, <2>4, <2>5
  <1>4. ASSUME NEW e \in Spinners, Read(e)
        PROVE  policy' = policy /\ FlowUnchanged
    <2>1. inflight = <<>>
      BY <1>4 DEF Read, Control, InflightIsRead, OneInGroup, GroupPlaces, LockedPlaces
    <2>2. /\ Tail(buffer) \in Seq(Samples) /\ <<Head(buffer)>> \in Seq(Samples)
          /\ buffer = <<Head(buffer)>> \o Tail(buffer)
      BY <1>4, <1>0, HeadTailProperties DEF Read
    <2>3. published \o <<>> = published
      BY <1>0, ConcatEmptySeq
    <2>4. (published \o <<Head(buffer)>>) \o Tail(buffer)
            = published \o (<<Head(buffer)>> \o Tail(buffer))
      BY <1>0, <2>2, ConcatAssociative
    <2>5. Flow' = Flow
      BY <1>4, <2>1, <2>2, <2>3, <2>4 DEF Flow, Read
    <2> QED
      BY <1>4, <2>5 DEF Read, FlowUnchanged
  <1>5. ASSUME NEW e \in Spinners, Publish(e)
        PROVE  policy' = policy /\ FlowUnchanged
    <2>1. (published \o inflight) \o <<>> = published \o inflight
      BY <1>0, ConcatEmptySeq
    <2> QED
      BY <1>5, <2>1 DEF Publish, Flow, FlowUnchanged
  <1> QED
    BY <1>1, <1>2, <1>3, <1>4, <1>5
       DEF Next, Writer, Destructor, Spin, Wake, WakeByOther, vars, Signal,
           Trigger, Remove, Cancel, Take, Wait, EndWait, OtherReturns, Execute,
           NoMoreWork, NoLoan, Retrigger, RetriggerGuard

-----------------------------------------------------------------------------
(* The theorems.                                                           *)

\* The data part of the invariant.
Data == FlowBelow /\ InOrder /\ AcceptedIsKept

LEMMA DataStep == TypeOK /\ Control /\ Data /\ [Next]_vars => Data'
  <1> SUFFICES ASSUME TypeOK, Control, Data, [Next]_vars PROVE Data'
    OBVIOUS
  <1>0. /\ published \o inflight \in Seq(Samples)
        /\ buffer \in Seq(Samples) /\ Flow \in Seq(Samples)
        /\ accepted \in Seq(Samples) /\ written \in Nat
    BY ConcatProperties, WritesAssumption DEF TypeOK, Flow
  <1>1. policy' = policy /\ (FlowUnchanged \/ FlowAppended)
    BY FlowStep
  <1>2. CASE FlowUnchanged
    <2>1. \A i \in 1 .. Len(Flow) : Flow[i] \in Nat
      <3>1. \A i \in 1 .. Len(Flow) : Flow[i] \in Samples
        BY <1>0, ElementOfSeq
      <3> QED
        BY <3>1, WritesAssumption DEF Samples
    <2>2. FlowBelow'
      BY <1>0, <1>2, <2>1 DEF Data, FlowBelow, FlowUnchanged
    <2> QED
      BY <1>1, <1>2, <2>2 DEF Data, InOrder, AcceptedIsKept, FlowUnchanged
  <1>3. CASE FlowAppended
    <2>1. written + 1 \in Samples
      <3>1. TypeOK'
        BY TypeStep
      <3> QED
        BY <1>0, <1>3, <3>1, WritesAssumption DEF FlowAppended, TypeOK, Samples
    <2>2. /\ accepted' # <<>> /\ accepted'[Len(accepted')] = written + 1
      BY <1>0, <1>3, <2>1, AppendProperties DEF FlowAppended
    <2>3. PICK s \in Seq(Samples) :
            /\ Flow' = Append(s, written + 1)
            /\ Increasing(s) /\ \A i \in 1 .. Len(s) : s[i] =< written
            /\ s = Flow \/ policy \notin {"BUFFER", "UNBUFFERED"}
      <3>1. CASE Flow' = Append(Flow, written')
        BY <1>0, <1>3, <3>1 DEF Data, FlowBelow, InOrder, FlowAppended
      <3>2. CASE /\ policy \notin {"BUFFER", "UNBUFFERED"}
                 /\ buffer # <<>>
                 /\ Flow' = Append((published \o inflight) \o Tail(buffer), written')
        <4> DEFINE s == (published \o inflight) \o Tail(buffer)
        <4>1. Tail(buffer) \in Seq(Samples)
          BY <1>0, <3>2, HeadTailProperties
        <4>2. s \in Seq(Samples)
          BY <1>0, <4>1, ConcatProperties
        <4>3. Increasing(s) /\ \A i \in 1 .. Len(s) : s[i] =< written
          BY <1>0, <3>2, DropOldest DEF Data, FlowBelow, InOrder, Flow
        <4> QED
          BY <1>3, <3>2, <4>2, <4>3 DEF FlowAppended
      <3> QED
        BY <1>3, <3>1, <3>2 DEF FlowAppended
    <2>4. /\ Increasing(Flow')
          /\ \A i \in 1 .. Len(Flow') : Flow'[i] =< written + 1
          /\ Flow' # <<>> /\ Flow'[Len(Flow')] = written + 1
      BY <1>0, <2>1, <2>3, AppendNewest
    <2>5. FlowBelow' /\ InOrder'
      <3>1. FlowBelow'
        BY <1>3, <2>4 DEF FlowBelow, FlowAppended
      <3>2. InOrder'
        BY <2>4 DEF InOrder
      <3> QED
        BY <3>1, <3>2
    <2>6. AcceptedIsKept'
      BY <1>1, <1>3, <2>2, <2>3, <2>4 DEF Data, AcceptedIsKept, FlowAppended
    <2> QED
      BY <2>5, <2>6 DEF Data
  <1> QED
    BY <1>1, <1>2, <1>3

\* The invariant holds of a new connection.
LEMMA InvInit == Init => TypeOK /\ Control /\ Data
  <1> SUFFICES ASSUME Init PROVE Control /\ Data
    BY TypeInit
  <1>1. Flow = <<>> /\ Len(<<>>) = 0
    BY EmptySeq, ConcatEmptySeq DEF Init, Flow
  <1>2. Control
    BY DEF Init, Control, OneInGroup, FuncUntilCancel, InflightIsRead,
           UnbufferedIsEmpty, NoForgottenSample, GroupPlaces, LockedPlaces
  <1>3. Data
    BY <1>1 DEF Init, Data, FlowBelow, InOrder, Increasing, AcceptedIsKept
  <1> QED
    BY <1>2, <1>3

\* All of IInv holds in every reachable state.
LEMMA Invariant == Spec => []IInv
  <1>1. TypeOK /\ Control /\ Data => IInv
    BY DEF Control, Data, IInv, FuncUntilCancel, NoFuncAfterCancel, FuncPlaces,
           LockedPlaces
  <1>2. TypeOK /\ Control /\ Data /\ [Next]_vars => (TypeOK /\ Control /\ Data)'
    BY TypeStep, ControlStep, DataStep
  <1> QED
    BY <1>1, <1>2, InvInit, PTL DEF Spec

\* has_work_ is cleared before the buffer is read and set after it is
\* written, so no interleaving leaves a sample behind unannounced.
THEOREM NoSampleForgotten == Spec => []NoForgottenSample
  <1>1. IInv => NoForgottenSample
    BY DEF IInv
  <1> QED
    BY <1>1, Invariant, PTL

\* Samples leave in the order write() took them and none of them twice.
THEOREM OrderKept == Spec => []InOrder
  <1>1. IInv => InOrder
    BY DEF IInv
  <1> QED
    BY <1>1, Invariant, PTL

\* What write() accepted is published, read or buffered: all of it by BUFFER
\* and UNBUFFERED connections, the newest sample by the others.
THEOREM NothingAcceptedIsLost == Spec => []AcceptedIsKept
  <1>1. IInv => AcceptedIsKept
    BY DEF IInv
  <1> QED
    BY <1>1, Invariant, PTL

\* waitable.hpp:85: no call of func_() runs once cancel() returned.
THEOREM CancelIsFinal == Spec => []NoFuncAfterCancel
  <1>1. IInv => NoFuncAfterCancel
    BY DEF IInv
  <1> QED
    BY <1>1, Invariant, PTL

=============================================================================
