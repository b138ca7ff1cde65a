--------------------------- MODULE RosTopicProofs ---------------------------
(***************************************************************************)
(* LatestArrives for buffers of any size and any number of samples and     *)
(* streams.  The argument follows the last sample: it is the last one of   *)
(* the queue, or the one the executor has taken, or the one that was       *)
(* written to the port (LatestIsUnderway).  A latched stream finds it at   *)
(* the end of what the middleware retains (RetainedEndsWithLatest).        *)
(***************************************************************************)
EXTENDS RosTopic, SequenceTheorems, TLAPS

Samples == Nat \ {0}
End(s) == s[Len(s)]
Made(s) == s.made \notin NotMade

-----------------------------------------------------------------------------
(* The inductive invariant.                                                *)

PolicyOK(p, types) == p.size \in Nat /\ p.init \in BOOLEAN /\ p.type \in types

TopicTypeOK ==
    /\ Made(sender) => PolicyOK(sender.policy, {"DATA", "BUFFER", "UNBUFFERED"})
    /\ Made(receiver) => PolicyOK(receiver.policy, {"DATA", "BUFFER"})
    /\ retained \in Seq(Samples)
    /\ queue \in Seq(Samples)
    /\ taken \in Nat
    /\ published \in Nat
    /\ joined \in Nat
    /\ handed \in Nat
    /\ orphan \in {"none", "gone", "used"}

\* Only a stream publishes, and only a subscription is delivered to, until a
\* sample outlives its element.
NothingFromNothing ==
    /\ ~Made(sender) => published = 0
    /\ orphan # "none" => taken # 0
    /\ ~Made(receiver) /\ orphan = "none" => taken = 0 /\ queue = <<>>

RetainedEndsWithLatest ==
    Made(sender) /\ sender.policy.init /\ published > 0 =>
        retained # <<>> /\ End(retained) = published

\* The last sample of the receiver's time is on its way to the port or there.
LatestIsUnderway ==
    /\ orphan = "none" /\ Matches(sender, receiver)
    /\ published > IF receiver.policy.init THEN 0 ELSE joined
    => CASE queue # <<>>             -> End(queue) = published
         [] queue = <<>> /\ taken # 0 -> taken = published
         [] queue = <<>> /\ taken = 0 ->
              /\ handed = published
              /\ receiver.policy.type = "DATA" => port = <<published>>

TopicInv ==
    /\ TopicTypeOK
    /\ NothingFromNothing
    /\ RetainedEndsWithLatest
    /\ LatestIsUnderway

-----------------------------------------------------------------------------
(* Queues of the middleware.                                               *)

\* A sample put at the end of a queue is its last.
LEMMA EndOfAppend ==
    ASSUME NEW s \in Seq(Samples), NEW e \in Samples
    PROVE  /\ Append(s, e) \in Seq(Samples)
           /\ Append(s, e) # <<>>
           /\ End(Append(s, e)) = e
BY DEF End

\* A queue that is cut to its depth keeps its last sample.
LEMMA EndOfKeepLast ==
    ASSUME NEW s \in Seq(Samples), s # <<>>, NEW depth \in Nat \ {0}
    PROVE  /\ KeepLast(s, depth) \in Seq(Samples)
           /\ KeepLast(s, depth) # <<>>
           /\ End(KeepLast(s, depth)) = End(s)
<1>. DEFINE n == Len(s)
            m == IF n > depth THEN n - depth + 1 ELSE 1
<1>1. n \in Nat \ {0}
  OBVIOUS
<1>2. m \in 1 .. n
  BY <1>1
<1>. HIDE DEF m, n
<1>3. /\ SubSeq(s, m, n) \in Seq(Samples)
      /\ Len(SubSeq(s, m, n)) = n - m + 1
      /\ \A i \in 1 .. n - m + 1 : SubSeq(s, m, n)[i] = s[m + i - 1]
  <2>1. m \in 1 .. Len(s) + 1 /\ n \in m - 1 .. Len(s)
    BY <1>1, <1>2 DEF n
  <2>2. m <= n
    BY <1>1, <1>2
  <2>. QED BY <2>1, <2>2, <1>1, <1>2, SubSeqProperties
<1>4. n - m + 1 \in 1 .. n - m + 1 /\ m + (n - m + 1) - 1 = n /\ n - m + 1 > 0
  BY <1>1, <1>2
<1>5. End(SubSeq(s, m, n)) = s[n]
  BY <1>3, <1>4 DEF End
<1>6. SubSeq(s, m, n) # <<>>
  BY <1>3, <1>4
<1>. QED BY <1>3, <1>5, <1>6 DEF KeepLast, End, m, n

\* Taking the head leaves the last sample, unless it was the only one.
LEMMA EndOfTail ==
    ASSUME NEW s \in Seq(Samples), s # <<>>
    PROVE  /\ Tail(s) \in Seq(Samples) /\ Head(s) \in Samples
           /\ Tail(s) # <<>> => End(Tail(s)) = End(s)
           /\ Tail(s) = <<>> => Head(s) = End(s)
<1>1. /\ Len(s) \in Nat \ {0} /\ Head(s) = s[1] /\ Head(s) \in Samples
      /\ Tail(s) \in Seq(Samples) /\ Len(Tail(s)) = Len(s) - 1
      /\ \A i \in 1 .. Len(s) - 1 : Tail(s)[i] = s[i + 1]
  OBVIOUS
<1>2. CASE Len(s) = 1
  <2>1. Len(Tail(s)) = 0
    BY <1>1, <1>2
  <2>2. Tail(s) = <<>>
    BY <2>1, <1>1
  <2>. QED BY <1>1, <1>2, <2>2 DEF End
<1>3. CASE Len(s) # 1
  <2>1. Len(s) - 1 \in 1 .. Len(s) - 1 /\ (Len(s) - 1) + 1 = Len(s)
    BY <1>1, <1>3
  <2>2. Len(Tail(s)) # 0
    BY <2>1, <1>1
  <2>3. Tail(s) # <<>>
    BY <2>2, <1>1, EmptySeq
  <2>. QED BY <1>1, <2>1, <2>3 DEF End
<1>. QED BY <1>2, <1>3

-----------------------------------------------------------------------------
(* Streams.                                                                *)

\* The policies have sizes, a flag and a type.
LEMMA InputPolicyOK ==
    ASSUME NEW p \in InputPolicies
    PROVE  PolicyOK(p, {"DATA", "BUFFER"})
<1>1. ASSUME NEW q \in PushedPolicies
      PROVE  /\ PolicyOK(q, {"DATA", "BUFFER"})
             /\ PolicyOK([q EXCEPT !.pull = TRUE], {"DATA", "BUFFER"})
  <2>0. \/ \E n \in TopicNames : q = topic(n, FALSE)
        \/ \E n \in TopicNames : q = topicLatched(n)
        \/ \E n \in TopicNames, s \in 1..MaxSize, l \in BOOLEAN : q = topicBuffered(n, s, l)
    <3>. DEFINE Plain    == {topic(n, FALSE) : n \in TopicNames}
                Latched  == {topicLatched(n) : n \in TopicNames}
                Buffered == {topicBuffered(n, s, l) :
                               n \in TopicNames, s \in 1..MaxSize, l \in BOOLEAN}
    <3>1. q \in Buffered =>
            \E n \in TopicNames, s \in 1..MaxSize, l \in BOOLEAN :
              q = topicBuffered(n, s, l)
      OBVIOUS
    <3>2. q \in Plain => \E n \in TopicNames : q = topic(n, FALSE)
      OBVIOUS
    <3>3. q \in Latched => \E n \in TopicNames : q = topicLatched(n)
      OBVIOUS
    <3>4. PushedPolicies = Plain \cup Latched \cup Buffered
      BY DEF PushedPolicies
    <3>. HIDE DEF Plain, Latched, Buffered
    <3>. QED BY <3>1, <3>2, <3>3, <3>4, Zenon
  <2>1. CASE \E n \in TopicNames : q = topic(n, FALSE)
    BY <2>1 DEF PolicyOK, topic, ConnPolicy
  <2>2. CASE \E n \in TopicNames : q = topicLatched(n)
    BY <2>2 DEF PolicyOK, topicLatched, topic, ConnPolicy
  <2>3. CASE \E n \in TopicNames, s \in 1..MaxSize, l \in BOOLEAN : q = topicBuffered(n, s, l)
    BY <2>3, TopicBounds DEF PolicyOK, topicBuffered, ConnPolicy
  <2>. QED BY <2>0, <2>1, <2>2, <2>3, Zenon
<1>2. p \in PushedPolicies \/ \E q \in PushedPolicies : p = [q EXCEPT !.pull = TRUE]
  BY Zenon DEF InputPolicies
<1>. QED BY <1>1, <1>2, Zenon

LEMMA OutputPolicyOK ==
    ASSUME NEW p \in OutputPolicies
    PROVE  PolicyOK(p, {"DATA", "BUFFER", "UNBUFFERED"})
<1>1. CASE p \in InputPolicies
  BY <1>1, InputPolicyOK DEF PolicyOK
<1>2. CASE \E n \in TopicNames, s \in 1..MaxSize, l \in BOOLEAN : p = topicDirect(n, s, l)
  BY <1>2, TopicBounds DEF PolicyOK, topicDirect, topicBuffered, ConnPolicy
<1>. QED BY <1>1, <1>2 DEF OutputPolicies

\* A stream that is made has the policy it was made with.
LEMMA StreamPolicy ==
    ASSUME NEW name, NEW hasNode \in BOOLEAN, NEW policy, NEW is_sender \in BOOLEAN,
           Made(createStream(name, hasNode, policy, is_sender))
    PROVE  createStream(name, hasNode, policy, is_sender).policy = policy
<1>. DEFINE t == find_topic(name, policy)
            r == createStream(name, hasNode, policy, is_sender)
<1>1. CASE policy.pull \/ ~hasNode
  BY <1>1 DEF createStream, Made, NotMade
<1>2. CASE ~(policy.pull \/ ~hasNode) /\ t = ""
  BY <1>2 DEF createStream, Made, NotMade
<1>3. CASE ~(policy.pull \/ ~hasNode) /\ t # ""
  BY <1>3 DEF createStream
<1>. QED BY <1>1, <1>2, <1>3

\* The depth of a queue is at least one.
LEMMA DepthPositive ==
    ASSUME NEW p, p.size \in Nat
    PROVE  Qos(p).depth \in Nat \ {0} /\ Qos(p).transient_local = p.init
BY DEF Qos

-----------------------------------------------------------------------------
(* Steps.                                                                  *)

LEMMA TopicInvInit == TopicInit => TopicInv
<1>. SUFFICES ASSUME TopicInit PROVE TopicInv
  OBVIOUS
<1>1. ~Made(sender) /\ ~Made(receiver)
  BY DEF TopicInit, Made, NotMade, NoStream
<1>2. TopicTypeOK
  BY <1>1 DEF TopicInit, TopicTypeOK
<1>3. NothingFromNothing
  BY <1>1 DEF TopicInit, NothingFromNothing
<1>4. RetainedEndsWithLatest /\ LatestIsUnderway
  BY <1>1 DEF RetainedEndsWithLatest, LatestIsUnderway, Matches, Made
<1>. QED BY <1>2, <1>3, <1>4 DEF TopicInv

LEMMA CreateSenderStep == TopicInv /\ CreateSender => TopicInv'
<1>. SUFFICES ASSUME TopicInv, CreateSender PROVE TopicInv'
  OBVIOUS
<1>. USE DEF TopicInv
<1>1. ~Made(sender) /\ published = 0
  BY DEF CreateSender, Made, NothingFromNothing
<1>2. UNCHANGED <<receiver, retained, queue, taken, orphan, port, handed, joined, published>>
  BY DEF CreateSender
<1>3. Made(sender') => PolicyOK(sender'.policy, {"DATA", "BUFFER", "UNBUFFERED"})
  <2>1. PICK name \in PortNames, hasNode \in BOOLEAN, policy \in OutputPolicies :
          sender' = createStream(name, hasNode, policy, TRUE)
    BY DEF CreateSender
  <2>. QED BY <2>1, StreamPolicy, OutputPolicyOK
<1>4. TopicTypeOK'
  BY <1>2, <1>3 DEF TopicTypeOK, Made, PolicyOK
<1>5. NothingFromNothing'
  BY <1>1, <1>2 DEF NothingFromNothing, Made
<1>6. published' = 0 /\ joined' \in Nat
  BY <1>1, <1>2 DEF TopicTypeOK
<1>7. RetainedEndsWithLatest' /\ LatestIsUnderway'
  <2>1. ~(published' > 0) /\ ~(published' > joined')
    BY <1>6
  <2>. QED BY <2>1 DEF RetainedEndsWithLatest, LatestIsUnderway
<1>. QED BY <1>4, <1>5, <1>7

LEMMA CreateReceiverStep == TopicInv /\ CreateReceiver => TopicInv'
<1>. SUFFICES ASSUME TopicInv, CreateReceiver PROVE TopicInv'
  OBVIOUS
<1>. USE DEF TopicInv
<1>1. /\ ~Made(receiver)
      /\ UNCHANGED <<sender, retained, taken, orphan, published>>
      /\ handed' = 0 /\ joined' = published
  BY DEF CreateReceiver, Made
<1>2. Made(receiver') => PolicyOK(receiver'.policy, {"DATA", "BUFFER"})
  <2>1. PICK name \in PortNames, hasNode \in BOOLEAN, policy \in InputPolicies :
          receiver' = createStream(name, hasNode, policy, FALSE)
    BY DEF CreateReceiver
  <2>. QED BY <2>1, StreamPolicy, InputPolicyOK
<1>3. CASE Matches(sender, receiver') /\ Qos(receiver'.policy).transient_local
  <2>1. queue' = KeepLast(retained, Qos(receiver'.policy).depth)
    BY <1>3 DEF CreateReceiver
  <2>2. /\ Made(sender) /\ Made(receiver') /\ receiver'.policy.size \in Nat
        /\ Qos(receiver'.policy).depth \in Nat \ {0}
    BY <1>2, <1>3, DepthPositive DEF Matches, Made, PolicyOK
  <2>3. sender.policy.init
    BY <1>3, <2>2, DepthPositive DEF Matches, TopicTypeOK, PolicyOK
  <2>4. retained \in Seq(Samples) /\ (retained # <<>> => queue' # <<>> /\ End(queue') = End(retained))
    BY <2>1, <2>2, EndOfKeepLast DEF TopicTypeOK
  <2>5. queue' \in Seq(Samples)
    <3>1. CASE retained # <<>>
      BY <3>1, <2>1, <2>2, EndOfKeepLast DEF TopicTypeOK
    <3>2. CASE retained = <<>>
      <4>1. Len(retained) = 0 /\ ~(0 > Qos(receiver'.policy).depth)
        BY <3>2, <2>2
      <4>2. KeepLast(retained, Qos(receiver'.policy).depth) = SubSeq(<<>>, 1, 0)
        BY <4>1, <3>2 DEF KeepLast
      <4>3. SubSeq(<<>>, 1, 0) \in Seq(Samples)
        OBVIOUS
      <4>. QED BY <2>1, <4>2, <4>3
    <3>. QED BY <3>1, <3>2
  <2>6. published > 0 => queue' # <<>> /\ End(queue') = published
    BY <2>2, <2>3, <2>4 DEF RetainedEndsWithLatest
  <2>7. published \in Nat
    BY DEF TopicTypeOK
  <2>8. TopicTypeOK'
    BY <1>1, <1>2, <2>5 DEF TopicTypeOK, Made, PolicyOK
  <2>9. NothingFromNothing'
    BY <1>1, <2>2 DEF NothingFromNothing, Made
  <2>10. RetainedEndsWithLatest'
    BY <1>1 DEF RetainedEndsWithLatest, Made, End
  <2>11. LatestIsUnderway'
    <3>. SUFFICES ASSUME published > IF receiver'.policy.init THEN 0 ELSE published
                  PROVE  queue' # <<>> /\ End(queue') = published
      BY <1>1 DEF LatestIsUnderway, End
    <3>1. published > 0
      BY <2>7
    <3>. QED BY <3>1, <2>6
  <2>. QED BY <2>8, <2>9, <2>10, <2>11
<1>4. CASE ~(Matches(sender, receiver') /\ Qos(receiver'.policy).transient_local)
  <2>1. queue' = <<>>
    BY <1>4 DEF CreateReceiver
  <2>2. TopicTypeOK'
    BY <1>1, <1>2, <2>1 DEF TopicTypeOK, Made, PolicyOK
  <2>3. NothingFromNothing'
    BY <1>1, <2>1 DEF NothingFromNothing, Made
  <2>4. RetainedEndsWithLatest'
    BY <1>1 DEF RetainedEndsWithLatest, Made, End
  <2>5. LatestIsUnderway'
    <3>. SUFFICES ASSUME Matches(sender, receiver'),
                         published > IF receiver'.policy.init THEN 0 ELSE published
                  PROVE  FALSE
      BY <1>1 DEF LatestIsUnderway, Matches
    <3>1. Made(receiver') /\ receiver'.policy.size \in Nat
      BY <1>2 DEF Matches, Made, PolicyOK
    <3>2. ~receiver'.policy.init
      BY <1>4, <3>1, DepthPositive
    <3>. QED BY <3>2 DEF TopicTypeOK
  <2>. QED BY <2>2, <2>3, <2>4, <2>5
<1>. QED BY <1>3, <1>4

LEMMA PublishStep == TopicInv /\ Publish => TopicInv'
<1>. SUFFICES ASSUME TopicInv, Publish PROVE TopicInv'
  OBVIOUS
<1>. USE DEF TopicInv
<1>1. /\ Made(sender) /\ published' = published + 1 /\ published' \in Samples
      /\ UNCHANGED <<sender, receiver, taken, orphan, port, handed, joined>>
  BY DEF Publish, Made, TopicTypeOK, Samples
<1>2. /\ retained \in Seq(Samples) /\ queue \in Seq(Samples)
      /\ PolicyOK(sender.policy, {"DATA", "BUFFER", "UNBUFFERED"})
      /\ Made(receiver) => PolicyOK(receiver.policy, {"DATA", "BUFFER"})
  BY <1>1 DEF TopicTypeOK
<1>3. /\ Qos(sender.policy).depth \in Nat \ {0}
      /\ Qos(sender.policy).transient_local = sender.policy.init
  BY <1>2, DepthPositive DEF PolicyOK
<1>4. ASSUME sender.policy.init
      PROVE  retained' \in Seq(Samples) /\ retained' # <<>> /\ End(retained') = published'
  <2>1. retained' = KeepLast(Append(retained, published'), Qos(sender.policy).depth)
    BY <1>3, <1>4 DEF Publish
  <2>. DEFINE s == Append(retained, published')
  <2>2. s \in Seq(Samples) /\ s # <<>> /\ End(s) = published'
    BY <1>1, <1>2, EndOfAppend
  <2>. HIDE DEF s
  <2>3. /\ KeepLast(s, Qos(sender.policy).depth) \in Seq(Samples)
        /\ KeepLast(s, Qos(sender.policy).depth) # <<>>
        /\ End(KeepLast(s, Qos(sender.policy).depth)) = End(s)
    BY <2>2, <1>3, EndOfKeepLast
  <2>4. retained' = KeepLast(s, Qos(sender.policy).depth)
    BY <2>1 DEF s
  <2>. QED BY <2>2, <2>3, <2>4, Zenon
<1>5. ASSUME ~sender.policy.init PROVE retained' \in Seq(Samples)
  BY <1>3, <1>5 DEF Publish
<1>6. ASSUME Matches(sender, receiver)
      PROVE  queue' \in Seq(Samples) /\ queue' # <<>> /\ End(queue') = published'
  <2>1. queue' = KeepLast(Append(queue, published'), Qos(receiver.policy).depth)
    BY <1>6 DEF Publish
  <2>2. Qos(receiver.policy).depth \in Nat \ {0}
    BY <1>2, <1>6, DepthPositive DEF Matches, Made, PolicyOK
  <2>. DEFINE s == Append(queue, published')
  <2>3. s \in Seq(Samples) /\ s # <<>> /\ End(s) = published'
    BY <1>1, <1>2, EndOfAppend
  <2>. HIDE DEF s
  <2>4. /\ KeepLast(s, Qos(receiver.policy).depth) \in Seq(Samples)
        /\ KeepLast(s, Qos(receiver.policy).depth) # <<>>
        /\ End(KeepLast(s, Qos(receiver.policy).depth)) = End(s)
    BY <2>2, <2>3, EndOfKeepLast
  <2>5. queue' = KeepLast(s, Qos(receiver.policy).depth)
    BY <2>1 DEF s
  <2>. QED BY <2>3, <2>4, <2>5, Zenon
<1>7. ASSUME ~Matches(sender, receiver) PROVE queue' = queue
  BY <1>7 DEF Publish
<1>8. TopicTypeOK'
  <2>1. retained' \in Seq(Samples)
    BY <1>4, <1>5
  <2>2. queue' \in Seq(Samples)
    BY <1>2, <1>6, <1>7
  <2>. QED BY <1>1, <2>1, <2>2 DEF TopicTypeOK, Samples, Made
<1>9. NothingFromNothing'
  BY <1>1, <1>7 DEF NothingFromNothing, Made, Matches
<1>10. RetainedEndsWithLatest'
  BY <1>1, <1>4 DEF RetainedEndsWithLatest, End
<1>11. LatestIsUnderway'
  BY <1>1, <1>6 DEF LatestIsUnderway, End
<1>. QED BY <1>8, <1>9, <1>10, <1>11

LEMMA TakeStep == TopicInv /\ Take => TopicInv'
<1>. SUFFICES ASSUME TopicInv, Take PROVE TopicInv'
  OBVIOUS
<1>. USE DEF TopicInv
<1>1. /\ queue # <<>> /\ taken = 0 /\ taken' = Head(queue) /\ queue' = Tail(queue)
      /\ UNCHANGED <<sender, receiver, retained, orphan, port, handed, joined, published>>
  BY DEF Take
<1>2. queue \in Seq(Samples)
  BY DEF TopicTypeOK
<1>3. /\ queue' \in Seq(Samples) /\ taken' \in Samples
      /\ queue' # <<>> => End(queue') = End(queue)
      /\ queue' = <<>> => taken' = End(queue)
  BY <1>1, <1>2, EndOfTail
<1>4. TopicTypeOK'
  BY <1>1, <1>3 DEF TopicTypeOK, Samples, Made
<1>5. NothingFromNothing'
  BY <1>1, <1>3 DEF NothingFromNothing, Samples, Made
<1>6. RetainedEndsWithLatest'
  BY <1>1 DEF RetainedEndsWithLatest, End, Made
<1>7. LatestIsUnderway'
  BY <1>1, <1>3 DEF LatestIsUnderway, Samples, End
<1>. QED BY <1>4, <1>5, <1>6, <1>7

LEMMA CallbackStep == TopicInv /\ callback => TopicInv'
<1>. SUFFICES ASSUME TopicInv, callback PROVE TopicInv'
  OBVIOUS
<1>. USE DEF TopicInv
<1>1. /\ taken # 0 /\ orphan = "none" /\ taken' = 0 /\ handed' = taken
      /\ receiver.policy.type = "DATA" => port' = <<taken>>
      /\ UNCHANGED <<sender, receiver, retained, queue, orphan, joined, published>>
  BY DEF callback
<1>2. TopicTypeOK'
  BY <1>1 DEF TopicTypeOK, Made
<1>3. NothingFromNothing'
  BY <1>1 DEF NothingFromNothing, Made
<1>4. RetainedEndsWithLatest'
  BY <1>1 DEF RetainedEndsWithLatest, End, Made
<1>5. LatestIsUnderway'
  BY <1>1 DEF LatestIsUnderway, End
<1>. QED BY <1>2, <1>3, <1>4, <1>5

LEMMA ReaderStep == TopicInv /\ (ReadPort \/ Disconnect \/ callbackOfDestroyed) => TopicInv'
<1>. SUFFICES ASSUME TopicInv, ReadPort \/ Disconnect \/ callbackOfDestroyed PROVE TopicInv'
  OBVIOUS
<1>. USE DEF TopicInv
<1>1. CASE ReadPort
  <2>1. /\ receiver.policy.type = "BUFFER"
        /\ UNCHANGED <<sender, receiver, retained, queue, taken, orphan, handed, joined, published>>
    BY <1>1 DEF ReadPort
  <2>2. TopicTypeOK' /\ NothingFromNothing' /\ RetainedEndsWithLatest'
    BY <2>1 DEF TopicTypeOK, NothingFromNothing, RetainedEndsWithLatest, End, Made
  <2>3. LatestIsUnderway'
    BY <2>1 DEF LatestIsUnderway, End
  <2>. QED BY <2>2, <2>3
<1>2. CASE Disconnect
  <2>1. /\ orphan = "none" /\ receiver' = NoStream /\ queue' = <<>>
        /\ orphan' = IF taken # 0 THEN "gone" ELSE "none"
        /\ UNCHANGED <<sender, retained, taken, handed, joined, published>>
    BY <1>2 DEF Disconnect
  <2>2. ~Made(receiver') /\ ~Matches(sender', receiver')
    BY <2>1 DEF NoStream, Made, NotMade, Matches
  <2>3. TopicTypeOK' /\ NothingFromNothing' /\ RetainedEndsWithLatest'
    BY <2>1, <2>2 DEF TopicTypeOK, NothingFromNothing, RetainedEndsWithLatest, End, Made
  <2>4. LatestIsUnderway'
    BY <2>2 DEF LatestIsUnderway
  <2>. QED BY <2>3, <2>4
<1>3. CASE callbackOfDestroyed
  <2>1. /\ orphan = "gone" /\ orphan' = "used"
        /\ UNCHANGED <<sender, receiver, retained, queue, taken, handed, joined, published>>
    BY <1>3 DEF callbackOfDestroyed
  <2>2. TopicTypeOK' /\ NothingFromNothing' /\ RetainedEndsWithLatest'
    BY <2>1 DEF TopicTypeOK, NothingFromNothing, RetainedEndsWithLatest, End, Made
  <2>3. LatestIsUnderway'
    BY <2>1 DEF LatestIsUnderway
  <2>. QED BY <2>2, <2>3
<1>. QED BY <1>1, <1>2, <1>3

\* Every step keeps the invariant.
LEMMA TopicInvStep == TopicInv /\ [TopicNext]_topicVars => TopicInv'
<1>1. TopicInv /\ UNCHANGED topicVars => TopicInv'
  BY DEF topicVars, TopicInv, TopicTypeOK, NothingFromNothing, RetainedEndsWithLatest,
         LatestIsUnderway, End, Made, PolicyOK
<1>. QED
  BY <1>1, CreateSenderStep, CreateReceiverStep, PublishStep, TakeStep, CallbackStep,
     ReaderStep
     DEF TopicNext

\* When the executor has delivered what is queued, a connected port has been
\* written the last sample that was published to it, and a latched one also a
\* sample from before it was made: for every size of the buffers, every number
\* of samples and whatever was dropped from the queues.
THEOREM LastSampleArrives == TopicSpec => []LatestArrives
<1>1. TopicInv => LatestArrives
  <2>. SUFFICES ASSUME TopicInv, Matches(sender, receiver), queue = <<>>, taken = 0,
                       published > IF receiver.policy.init THEN 0 ELSE joined
                PROVE  /\ handed = published
                       /\ receiver.policy.type = "DATA" => port = <<published>>
    BY DEF LatestArrives
  <2>1. orphan = "none"
    BY DEF TopicInv, NothingFromNothing
  <2>. QED BY <2>1 DEF TopicInv, LatestIsUnderway
<1>. QED BY TopicInvInit, TopicInvStep, <1>1, PTL DEF TopicSpec
=============================================================================
