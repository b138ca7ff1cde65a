------------------------------ MODULE RosTopic ------------------------------
(***************************************************************************)
(* Streams between ports and ROS topics: the connection policies that      *)
(* rostopic.hpp makes, createStream() of the type transporter, and the     *)
(* subscription (ros_subscription.hpp), from the samples of a publisher to *)
(* the port that reads them.  What happens between the writing port and    *)
(* its publisher is module RosPublisher.                                   *)
(*                                                                         *)
(* The executor takes a sample from the queue of the subscription and then *)
(* runs callback() on a raw pointer to the channel element; it takes the   *)
(* next one after that, as a subscription is in the default, mutually      *)
(* exclusive callback group.  Samples are numbered.                        *)
(***************************************************************************)
EXTENDS Naturals, Sequences

CONSTANTS
    MaxSize,        \* bound on the size of buffers
    MaxSamples,     \* bound on the samples of the publisher
    MaxStreams      \* bound on the calls of createStream() by the reader

ASSUME TopicBounds == MaxSize \in Nat /\ MaxSamples \in Nat /\ MaxStreams \in Nat

VARIABLES
    sender,         \* the stream of the writing port
    receiver,       \* the stream of the reading port
    retained,       \* samples that the middleware keeps for late subscribers
    queue,          \* samples that it keeps for the subscription
    taken,          \* the sample that the executor is delivering, or 0
    orphan,         \* the element of a taken sample: "none", "gone" or "used"
    port,           \* samples in the storage of the reading port
    handed,         \* the last sample that callback() wrote, or 0
    joined,         \* samples that were published before the receiver was made
    published,      \* samples published so far
    streams         \* calls of createStream() by the reader so far

topicVars == <<sender, receiver, retained, queue, taken, orphan, port, handed,
               joined, published, streams>>

-----------------------------------------------------------------------------
(* Connection policies.                                                    *)

ConnPolicy(type_, size, name, latch) ==
    [type |-> type_, size |-> size, name_id |-> name, init |-> latch, pull |-> FALSE]

topic(name, latch)               == ConnPolicy("DATA", 0, name, latch)
topicLatched(name)               == topic(name, TRUE)
topicBuffered(name, size, latch) == ConnPolicy("BUFFER", size, name, latch)
topicDirect(name, size, latch)   ==
    [topicBuffered(name, size, latch) EXCEPT !.type = "UNBUFFERED"]

\* Policies of a script.  rostopic.hpp makes no pull connection, a script may.
\* An unbuffered policy is for writers only.
TopicNames == {"", "my_port", "chatter"}
PushedPolicies ==
    {topic(n, FALSE) : n \in TopicNames}
    \cup {topicLatched(n) : n \in TopicNames}
    \cup {topicBuffered(n, s, l) : n \in TopicNames, s \in 1..MaxSize, l \in BOOLEAN}
InputPolicies ==
    PushedPolicies \cup {[p EXCEPT !.pull = TRUE] : p \in PushedPolicies}
OutputPolicies ==
    InputPolicies
    \cup {topicDirect(n, s, l) : n \in TopicNames, s \in 1..MaxSize, l \in BOOLEAN}

\* find_topic(): the name of the policy, else that of the port in lower case
\* with underscores.  Only a port without a name is left without a topic.
PortNames == {"", "MyPort"}
LowerCaseUnderscore == [n \in PortNames |-> IF n = "MyPort" THEN "my_port" ELSE ""]
find_topic(name, policy) ==
    IF policy.name_id # "" THEN policy.name_id ELSE LowerCaseUnderscore[name]

\* Mutant of Qos: init of the policy is ignored.
QosVolatile(policy) ==
    [depth |-> IF policy.size > 1 THEN policy.size ELSE 1, transient_local |-> FALSE]

\* The quality of service of a publisher or subscription.
Qos(policy) ==
    [depth |-> IF policy.size > 1 THEN policy.size ELSE 1, transient_local |-> policy.init]

NotMade  == {"none", "refused", "raised"}
NoStream == [made |-> "none"]

\* createStream(): the channel element that it returns.  find_topic() raises
\* in the constructor of the element.
createStream(name, hasNode, policy, is_sender) ==
    LET topic_ == find_topic(name, policy)
    IN  CASE policy.pull \/ ~hasNode -> [made |-> "refused"]
          [] ~policy.pull /\ hasNode /\ topic_ = "" -> [made |-> "raised"]
          [] OTHER ->
               [made   |-> IF is_sender
                           THEN IF policy.type = "UNBUFFERED" THEN "publisher" ELSE "buffer"
                           ELSE "subscription",
                topic  |-> topic_,
                policy |-> policy]

\* The middleware keeps the last samples, and matches a subscription with a
\* publisher of the topic unless it wants late samples that the other does
\* not keep.
KeepLast(s, depth) == SubSeq(s, IF Len(s) > depth THEN Len(s) - depth + 1 ELSE 1, Len(s))
Matches(s, r) ==
    /\ s.made \notin NotMade /\ r.made \notin NotMade
    /\ s.topic = r.topic
    /\ Qos(r.policy).transient_local => Qos(s.policy).transient_local

-----------------------------------------------------------------------------
TopicInit ==
    /\ sender = NoStream /\ receiver = NoStream
    /\ retained = <<>> /\ queue = <<>> /\ port = <<>>
    /\ taken = 0 /\ orphan = "none"
    /\ handed = 0 /\ joined = 0 /\ published = 0 /\ streams = 0

\* The stream of the writing port.
CreateSender ==
    /\ sender.made \in NotMade
    /\ \E name \in PortNames, hasNode \in BOOLEAN, policy \in OutputPolicies :
         sender' = createStream(name, hasNode, policy, TRUE)
    /\ UNCHANGED <<receiver, retained, queue, taken, orphan, port, handed, joined,
                   published, streams>>

\* The stream of the reading port, with a subscription to what is published
\* from now on and, where both sides are transient local, to what was.
CreateReceiver ==
    /\ receiver.made \in NotMade /\ orphan # "used"
    /\ streams < MaxStreams /\ streams' = streams + 1
    /\ \E name \in PortNames, hasNode \in BOOLEAN, policy \in InputPolicies :
         receiver' = createStream(name, hasNode, policy, FALSE)
    /\ queue' = IF Matches(sender, receiver') /\ Qos(receiver'.policy).transient_local
                THEN KeepLast(retained, Qos(receiver'.policy).depth) ELSE <<>>
    /\ port' = <<>> /\ handed' = 0 /\ joined' = published
    /\ UNCHANGED <<sender, retained, taken, orphan, published>>

\* publisher_->publish().
Publish ==
    /\ sender.made \notin NotMade /\ orphan # "used"
    /\ published < MaxSamples /\ published' = published + 1
    /\ retained' = IF Qos(sender.policy).transient_local
                   THEN KeepLast(Append(retained, published'), Qos(sender.policy).depth)
                   ELSE <<>>
    /\ queue' = IF Matches(sender, receiver)
                THEN KeepLast(Append(queue, published'), Qos(receiver.policy).depth)
                ELSE queue
    /\ UNCHANGED <<sender, receiver, taken, orphan, port, handed, joined, streams>>

\* The executor takes the oldest sample of the subscription.
Take ==
    /\ queue # <<>> /\ taken = 0
    /\ taken' = Head(queue) /\ queue' = Tail(queue)
    /\ UNCHANGED <<sender, receiver, retained, orphan, port, handed, joined, published,
                   streams>>

\* callback() writes to the port and ignores whether the port took it: a data
\* object keeps the latest sample, a full buffer refuses it.
callback ==
    /\ taken # 0 /\ orphan = "none"
    /\ taken' = 0 /\ handed' = taken
    /\ port' = CASE receiver.policy.type = "DATA" -> <<taken>>
                 [] receiver.policy.type = "BUFFER" ->
                      IF Len(port) < receiver.policy.size THEN Append(port, taken) ELSE port
    /\ UNCHANGED <<sender, receiver, retained, queue, orphan, joined, published, streams>>

\* The component reads its port; a data object keeps what was read.
ReadPort ==
    /\ receiver.made = "subscription" /\ orphan # "used"
    /\ receiver.policy.type = "BUFFER" /\ port # <<>>
    /\ port' = Tail(port)
    /\ UNCHANGED <<sender, receiver, retained, queue, taken, orphan, handed, joined,
                   published, streams>>

\* The port is disconnected: the element and its subscription are destroyed,
\* but not the sample that the executor has taken.
Disconnect ==
    /\ receiver.made = "subscription" /\ orphan = "none"
    /\ receiver' = NoStream /\ queue' = <<>> /\ port' = <<>>
    /\ orphan' = IF taken # 0 THEN "gone" ELSE "none"
    /\ UNCHANGED <<sender, retained, taken, handed, joined, published, streams>>

\* The executor runs callback() on an element that was destroyed.  What
\* follows is undefined, and the behaviour ends here.
callbackOfDestroyed ==
    /\ orphan = "gone"
    /\ orphan' = "used"
    /\ UNCHANGED <<sender, receiver, retained, queue, taken, port, handed, joined,
                   published, streams>>

TopicNext ==
    \/ CreateSender \/ CreateReceiver \/ Publish \/ Take \/ callback \/ ReadPort
    \/ Disconnect \/ callbackOfDestroyed

TopicSpec == TopicInit /\ [][TopicNext]_topicVars

-----------------------------------------------------------------------------
\* When the executor is done, the last sample that was published to a port's
\* stream has been written to the port, and a data connection holds it,
\* whatever was dropped from the queues before; a latched stream that is made
\* after its last sample has it, too.
LatestArrives ==
    /\ Matches(sender, receiver) /\ queue = <<>> /\ taken = 0
    /\ published > IF receiver.policy.init THEN 0 ELSE joined
    => /\ handed = published
       /\ receiver.policy.type = "DATA" => port = <<published>>
=============================================================================
