-------------------------- MODULE MaelstromNodeProofs --------------------------
(***************************************************************************)
(* The process, for any input, any number of threads in the pool and any   *)
(* interleaving of the loop with them.                                     *)
(***************************************************************************)
EXTENDS MaelstromNode, FiniteSetTheorems, TLAPS

ReplyTypes == {"init_ok", "echo_ok", "txn_ok", "error"}
Replies == {Reply(l, type) : l \in Lines, type \in ReplyTypes}

Unanswered(l) == \A i \in DOMAIN out : out[i].to # l

\* A line is read once, and is then at one place only: in the queue, on a
\* thread, or answered.
LinesInv ==
  /\ queue \in Seq(Lines) /\ out \in Seq(Replies) /\ IsFiniteSet(working)
  /\ \A i, j \in DOMAIN queue : queue[i] = queue[j] => i = j
  /\ \A i \in DOMAIN queue :
       queue[i] \in read \ working /\ Unanswered(queue[i])
  /\ \A l \in working : Unanswered(l)
  /\ \A i \in DOMAIN out : out[i].to \in read
  /\ \A i, j \in DOMAIN out : out[i].to = out[j].to => i = j

\* While the loop goes on, no init has been read whose handlers have not run.
StartInv ==
  /\ process = "running" /\ SomeInit(read) => started # "no"
  /\ after_init # {} => started # "no"
  /\ too_early = {}

NodeInv == NodeTypeOK /\ LinesInv /\ StartInv

------------------------------------------------------------------------------
(* Replies and queues.                                                     *)

\* An id that fits passes through int unchanged.
LEMMA AsIntExact ==
  ASSUME NEW n \in - (INT_MODULUS \div 2) .. INT_MODULUS \div 2 - 1
  PROVE  AsInt(n) = n
<1> DEFINE half == INT_MODULUS \div 2
           x == n + half
<1>1. INT_MODULUS \in Nat \ {0} /\ half \in Nat /\ 2 * half <= INT_MODULUS
  BY NodeAssumption
<1>2. x \in 0 .. INT_MODULUS - 1
  BY <1>1
<1>3. x % INT_MODULUS = x
  BY <1>1, <1>2
<1> QED
  BY <1>1, <1>3 DEF AsInt

\* The reply to a message that has an id names it, and does not send it back.
LEMMA ReplyNames ==
  ASSUME IdsFit, NEW l \in Lines, NEW type \in ReplyTypes,
         "msg_id" \in DOMAIN BodyOf[l]
  PROVE  /\ "msg_id" \notin DOMAIN Reply(l, type).body
         /\ Reply(l, type).body["in_reply_to"] = BodyOf[l]["msg_id"]
<1>1. getMsgId(l) = BodyOf[l]["msg_id"]
  BY AsIntExact DEF IdsFit, getMsgId
<1>2. getMsgId(l) # None
  BY <1>1, NodeAssumption
<1> QED
  BY <1>1, <1>2 DEF Reply, ReplyBody

\* A reply is to the line it was made for.
LEMMA ReplyTo ==
  ASSUME NEW l \in Lines, NEW type \in ReplyTypes
  PROVE  Reply(l, type) \in Replies /\ Reply(l, type).to = l
BY DEF Reply, Replies

\* What taking the oldest task leaves of the queue.
LEMMA TakeOldest ==
  ASSUME NEW q \in Seq(Lines), q # <<>>
  PROVE  /\ Head(q) = q[1] /\ 1 \in DOMAIN q
         /\ Tail(q) \in Seq(Lines)
         /\ \A i \in DOMAIN Tail(q) : i + 1 \in DOMAIN q /\ Tail(q)[i] = q[i + 1]
OBVIOUS

\* What a post or a reply adds at the end.
LEMMA AppendLast ==
  ASSUME NEW S, NEW s \in Seq(S), NEW e \in S
  PROVE  /\ Append(s, e) \in Seq(S)
         /\ DOMAIN Append(s, e) = DOMAIN s \cup {Len(s) + 1}
         /\ Len(s) + 1 \notin DOMAIN s
         /\ \A i \in DOMAIN s : Append(s, e)[i] = s[i]
         /\ Append(s, e)[Len(s) + 1] = e
OBVIOUS
------------------------------------------------------------------------------
(* Steps.                                                                  *)

\* One reply to a line that was not answered: the loop's to an init it has
\* just read, or a thread's to the line it works on.
LEMMA ReplyStep ==
  ASSUME LinesInv, NEW l \in Lines, NEW type \in ReplyTypes, Unanswered(l),
         out' = Append(out, Reply(l, type)), l \in read',
         read \subseteq read', queue' = queue,
         \A i \in DOMAIN queue : queue[i] # l,
         working' = working \ {l}
  PROVE  LinesInv'
<1>1. Reply(l, type) \in Replies /\ Reply(l, type).to = l
  BY ReplyTo
<1>2. out \in Seq(Replies) /\ queue \in Seq(Lines)
  BY DEF LinesInv
<1>3. /\ out' \in Seq(Replies)
      /\ DOMAIN out' = DOMAIN out \cup {Len(out) + 1}
      /\ \A i \in DOMAIN out : out'[i] = out[i]
      /\ out'[Len(out) + 1].to = l
  BY <1>1, <1>2, AppendLast
<1>4. IsFiniteSet(working')
  BY FS_RemoveElement DEF LinesInv
<1>5. \A k : k # l /\ Unanswered(k) => Unanswered(k)'
  BY <1>3 DEF Unanswered
<1>6. \A i, j \in DOMAIN out' : out'[i].to = out'[j].to => i = j
  BY <1>3 DEF LinesInv, Unanswered
<1>7. \A i \in DOMAIN out' : out'[i].to \in read'
  BY <1>3 DEF LinesInv
<1> QED
  BY <1>2, <1>3, <1>4, <1>5, <1>6, <1>7 DEF LinesInv

\* The loop reads an init.
LEMMA InitStep ==
  ASSUME NodeInv, NEW l \in Lines, _init(l) PROVE NodeInv'
<1>1. /\ process = "running" /\ l \notin read /\ read' = read \cup {l}
      /\ nodeId' /\ started' \in {"ok", "failed"}
      /\ UNCHANGED <<process, after_init, queue, working, too_early>>
      /\ \E type \in ReplyTypes : out' = Append(out, Reply(l, type))
  BY DEF _init, ReadLine, poolVars, ReplyTypes
<1>2. Unanswered(l) /\ l \notin working /\ \A i \in DOMAIN queue : queue[i] # l
  BY <1>1 DEF NodeInv, LinesInv, NodeTypeOK, Unanswered
<1>3. LinesInv'
  BY <1>1, <1>2, ReplyStep DEF NodeInv
<1>4. NodeTypeOK'
  BY <1>1 DEF NodeInv, NodeTypeOK, ToSet
<1>5. StartInv'
  BY <1>1 DEF NodeInv, StartInv
<1> QED
  BY <1>3, <1>4, <1>5 DEF NodeInv

\* A line that ends the process.
LEMMA FatalStep ==
  ASSUME NodeInv, NEW l \in Lines, Malformed(l) \/ Raise(l) PROVE NodeInv'
<1>1. /\ l \notin read /\ read' = read \cup {l} /\ process' = "terminated"
      /\ nodeId => nodeId'
      /\ UNCHANGED <<started, after_init, queue, working, too_early, out>>
  BY DEF Malformed, Raise, ReadLine, poolVars
<1>2. LinesInv'
  BY <1>1 DEF NodeInv, LinesInv, Unanswered
<1>3. NodeTypeOK' /\ StartInv'
  BY <1>1 DEF NodeInv, NodeTypeOK, ToSet, StartInv
<1> QED
  BY <1>2, <1>3 DEF NodeInv

\* The loop posts a line to the pool.
LEMMA PostStep ==
  ASSUME NodeInv, NEW l \in Lines, Post(l) PROVE NodeInv'
<1>1. /\ process = "running" /\ l \notin read /\ read' = read \cup {l}
      /\ TypeOf[l] \in Handlers /\ queue' = Append(queue, l)
      /\ after_init' = IF SomeInit(read) THEN after_init \cup {l} ELSE after_init
      /\ UNCHANGED <<process, nodeId, started, working, too_early, out>>
  BY DEF Post, ReadLine
<1>2. queue \in Seq(Lines) /\ l \notin working /\ Unanswered(l)
  BY <1>1 DEF NodeInv, LinesInv, NodeTypeOK, Unanswered
<1>3. /\ queue' \in Seq(Lines)
      /\ DOMAIN queue' = DOMAIN queue \cup {Len(queue) + 1}
      /\ \A i \in DOMAIN queue : queue'[i] = queue[i]
      /\ queue'[Len(queue) + 1] = l
  BY <1>1, <1>2, AppendLast
<1>4. LinesInv'
  <2>1. \A i, j \in DOMAIN queue' : queue'[i] = queue'[j] => i = j
    BY <1>1, <1>3 DEF NodeInv, LinesInv
  <2>2. \A i \in DOMAIN queue' :
          queue'[i] \in read' \ working' /\ Unanswered(queue'[i])
    BY <1>1, <1>2, <1>3 DEF NodeInv, LinesInv
  <2> QED
    BY <1>1, <1>3, <2>1, <2>2 DEF NodeInv, LinesInv, Unanswered
<1>5. NodeTypeOK'
  BY <1>1, <1>3 DEF NodeInv, NodeTypeOK, ToSet
<1>6. StartInv'
  BY <1>1 DEF NodeInv, StartInv, SomeInit, IsInit, Handlers
<1> QED
  BY <1>4, <1>5, <1>6 DEF NodeInv

\* A thread takes the oldest task.
LEMMA TakeStep == ASSUME NodeInv, Take PROVE NodeInv'
<1> DEFINE l == Head(queue)
<1>1. /\ queue # <<>> /\ Cardinality(working) < POOL_SIZE
      /\ working' = working \cup {l} /\ queue' = Tail(queue)
      /\ too_early' = IF l \in after_init /\ started = "no"
                      THEN too_early \cup {l} ELSE too_early
      /\ UNCHANGED <<process, read, nodeId, started, after_init, out>>
  BY DEF Take
<1>2. queue \in Seq(Lines)
  BY DEF NodeInv, LinesInv
<1>3. /\ l = queue[1] /\ 1 \in DOMAIN queue
      /\ queue' \in Seq(Lines)
      /\ \A i \in DOMAIN queue' : i + 1 \in DOMAIN queue /\ queue'[i] = queue[i + 1]
      /\ DOMAIN queue' \subseteq Nat \ {0}
  BY <1>1, <1>2, TakeOldest
<1>4. l \in read \ working /\ Unanswered(l)
  BY <1>3 DEF NodeInv, LinesInv
<1> HIDE DEF l
<1>5. IsFiniteSet(working') /\ Cardinality(working') <= POOL_SIZE
  <2>1. IsFiniteSet(working) /\ Cardinality(working) \in Nat
    BY FS_CardinalityType DEF NodeInv, LinesInv
  <2>2. /\ IsFiniteSet(working')
        /\ Cardinality(working') = Cardinality(working) + 1
    BY <1>1, <1>4, <2>1, FS_AddElement
  <2> QED
    BY <1>1, <2>1, <2>2, NodeAssumption
<1>6. LinesInv'
  <2>1. \A i, j \in DOMAIN queue' : queue'[i] = queue'[j] => i = j
    BY <1>3 DEF NodeInv, LinesInv
  <2>2. \A i \in DOMAIN queue' : queue'[i] # l
    BY <1>3 DEF NodeInv, LinesInv
  <2>3. \A i \in DOMAIN queue' :
          queue'[i] \in read' \ working' /\ Unanswered(queue'[i])
    BY <1>1, <1>3, <2>2 DEF NodeInv, LinesInv
  <2> QED
    BY <1>1, <1>3, <1>4, <1>5, <2>1, <2>3 DEF NodeInv, LinesInv, Unanswered
<1>7. NodeTypeOK'
  BY <1>1, <1>3, <1>4, <1>5 DEF NodeInv, NodeTypeOK, ToSet
<1>8. StartInv'
  BY <1>1 DEF NodeInv, StartInv
<1> QED
  BY <1>6, <1>7, <1>8 DEF NodeInv

\* A handler replies and its thread is free again.
LEMMA HandleStep ==
  ASSUME NodeInv, NEW l \in Lines, Handle(l) PROVE NodeInv'
<1>1. /\ l \in working /\ working' = working \ {l}
      /\ UNCHANGED <<process, read, nodeId, started, after_init, queue,
                     too_early>>
      /\ \E type \in ReplyTypes : out' = Append(out, Reply(l, type))
  BY DEF Handle, Outcomes, ReplyTypes
<1>2. Unanswered(l) /\ l \in read /\ \A i \in DOMAIN queue : queue[i] # l
  BY <1>1 DEF NodeInv, LinesInv, NodeTypeOK
<1>3. LinesInv'
  BY <1>1, <1>2, ReplyStep DEF NodeInv
<1>4. Cardinality(working') <= POOL_SIZE
  <2>1. IsFiniteSet(working) /\ Cardinality(working) \in Nat
    BY FS_CardinalityType DEF NodeInv, LinesInv
  <2>2. Cardinality(working') = Cardinality(working) - 1
    BY <1>1, <2>1, FS_RemoveElement, Zenon
  <2>3. Cardinality(working) <= POOL_SIZE
    BY DEF NodeInv, NodeTypeOK
  <2> QED
    BY <2>1, <2>2, <2>3, NodeAssumption
<1>5. NodeTypeOK' /\ StartInv'
  BY <1>1, <1>4 DEF NodeInv, NodeTypeOK, ToSet, StartInv
<1> QED
  BY <1>3, <1>5 DEF NodeInv

\* The loop ends, the process ends, or nothing happens.
LEMMA EndStep ==
  ASSUME NodeInv, EndOfInput \/ Exit \/ UNCHANGED vars PROVE NodeInv'
<1>1. /\ process' \in {"running", "stopping", "ended", "terminated"}
      /\ process' = "running" => process = "running"
      /\ UNCHANGED <<read, nodeId, started, after_init, queue, working,
                     too_early, out>>
  BY DEF EndOfInput, Exit, vars, poolVars, NodeInv, NodeTypeOK
<1> QED
  BY <1>1 DEF NodeInv, NodeTypeOK, ToSet, LinesInv, Unanswered, StartInv

------------------------------------------------------------------------------
(* Theorems.                                                               *)

\* The invariant holds throughout.
LEMMA NodeInvariant == Spec => []NodeInv
<1>1. Init => NodeInv
  BY NodeAssumption, FS_EmptySet DEF Init, NodeInv, NodeTypeOK, ToSet,
     LinesInv, Unanswered, StartInv, SomeInit
<1>2. NodeInv /\ [Next]_vars => NodeInv'
  BY InitStep, FatalStep, PostStep, TakeStep, HandleStep, EndStep DEF Next
<1> QED
  BY <1>1, <1>2, PTL DEF Spec

\* The pool never runs more handlers than it has threads, and all that the
\* process works on was read (Node::run, _pool).
THEOREM NodeTypeCorrect == Spec => []NodeTypeOK
<1>1. NodeInv => NodeTypeOK
  BY DEF NodeInv
<1> QED
  BY <1>1, NodeInvariant, PTL

\* No handler of a message read after an init begins before the scheduler's
\* start has returned, however many threads the pool has (Node::run runs the
\* init handlers itself, and posts the others).
THEOREM WorkFollowsStart == Spec => []StartedBeforeWork
<1>1. NodeInv => StartedBeforeWork
  BY DEF NodeInv, StartInv, StartedBeforeWork
<1> QED
  BY <1>1, NodeInvariant, PTL

\* Each request is answered at most once and by a reply that names it, for any
\* ids that an int can hold (Message's constructor for replies, getMsgId).
THEOREM RepliesCorrect == ASSUME IdsFit PROVE Spec => []RepliesMatch
<1>1. NodeInv => RepliesMatch
  <2> SUFFICES ASSUME NodeInv, NEW i \in DOMAIN out,
                      "msg_id" \in DOMAIN BodyOf[out[i].to]
               PROVE  /\ "msg_id" \notin DOMAIN out[i].body
                      /\ out[i].body["in_reply_to"] = BodyOf[out[i].to]["msg_id"]
    BY DEF NodeInv, LinesInv, RepliesMatch
  <2>1. out[i] \in Replies
    BY DEF NodeInv, LinesInv
  <2>2. PICK l \in Lines, type \in ReplyTypes : out[i] = Reply(l, type)
    BY <2>1 DEF Replies
  <2>3. out[i].to = l
    BY <2>2, ReplyTo
  <2> QED
    BY <2>2, <2>3, ReplyNames
<1> QED
  BY <1>1, NodeInvariant, PTL
==============================================================================
