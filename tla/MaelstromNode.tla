----------------------------- MODULE MaelstromNode -----------------------------
(***************************************************************************)
(* The process (lib/main.cpp, lib/src/system/maelstrom.cpp): the loop that *)
(* reads messages, init on the loop's own thread, all other handlers on a  *)
(* thread pool, and the ways in which the process ends.                    *)
(*                                                                         *)
(* What the scheduler does with a "txn" is TwoPLScheduler and              *)
(* DistributedScheduler; here a handler replies with its result or with an *)
(* error.                                                                  *)
(***************************************************************************)
EXTENDS Integers, Sequences, FiniteSets, SequencesExt

CONSTANTS
  Lines,         \* input lines
  TypeOf,        \* per line, the type of the message, or "invalid"
  BodyOf,        \* per line, the ids in the body: msg_id, in_reply_to
  POOL_SIZE,     \* threads of _pool
  INT_MODULUS,   \* 2^32: int holds - INT_MODULUS \div 2 .. INT_MODULUS \div 2 - 1
  None           \* boost::none

Handlers == {"echo", "txn"}

ASSUME NodeAssumption ==
  /\ POOL_SIZE \in Nat \ {0}
  /\ INT_MODULUS \in Nat \ {0}
  /\ None \notin Int
  /\ \A l \in Lines : TypeOf[l] \in Handlers \cup {"init", "other", "invalid"}
  /\ \A l \in Lines : \A f \in DOMAIN BodyOf[l] : BodyOf[l][f] \in Int

VARIABLES
  process,     \* "running", "stopping" (in ~thread_pool), "ended", "terminated"
  read,        \* lines read so far
  nodeId,      \* whether _nodeId is set
  started,     \* the scheduler's start: "no", "ok", or "failed"
  queue,       \* lines posted to the pool and not taken by a thread
  working,     \* lines whose handler runs on a thread
  after_init,  \* lines read after an init message
  too_early,   \* those whose handler began before the init handlers had run
  out          \* replies written, in order

poolVars == <<queue, working, too_early>>
vars == <<process, read, nodeId, started, after_init, poolVars, out>>

Init ==
  /\ process = "running"
  /\ read = {}
  /\ nodeId = FALSE
  /\ started = "no"
  /\ queue = <<>>
  /\ working = {}
  /\ after_init = {}
  /\ too_early = {}
  /\ out = <<>>

------------------------------------------------------------------------------
(* Messages.                                                               *)

\* The conversion of an int64_t to int.
AsInt(n) ==
  ((n + INT_MODULUS \div 2) % INT_MODULUS) - INT_MODULUS \div 2

\* The ids that clients send are values of int.
IdsFit ==
  \A l \in Lines : "msg_id" \in DOMAIN BodyOf[l] =>
    BodyOf[l]["msg_id"] \in - (INT_MODULUS \div 2) .. INT_MODULUS \div 2 - 1

getMsgId(l) ==
  IF "msg_id" \in DOMAIN BodyOf[l] THEN AsInt(BodyOf[l]["msg_id"]) ELSE None

\* The constructor of a reply takes over the body of the request: in_reply_to
\* is set and msg_id removed, if there is an id to reply to.
ReplyBody(body, inReplyTo) ==
  IF inReplyTo = None THEN body
  ELSE [f \in (DOMAIN body \ {"msg_id"}) \cup {"in_reply_to"} |->
          IF f = "in_reply_to" THEN inReplyTo ELSE body[f]]

\* echo_ok and txn_ok start from the request's body, the others from nothing.
Reply(l, type) ==
  [to |-> l, type |-> type,
   body |-> ReplyBody(IF type \in {"echo_ok", "txn_ok"} THEN BodyOf[l] ELSE <<>>,
                      getMsgId(l))]

------------------------------------------------------------------------------
(* Node::run on the main thread.                                           *)

\* The next line; the clients that send them are independent.
ReadLine(l) ==
  /\ process = "running"
  /\ l \in Lines \ read
  /\ read' = read \cup {l}

IsInit(l) == TypeOf[l] = "init"
SomeInit(lines) == \E l \in lines : IsInit(l)

\* Mutant: init is posted to the pool like every other message.
PostInit(l) ==
  /\ ReadLine(l)
  /\ IsInit(l)
  /\ ~nodeId
  /\ nodeId' = TRUE
  /\ queue' = Append(queue, l)
  /\ UNCHANGED <<process, started, working, after_init, too_early, out>>

\* The init handlers run in place. _nodeId is set, whether or not start succeeds.
_init(l) ==
  /\ ReadLine(l)
  /\ IsInit(l)
  /\ ~nodeId
  /\ nodeId' = TRUE
  /\ \/ started' = "ok" /\ out' = Append(out, Reply(l, "init_ok"))
     \/ started' = "failed" /\ out' = Append(out, Reply(l, "error"))
  /\ UNCHANGED <<process, after_init, poolVars>>

\* An exception that nobody catches: the line is no message.
Malformed(l) ==
  /\ ReadLine(l)
  /\ TypeOf[l] = "invalid"
  /\ process' = "terminated"
  /\ UNCHANGED <<nodeId, started, after_init, poolVars, out>>

\* Another one: a second init, a peer's name that start cannot convert, or a
\* type without a handler.
Raise(l) ==
  /\ ReadLine(l)
  /\ \/ IsInit(l) /\ nodeId' = TRUE
     \/ TypeOf[l] = "other" /\ UNCHANGED nodeId
  /\ process' = "terminated"
  /\ UNCHANGED <<started, after_init, poolVars, out>>

Post(l) ==
  /\ ReadLine(l)
  /\ TypeOf[l] \in Handlers
  /\ queue' = Append(queue, l)
  /\ after_init' = IF SomeInit(read) THEN after_init \cup {l} ELSE after_init
  /\ UNCHANGED <<process, nodeId, started, working, too_early, out>>

\* An empty line or the end of the input: main returns, and the destructor of
\* the pool stops it.
EndOfInput ==
  /\ process = "running"
  /\ process' = "stopping"
  /\ UNCHANGED <<read, nodeId, started, after_init, poolVars, out>>

------------------------------------------------------------------------------
(* The pool.                                                               *)

\* Mutant: a task does not wait for a free thread.
TakeAtOnce ==
  /\ process = "running"
  /\ queue # <<>>
  /\ working' = working \cup {Head(queue)}
  /\ queue' = Tail(queue)
  /\ UNCHANGED <<process, read, nodeId, started, after_init, too_early, out>>

\* A thread that is free takes the oldest task, unless the pool was stopped.
Take ==
  /\ process = "running"
  /\ queue # <<>>
  /\ Cardinality(working) < POOL_SIZE
  /\ working' = working \cup {Head(queue)}
  /\ queue' = Tail(queue)
  /\ too_early' = IF Head(queue) \in after_init /\ started = "no"
                  THEN too_early \cup {Head(queue)} ELSE too_early
  /\ UNCHANGED <<process, read, nodeId, started, after_init, out>>

Alive == process \in {"running", "stopping"}

Outcomes(l) == IF TypeOf[l] = "echo" THEN {"echo_ok"} ELSE {"txn_ok", "error"}

\* Mutant: the thread does not come back.
HandleForGood(l) ==
  /\ Alive
  /\ l \in working
  /\ \A i \in DOMAIN out : out[i].to # l
  /\ \E type \in Outcomes(l) : out' = Append(out, Reply(l, type))
  /\ UNCHANGED <<process, read, nodeId, started, after_init, poolVars>>

\* Mutant: the handler replies once more when it has caught an exception.
HandleTwice(l) ==
  /\ Alive
  /\ l \in working
  /\ \E type \in Outcomes(l) :
       out' = out \o <<Reply(l, type), Reply(l, "error")>>
  /\ working' = working \ {l}
  /\ UNCHANGED <<process, read, nodeId, started, after_init, queue, too_early>>

\* handle writes one reply, under cout_mutex.
Handle(l) ==
  /\ Alive
  /\ l \in working
  /\ \E type \in Outcomes(l) : out' = Append(out, Reply(l, type))
  /\ working' = working \ {l}
  /\ UNCHANGED <<process, read, nodeId, started, after_init, queue, too_early>>

\* ~thread_pool has joined the threads; tasks that are still queued are lost.
Exit ==
  /\ process = "stopping"
  /\ working = {}
  /\ process' = "ended"
  /\ UNCHANGED <<read, nodeId, started, after_init, poolVars, out>>

Next ==
  \/ \E l \in Lines : _init(l) \/ Malformed(l) \/ Raise(l) \/ Post(l) \/ Handle(l)
  \/ EndOfInput \/ Take \/ Exit

Spec == Init /\ [][Next]_vars

\* Threads run, and every handler returns (EveryTxAnswered).
FairSpec ==
  /\ Spec
  /\ WF_vars(Take) /\ WF_vars(Exit)
  /\ \A l \in Lines : WF_vars(Handle(l))

------------------------------------------------------------------------------
(* Properties                                                              *)

NodeTypeOK ==
  /\ process \in {"running", "stopping", "ended", "terminated"}
  /\ read \subseteq Lines
  /\ working \subseteq read /\ Cardinality(working) <= POOL_SIZE
  /\ ToSet(queue) \subseteq read
  /\ started \in {"no", "ok", "failed"} /\ (started # "no" => nodeId)

\* A request is answered at most once, by a reply that names it: in_reply_to
\* is the request's msg_id, and the id itself is not sent back, although the
\* echo handler starts from the request's body and ids pass through an int.
RepliesMatch ==
  /\ \A i, j \in DOMAIN out : out[i].to = out[j].to => i = j
  /\ \A i \in DOMAIN out :
       LET request == BodyOf[out[i].to] IN
         "msg_id" \in DOMAIN request =>
           /\ "msg_id" \notin DOMAIN out[i].body
           /\ out[i].body["in_reply_to"] = request["msg_id"]

\* A handler of a message that was read after init begins once the scheduler's
\* start has returned, whichever thread takes it (main.cpp: before that there
\* is no coordinator, and every key would be taken for local).
StartedBeforeWork == too_early = {}

\* While the input goes on, every request that has a handler is answered:
\* the pool's queue does not starve.
RequestsAnswered ==
  \A l \in Lines : TypeOf[l] \in Handlers =>
    (l \in read) ~> (process # "running" \/ \E i \in DOMAIN out : out[i].to = l)
==============================================================================
