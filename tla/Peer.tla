--------------------------------- MODULE Peer ---------------------------------
(***************************************************************************)
(* A Peer object (lib/src/system/Peer.cpp): the outgoing connection made   *)
(* by its constructor, the incoming one that setup_incoming hands over,    *)
(* and coroutines that call send_receive on it from several threads.       *)
(*                                                                         *)
(* A stream is a sequence of parts of frames: boost::asio::write may pass  *)
(* a frame to the socket in pieces, here its length and its payload.  The  *)
(* other side is external: it reads frames and sends a response to each.   *)
(* overlapped and dropped are history, for the properties.                 *)
(***************************************************************************)
EXTENDS Integers, Sequences, SequencesExt

CONSTANTS
  Callers,        \* coroutines that use the Peer object
  Calls,          \* per caller, the messages it sends, one after the other
  Oversized,      \* messages of 2^32 - 1 bytes or more
  CONN_RETRIES,   \* maxRetries: 10
  Connect,        \* the constructor's message
  Garbage         \* what a receiver makes of parts of two frames

ASSUME PeerAssumption == CONN_RETRIES \in Nat \ {0}

VARIABLES
  conn,         \* how the constructor stands
  attempt,      \* i in connect
  out_stream,   \* parts written to out_socket and not read by the other side
  in_stream,    \* parts that can be read from in_socket
  incoming,     \* setup_incoming: "none", "expired" (ready is), "set"
  closed,       \* whether the other side shut the connections down
  pc,           \* per caller, where send_receive stands
  to_write,     \* per caller, the parts not yet written
  header,       \* per caller, the part it read as a length
  call,         \* per caller, the index of the current or next call
  answers,      \* per caller, (message sent, response returned) so far
  seen,         \* what the other side has read
  overlapped,   \* whether two calls were ever under way at the same time
  dropped       \* whether a call that sent its message ended without response

connVars == <<conn, attempt, incoming, closed>>
callVars == <<pc, to_write, header, call, answers>>
history == <<overlapped, dropped>>
vars == <<connVars, callVars, out_stream, in_stream, seen, history>>

Frame(m) == <<[part |-> "len", msg |-> m], [part |-> "payload", msg |-> m]>>

\* The message in two parts that were read one after the other.
Parsed(first, second) ==
  IF <<first, second>> = <<[part |-> "len", msg |-> first.msg],
                           [part |-> "payload", msg |-> first.msg]>>
  THEN first.msg ELSE Garbage

Init ==
  /\ conn = "connecting"
  /\ attempt = 1
  /\ out_stream = <<>>
  /\ in_stream = <<>>
  /\ incoming = "none"
  /\ closed = FALSE
  /\ pc = [c \in Callers |-> "idle"]
  /\ to_write = [c \in Callers |-> <<>>]
  /\ header = [c \in Callers |-> Garbage]
  /\ call = [c \in Callers |-> 1]
  /\ answers = [c \in Callers |-> <<>>]
  /\ seen = <<>>
  /\ overlapped = FALSE
  /\ dropped = FALSE

------------------------------------------------------------------------------
(* The constructor.                                                        *)

\* connect returns, and the constructor sends its message before anyone else
\* has the object.
ConnectOk ==
  /\ conn = "connecting"
  /\ conn' = "connected"
  /\ out_stream' = Frame(Connect)
  /\ UNCHANGED <<attempt, incoming, closed, callVars, in_stream,
                 seen, history>>

\* Refused or timed out: the thread sleeps.
ConnectRefused ==
  /\ conn = "connecting"
  /\ conn' = "sleeping"
  /\ UNCHANGED <<attempt, incoming, closed, callVars, out_stream, in_stream,
                 seen, history>>

\* Mutant: the loop does not count.
RetryUncounted ==
  /\ conn = "sleeping"
  /\ conn' = "connecting"
  /\ UNCHANGED <<attempt, incoming, closed, callVars, out_stream, in_stream,
                 seen, history>>

\* Mutant: one attempt too many.
RetryOnceMore ==
  /\ conn = "sleeping"
  /\ attempt' = attempt + 1
  /\ conn' = IF attempt' > CONN_RETRIES + 1 THEN "exited" ELSE "connecting"
  /\ UNCHANGED <<incoming, closed, callVars, out_stream, in_stream,
                 seen, history>>

\* Another attempt, or the end of the process.
Retry ==
  /\ conn = "sleeping"
  /\ attempt' = attempt + 1
  /\ conn' = IF attempt' > CONN_RETRIES THEN "exited" ELSE "connecting"
  /\ UNCHANGED <<incoming, closed, callVars, out_stream, in_stream,
                 seen, history>>

\* connect returned, but the constructor's send throws, with a part of the
\* message written or none.
ConnectSendFails ==
  /\ conn = "connecting"
  /\ conn' = "threw"
  /\ \E n \in 0 .. 1 : out_stream' = SubSeq(Frame(Connect), 1, n)
  /\ UNCHANGED <<attempt, incoming, closed, callVars, in_stream,
                 seen, history>>

ConnectError ==
  /\ conn = "connecting"
  /\ conn' = "threw"
  /\ UNCHANGED <<attempt, incoming, closed, callVars, out_stream, in_stream,
                 seen, history>>

------------------------------------------------------------------------------
(* setup_incoming, once.                                                   *)

\* expires_at cancels the waits for the timer with operation_aborted.
SetupExpires ==
  /\ conn = "connected"
  /\ incoming = "none"
  /\ incoming' = "expired"
  /\ pc' = [c \in Callers |->
              IF pc[c] = "await_ready" THEN "aborted" ELSE pc[c]]
  /\ UNCHANGED <<conn, attempt, closed, to_write, header, call, answers,
                 out_stream, in_stream, seen, history>>

SetupMoves ==
  /\ incoming = "expired"
  /\ incoming' = "set"
  /\ UNCHANGED <<conn, attempt, closed, callVars, out_stream, in_stream,
                 seen, history>>

------------------------------------------------------------------------------
(* send_receive.                                                           *)

EnterPc(c, p) == pc' = [pc EXCEPT ![c] = p]
Sent(c) == Calls[c][call[c]]

\* The call ends; the caller may make its next one.
Return(c, response) ==
  /\ EnterPc(c, "idle")
  /\ call' = [call EXCEPT ![c] = @ + 1]
  /\ answers' = [answers EXCEPT ![c] =
                   Append(@, [sent |-> Sent(c), response |-> response])]

Throw(c) ==
  /\ EnterPc(c, "idle")
  /\ call' = [call EXCEPT ![c] = @ + 1]
  /\ UNCHANGED answers

CanCall(c) == conn = "connected" /\ pc[c] = "idle" /\ call[c] <= Len(Calls[c])

Send(c) ==
  /\ CanCall(c)
  /\ Sent(c) \notin Oversized
  /\ to_write' = [to_write EXCEPT ![c] = Frame(Sent(c))]
  /\ EnterPc(c, "writing")
  /\ overlapped' = (overlapped \/ \E d \in Callers \ {c} : pc[d] # "idle")
  /\ UNCHANGED <<connVars, header, call, answers, out_stream, in_stream, seen,
                 dropped>>

\* Mutant: the size is looked at when the message is out.
OversizedGoesOut(c) ==
  /\ CanCall(c)
  /\ Sent(c) \in Oversized
  /\ out_stream' = out_stream \o Frame(Sent(c))
  /\ Throw(c)
  /\ UNCHANGED <<connVars, to_write, header, in_stream, seen, history>>

SendOversized(c) ==
  /\ CanCall(c)
  /\ Sent(c) \in Oversized
  /\ Throw(c)
  /\ UNCHANGED <<connVars, to_write, header, out_stream, in_stream,
                 seen, history>>

\* write_some passes on a part of the frame; after the last, receive begins.
\* It looks at in_socket and waits for ready, which may have expired already.
WriteSome(c) ==
  /\ pc[c] = "writing"
  /\ ~closed
  /\ out_stream' = Append(out_stream, Head(to_write[c]))
  /\ to_write' = [to_write EXCEPT ![c] = Tail(@)]
  /\ EnterPc(c, IF to_write'[c] # <<>> THEN "writing"
                ELSE IF incoming = "none" THEN "await_ready" ELSE "read_len")
  /\ UNCHANGED <<connVars, header, call, answers, in_stream, seen, history>>

\* async_read through in_socket, which must be there.
ReadLen(c) ==
  /\ pc[c] = "read_len"
  /\ incoming = "set"
  /\ in_stream # <<>>
  /\ header' = [header EXCEPT ![c] = Head(in_stream)]
  /\ in_stream' = Tail(in_stream)
  /\ EnterPc(c, "read_payload")
  /\ UNCHANGED <<connVars, to_write, call, answers, out_stream,
                 seen, history>>

\* It is not: ready expired before in_socket was moved there.
ReadNull(c) ==
  /\ pc[c] = "read_len"
  /\ incoming # "set"
  /\ EnterPc(c, "crashed")
  /\ UNCHANGED <<connVars, to_write, header, call, answers, out_stream,
                 in_stream, seen, history>>

\* JSONMessage::parse throws on anything but the text of a message.
ReadPayload(c) ==
  /\ pc[c] = "read_payload"
  /\ in_stream # <<>>
  /\ LET response == Parsed(header[c], Head(in_stream)) IN
       \/ response # Garbage /\ Return(c, response) /\ UNCHANGED dropped
       \/ response = Garbage /\ Throw(c) /\ dropped' = TRUE
  /\ in_stream' = Tail(in_stream)
  /\ UNCHANGED <<connVars, to_write, header, out_stream, seen, overlapped>>

\* receive throws: the wait was cancelled, or the connection is gone.
Fail(c) ==
  /\ \/ pc[c] = "aborted"
     \/ pc[c] = "writing" /\ closed
     \/ pc[c] \in {"read_len", "read_payload"} /\ closed /\ in_stream = <<>>
  /\ Throw(c)
  /\ dropped' = TRUE
  /\ UNCHANGED <<connVars, to_write, header, out_stream, in_stream, seen,
                 overlapped>>

------------------------------------------------------------------------------
(* The other side.                                                         *)

\* A frame is read, and answered unless it is the constructor's or garbage.
Respond ==
  /\ ~closed
  /\ Len(out_stream) >= 2
  /\ LET m == Parsed(out_stream[1], out_stream[2]) IN
       /\ seen' = Append(seen, m)
       /\ in_stream' = in_stream \o
            IF m \in {Connect, Garbage} THEN <<>> ELSE Frame(m)
  /\ out_stream' = SubSeq(out_stream, 3, Len(out_stream))
  /\ UNCHANGED <<connVars, callVars, history>>

\* Its Peer object is destroyed and shuts both sockets down.
Close ==
  /\ conn = "connected"
  /\ ~closed
  /\ closed' = TRUE
  /\ UNCHANGED <<conn, attempt, incoming, callVars, out_stream, in_stream,
                 seen, history>>

Construct ==
  ConnectOk \/ ConnectSendFails \/ ConnectRefused \/ Retry \/ ConnectError

CallStep(c) ==
  \/ Send(c) \/ SendOversized(c) \/ WriteSome(c) \/ ReadLen(c) \/ ReadNull(c)
  \/ ReadPayload(c) \/ Fail(c)

Next ==
  \/ Construct \/ SetupExpires \/ SetupMoves \/ Respond \/ Close
  \/ \E c \in Callers : CallStep(c)

Spec == Init /\ [][Next]_vars

\* boost::asio::connect returns or throws, by the timeouts of TCP.
FairSpec == Spec /\ WF_vars(Construct)

------------------------------------------------------------------------------
(* Properties                                                              *)

PeerTypeOK ==
  /\ conn \in {"connecting", "sleeping", "connected", "threw", "exited"}
  /\ attempt \in 1 .. CONN_RETRIES + 1
  /\ incoming \in {"none", "expired", "set"}
  /\ \A c \in Callers : call[c] \in 1 .. Len(Calls[c]) + 1
  /\ \A c \in Callers : pc[c] = "writing" => to_write[c] # <<>>

\* As long as callers take turns and no call has failed, every call returns
\* the response to its own message, whichever coroutine it runs in, although
\* nothing in a response says which message it answers, frames travel in parts
\* and a message may be refused for its size (send_receive).
ResponsesMatch ==
  ~overlapped /\ ~dropped =>
    \A c \in Callers : \A i \in DOMAIN answers[c] :
      answers[c][i].response = answers[c][i].sent

\* The constructor does not try for ever: it returns, throws or ends the
\* process.
ConstructionEnds == <>(conn \in {"connected", "threw", "exited"})

------------------------------------------------------------------------------
(* What the documentation says, and the code does not do.                  *)

\* "This function is asynchronous but thread-safe" (Peer.h): the other side
\* reads the messages that were sent, whoever sends at the same time.
FramesIntact == \A i \in DOMAIN seen : seen[i] # Garbage

\* "sends a message and returns the response to the message" (Peer.h), in
\* whatever way earlier calls ended.
OwnResponse ==
  \A c \in Callers : \A i \in DOMAIN answers[c] :
    answers[c][i].response = answers[c][i].sent
==============================================================================
