------------------------------ MODULE Connection ------------------------------
(***************************************************************************)
(* One node's link to one peer, seen from the sending side (network/       *)
(* conn.go, and what registry.go and pool.go do to a Conn): senders on     *)
(* arbitrary goroutines, the writer and the reader of each connection, the *)
(* goroutine that replaces connection 1 by connection 2 and moves what 1   *)
(* had not sent, and the shutdown that queues LEAVE and closes the pool.   *)
(* Who wins a tie-break and what the consumer is told is PoolRegistry's.   *)
(***************************************************************************)
EXTENDS Integers, Sequences, FiniteSets, SequencesExt

CONSTANTS Ctrl, Data,    \* frames of the two planes, each sent at most once
          Leave,         \* the control frame of the shutdown
          Depth,         \* CtrlDepth and DataDepth
          MaxFaults,     \* bound on broken connections
          MaxLoad        \* bound on those and data frames together

\* What the constants are; a module that instantiates this one assumes it.
ConnectionAssumption ==
  /\ IsFiniteSet(Ctrl) /\ IsFiniteSet(Data) /\ Ctrl \cap Data = {}
  /\ Leave \in Ctrl
  /\ Depth \in Nat \ {0} /\ {MaxFaults, MaxLoad} \subseteq Nat

Frame == Ctrl \cup Data
Conn == {1, 2}
NoConn == 0

VARIABLES current,   \* the connection of Pool.peers[to], NoConn when it has no entry
          ctrl,      \* ctrl[c], data[c]: the two send queues
          data,
          done,      \* the connections whose done channel is closed
          writer,    \* writer[c]: where writeLoop is
          hand,      \* hand[c]: the frame it has dequeued, as a set
          call,      \* call[f]: where the Send of f is, and on which connection
          mover,     \* where the goroutine in register is
          moving,    \* what drainUnsent returned and is still to be sent again
          stage,     \* the process: running, leaving, closed
          owed,      \* history: control frames accepted before the end and not written
          refused,   \* history: frames the winner did not take
          overtook,  \* history: data frames taken while f waited in its queue
          faults

swap == <<mover, moving, refused>>
vars == <<current, ctrl, data, done, writer, hand, call, swap, stage,
          owed, overtook, faults>>

Init ==
  /\ current = 1
  /\ ctrl = [c \in Conn |-> <<>>] /\ data = [c \in Conn |-> <<>>]
  /\ done = {}
  /\ writer = [c \in Conn |-> IF c = 1 THEN "top" ELSE "none"]
  /\ hand = [c \in Conn |-> {}]
  /\ call = [f \in Frame |-> <<"idle", NoConn>>]
  /\ mover = "idle" /\ moving = <<>> /\ refused = {}
  /\ stage = "running"
  /\ owed = {}
  /\ overtook = [f \in Ctrl |-> 0]
  /\ faults = 0

Load == faults + Cardinality({f \in Data : call[f][1] # "idle"})
Fault == faults < MaxFaults /\ Load < MaxLoad /\ faults' = faults + 1

-----------------------------------------------------------------------------
\* Send.

At(f, c) == call[f] = <<"offer", c>>
Full(q) == Len(q) = Depth
Returns(f) == call' = [call EXCEPT ![f] = <<"over", NoConn>>]

\* Pool.Send looks the entry up under mu; Conn.Send then checks for closure.
Send(f) ==
  /\ call[f][1] = "idle"
  /\ f = Leave => stage = "leaving"
  /\ f \in Data => Load < MaxLoad
  /\ IF current \in done \cup {NoConn} THEN Returns(f)
     ELSE call' = [call EXCEPT ![f] = <<"offer", current>>]
  /\ UNCHANGED <<current, ctrl, data, done, writer, hand, swap, stage,
                 owed, overtook, faults>>

\* The select: into the queue of its plane.  The connection may have closed since the
\* check; Go then chooses either case.
EnqueueCtrl(f, c) ==
  /\ f \in Ctrl /\ At(f, c) /\ ~Full(ctrl[c])
  /\ ctrl' = [ctrl EXCEPT ![c] = Append(@, f)]
  /\ owed' = IF c \in done THEN owed ELSE owed \cup {f}
  /\ Returns(f)
  /\ UNCHANGED <<current, data, done, writer, hand, swap, stage,
                 overtook, faults>>

EnqueueData(f, c) ==
  /\ f \in Data /\ At(f, c) /\ ~Full(data[c])
  /\ data' = [data EXCEPT ![c] = Append(@, f)]
  /\ Returns(f)
  /\ UNCHANGED <<current, ctrl, done, writer, hand, swap, stage,
                 owed, overtook, faults>>

\* Data is shed rather than kept waiting; control waits for CtrlSendTimeout, or for
\* the end of its context; both notice a closed connection.
Refuse(f, c) ==
  /\ At(f, c)
  /\ \/ c \in done
     \/ f \in Data /\ Full(data[c])
     \/ f \in Ctrl /\ Full(ctrl[c])
  /\ Returns(f)
  /\ UNCHANGED <<current, ctrl, data, done, writer, hand, swap, stage,
                 owed, overtook, faults>>

-----------------------------------------------------------------------------
\* writeLoop: look at done, then try ctrl alone, then wait for either queue or done.

Step(c, to) == writer' = [writer EXCEPT ![c] = to]

Dequeue(c, q) ==
  /\ hand' = [hand EXCEPT ![c] = {Head(q)}]
  /\ Step(c, "write")

TakeCtrl(c) ==
  /\ ctrl[c] # <<>> /\ Dequeue(c, ctrl[c])
  /\ ctrl' = [ctrl EXCEPT ![c] = Tail(@)]
  /\ overtook' = [overtook EXCEPT ![Head(ctrl[c])] = 0]
  /\ UNCHANGED data

TakeData(c) ==
  /\ data[c] # <<>> /\ Dequeue(c, data[c])
  /\ data' = [data EXCEPT ![c] = Tail(@)]
  /\ overtook' = [f \in Ctrl |-> overtook[f] + IF Contains(ctrl[c], f) THEN 1 ELSE 0]
  /\ UNCHANGED ctrl

Nothing == UNCHANGED <<ctrl, data, hand, overtook>>

Choose(c) ==
  \/ writer[c] = "top" /\ c \in done /\ Step(c, "exited") /\ Nothing
  \/ writer[c] = "top" /\ c \notin done /\ TakeCtrl(c)
  \/ writer[c] = "top" /\ c \notin done /\ ctrl[c] = <<>> /\ Step(c, "select") /\ Nothing
  \/ writer[c] = "select" /\ (TakeCtrl(c) \/ TakeData(c))
  \/ writer[c] = "select" /\ c \in done /\ Step(c, "exited") /\ Nothing

WriteLoop(c) ==
  /\ Choose(c)
  /\ UNCHANGED <<current, done, call, swap, stage, owed, faults>>

Write(c) ==
  /\ writer[c] = "write" /\ c \notin done
  /\ owed' = owed \ hand[c]
  /\ hand' = [hand EXCEPT ![c] = {}]
  /\ Step(c, "top")
  /\ UNCHANGED <<current, ctrl, data, done, call, swap, stage, overtook,
                 faults>>

\* The socket was closed under the writer, or (a fault) the write fails or times out:
\* closeWith, which does nothing the second time.
WriteFails(c) ==
  /\ writer[c] = "write"
  /\ IF c \in done THEN UNCHANGED faults ELSE Fault
  /\ done' = done \cup {c}
  /\ hand' = [hand EXCEPT ![c] = {}]
  /\ Step(c, "exited")
  /\ UNCHANGED <<current, ctrl, data, call, swap, stage,
                 owed, overtook>>

-----------------------------------------------------------------------------
\* readLoop, and the pool's watcher.

\* The peer hangs up, dies, falls silent or sends nonsense: the reader closes the
\* connection.
ReadFails(c) ==
  /\ writer[c] # "none" /\ c \notin done /\ Fault
  /\ done' = done \cup {c}
  /\ UNCHANGED <<current, ctrl, data, writer, hand, call, swap, stage, owed,
                 overtook>>

\* watch: an entry whose connection ended leaves the map.
Watch ==
  /\ current \in done
  /\ current' = NoConn
  /\ UNCHANGED <<ctrl, data, done, writer, hand, call, swap, stage,
                 owed, overtook, faults>>

-----------------------------------------------------------------------------
\* register: connection 2 takes the entry under mu.  The rest happens outside it: close
\* the loser, wait for its writer, move its control frames, one Send each.

Register ==
  /\ writer[2] = "none" /\ stage # "closed"
  /\ current' = 2
  /\ writer' = [writer EXCEPT ![2] = "top"]
  /\ mover' = IF current = 1 THEN "close" ELSE "send"
  /\ UNCHANGED <<ctrl, data, done, hand, call, moving, refused, stage, owed,
                 overtook, faults>>

\* Both queues are drained; the data frames among them are not sent again.
Unsent == ctrl[1]
Emptied(queue) == [queue EXCEPT ![1] = <<>>]

CloseAndWait ==
  /\ mover = "close" /\ mover' = "drain"
  /\ done' = done \cup {1}
  /\ UNCHANGED <<ctrl, data, moving>>

\* drainUnsent returns when the writer has exited.
Drain ==
  /\ mover = "drain" /\ writer[1] = "exited"
  /\ mover' = "send" /\ moving' = Unsent
  /\ ctrl' = Emptied(ctrl) /\ data' = Emptied(data)
  /\ UNCHANGED done

\* Mutant: what is unsent is collected before the connection is closed.
DrainThenClose ==
  \/ /\ mover = "close" /\ mover' = "drain" /\ moving' = Unsent
     /\ ctrl' = Emptied(ctrl) /\ data' = Emptied(data)
     /\ UNCHANGED done
  \/ /\ mover = "drain" /\ mover' = "send" /\ done' = done \cup {1}
     /\ UNCHANGED <<ctrl, data, moving>>

CloseThenDrain == CloseAndWait \/ Drain

Replace ==
  /\ CloseThenDrain
  /\ UNCHANGED <<current, writer, hand, call, refused, stage, owed,
                 overtook, faults>>

\* Send on the winner, which gives up after CtrlSendTimeout like any other.
Move ==
  /\ mover = "send" /\ moving # <<>>
  /\ moving' = Tail(moving)
  /\ \/ /\ ~Full(ctrl[2])
        /\ ctrl' = [ctrl EXCEPT ![2] = Append(@, Head(moving))]
        /\ overtook' = [overtook EXCEPT ![Head(moving)] = 0]
        /\ UNCHANGED refused
     \/ /\ Full(ctrl[2]) \/ 2 \in done
        /\ refused' = refused \cup {Head(moving)}
        /\ UNCHANGED <<ctrl, overtook>>
  /\ UNCHANGED <<current, data, done, writer, hand, call, mover, stage,
                 owed, faults>>

-----------------------------------------------------------------------------
\* Node.shutdown broadcasts LEAVE, which returns when it is queued or refused; app.run
\* then closes the pool, which closes the connections that are registered.

Shutdown ==
  /\ stage = "running" /\ stage' = "leaving"
  /\ UNCHANGED <<current, ctrl, data, done, writer, hand, call, swap,
                 owed, overtook, faults>>

\* Mutant: the connections are left to end by themselves.
LetLive == {}
Registered == {current} \ {NoConn}

PoolClose ==
  /\ stage = "leaving" /\ call[Leave][1] = "over"
  /\ stage' = "closed"
  /\ done' = done \cup Registered
  /\ UNCHANGED <<current, ctrl, data, writer, hand, call, swap, owed,
                 overtook, faults>>

-----------------------------------------------------------------------------
Next ==
  \/ \E f \in Frame : Send(f)
  \/ \E f \in Frame, c \in Conn : EnqueueCtrl(f, c) \/ EnqueueData(f, c) \/ Refuse(f, c)
  \/ \E c \in Conn : WriteLoop(c) \/ Write(c) \/ WriteFails(c)
  \/ \E c \in Conn : ReadFails(c)
  \/ Watch \/ Register \/ Replace \/ Move
  \/ Shutdown \/ PoolClose

Spec == Init /\ [][Next]_vars

-----------------------------------------------------------------------------
TypeOK ==
  /\ current \in Conn \cup {NoConn}
  /\ \A c \in Conn : /\ ctrl[c] \in Seq(Ctrl) /\ Len(ctrl[c]) <= Depth
                     /\ data[c] \in Seq(Data) /\ Len(data[c]) <= Depth
                     /\ hand[c] \subseteq Frame
  /\ done \subseteq Conn
  /\ writer \in [Conn -> {"none", "top", "select", "write", "exited"}]
  /\ call \in [Frame -> {"idle", "over"} \X {NoConn} \cup {"offer"} \X Conn]
  /\ mover \in {"idle", "close", "drain", "send"}
  /\ moving \in Seq(Ctrl)
  /\ stage \in {"running", "leaving", "closed"}
  /\ owed \cup refused \subseteq Ctrl
  /\ overtook \in [Ctrl -> Nat]
  /\ faults \in 0..MaxFaults

\* "A saturated data queue cannot delay a heartbeat" (conn.go, writeLoop): while a
\* control frame is queued, at most one data frame is taken before it, the one of a
\* select that found both queues ready at once.
NeverStuckBehindData == \A f \in Ctrl : overtook[f] <= 1

\* "A caller's frame is not silently lost in the swap" (conn.go, drainUnsent): of the
\* control frames accepted before the loser closed, only the one its writer had taken
\* is not with the winner; unless the winner ended or had no room for CtrlSendTimeout.
With(c) == Range(ctrl[c]) \cup hand[c]
Swapped == mover = "send" /\ 1 \in done /\ current = 2
SwapKeepsFrames ==
  Swapped /\ done = {1} /\ faults = 0 =>
    Cardinality(owed \ (With(2) \cup Range(moving) \cup refused)) <= 1

\* Every Send returns, and when the pool is closed both goroutines of every connection
\* and the one that moves frames end ("neither can leak", conn.go, Conn): as long as one
\* of them has not, one of them has a step to take.  Each has few left to take.
Returned == \A f \in Frame : call[f][1] # "offer"
Unwound ==
  /\ Returned
  /\ \A c \in Conn : writer[c] \in {"none", "exited"}
  /\ moving = <<>> /\ mover \in {"idle", "send"}
Unwinds ==
  \/ \E f \in Frame, c \in Conn : EnqueueCtrl(f, c) \/ EnqueueData(f, c) \/ Refuse(f, c)
  \/ \E c \in Conn : WriteLoop(c) \/ Write(c) \/ (WriteFails(c) /\ c \in done)
  \/ Replace \/ Move
ClosingEnds == stage = "closed" /\ ~Unwound => ENABLED Unwinds
=============================================================================
