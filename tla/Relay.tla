------------------------------- MODULE Relay -------------------------------
(***************************************************************************)
(* The LiteWing relay: the ground unit's USB serial port on one side, the  *)
(* bridge's live-feed datagrams on the other (cmd/litewing-relay/main.go,  *)
(* serial_linux.go, pkg/litewing/sample.go).  The board prints its samples *)
(* among its own log lines; it may be reset in the middle of a line, its   *)
(* line ends may be lost on the cable, and the device may vanish and come  *)
(* back at any byte.  A read returns any part of what has arrived.         *)
(*                                                                         *)
(* A line is a sequence of pieces: a sample is its first half, with the    *)
(* prefix, and its second half; a log line is one piece of text.  Two      *)
(* halves of DIFFERENT samples look exactly like one sample, which is why  *)
(* the relay may never glue what it did not read in one go.                *)
(***************************************************************************)
EXTENDS Integers, Sequences

CONSTANTS
    MaxLine,    \* pieces a line may have before it is noise
    MaxLines,   \* bound: lines the board prints
    MaxDrops,   \* bound: line ends the cable loses
    MaxResets,  \* bound: resets of the board
    MaxLosses   \* bound: times the device vanishes

\* What the constants are; a module that instantiates this one assumes it.
RelayAssumption ==
    /\ {MaxLine, MaxLines, MaxDrops, MaxResets, MaxLosses} \subseteq Nat
    /\ MaxLine >= 2

VARIABLES
    board,      \* what is left of the line being printed, and the bounds used up
    plugged,    \* the device exists
    tty,        \* pieces that arrived and were not read
    relay,      \* what the relay is doing
    cancelled,  \* its context has ended
    dead,       \* the open descriptor can only fail: closed, or its device gone
    chunk,      \* what the last read returned, less what was handled
    line,       \* the line being put together
    discarding, \* inside a line already known to be too long
    heard,      \* history: everything read since the port was opened
    sends       \* history: payloads handed to the socket since then

vars == <<board, plugged, tty, relay, cancelled, dead, chunk, line, discarding,
          heard, sends>>
reading == <<chunk, line, discarding, heard, sends>>

Piece(n, part) == [of |-> n, part |-> part]
IsEnd(p) == p.part = "end"

\* The pieces of line n: a sample, or a line of the board's own log.
Sample(n)  == <<Piece(n, "head"), Piece(n, "tail"), Piece(n, "end")>>
LogLine(n) == <<Piece(n, "text"), Piece(n, "end")>>

TypeOK ==
    /\ board \in [left : {<<>>} \cup {SubSeq(Sample(n), k, 3) : n \in 1..MaxLines, k \in 1..3}
                          \cup {SubSeq(LogLine(n), k, 2) : n \in 1..MaxLines, k \in 1..2},
                  lines : 0..MaxLines, drops : 0..MaxDrops,
                  resets : 0..MaxResets, losses : 0..MaxLosses]
    /\ {plugged, cancelled, dead, discarding} \subseteq BOOLEAN
    /\ relay \in {"opening", "pumping", "asleep", "stopped"}
    /\ \A s \in {tty, chunk, heard, line} \cup {sends[k] : k \in DOMAIN sends} :
          \A k \in DOMAIN s : s[k].of \in 1..MaxLines
                               /\ s[k].part \in {"head", "tail", "text", "end"}
    /\ Len(line) <= MaxLine

---------------------------------------------------------------------------
(* pkg/litewing                                                            *)

IsLine(l) == l # <<>> /\ Head(l).part = "head"

\* The shape is all Parse can see: the halves of two samples pass as one.
Parses(l) == Len(l) <= MaxLine /\ [k \in DOMAIN l |-> l[k].part] = <<"head", "tail">>

---------------------------------------------------------------------------
(* The board, the cable and the device (esp/esp.ino, the kernel)           *)

\* What the board prints reaches an open port; nobody keeps it for a closed
\* one.
Arrives(p) == tty' = IF relay = "pumping" /\ ~dead THEN Append(tty, p) ELSE tty

StartLine ==
    /\ board.left = <<>> /\ board.lines < MaxLines
    /\ \E l \in {Sample(board.lines + 1), LogLine(board.lines + 1)} :
          board' = [board EXCEPT !.left = l, !.lines = @ + 1]
    /\ UNCHANGED <<plugged, tty, relay, cancelled, dead, reading>>

Emit ==
    /\ board.left # <<>>
    /\ Arrives(Head(board.left))
    /\ board' = [board EXCEPT !.left = Tail(@)]
    /\ UNCHANGED <<plugged, relay, cancelled, dead, reading>>

DropEnd ==
    /\ board.left # <<>> /\ IsEnd(Head(board.left)) /\ board.drops < MaxDrops
    /\ board' = [board EXCEPT !.left = Tail(@), !.drops = @ + 1]
    /\ UNCHANGED <<plugged, tty, relay, cancelled, dead, reading>>

\* A reset leaves the line where it was and starts with the boot log.
Reset ==
    /\ board.left # <<>> /\ board.resets < MaxResets
    /\ board' = [board EXCEPT !.left = LogLine(Head(@).of), !.resets = @ + 1]
    /\ UNCHANGED <<plugged, tty, relay, cancelled, dead, reading>>

Vanish ==
    /\ plugged /\ board.losses < MaxLosses
    /\ plugged' = FALSE /\ tty' = <<>>
    /\ dead' = (dead \/ relay = "pumping")
    /\ board' = [board EXCEPT !.losses = @ + 1]
    /\ UNCHANGED <<relay, cancelled, reading>>

Appear ==
    /\ ~plugged
    /\ plugged' = TRUE
    /\ UNCHANGED <<board, tty, relay, cancelled, dead, reading>>

---------------------------------------------------------------------------
(* run: open, pump until the port fails, sleep, open again                 *)

\* Mutant: the half-read line survives the port it came from.
OpensWithLine ==
    /\ relay = "opening"
    /\ IF cancelled THEN relay' = "stopped" /\ UNCHANGED <<tty, dead, reading>>
       ELSE IF ~plugged THEN relay' = "asleep" /\ UNCHANGED <<tty, dead, reading>>
       ELSE /\ relay' = "pumping" /\ tty' = <<>> /\ dead' = FALSE
            /\ chunk' = <<>> /\ discarding' = FALSE
            /\ heard' = <<>> /\ sends' = <<>>
            /\ UNCHANGED line
    /\ UNCHANGED <<board, plugged, cancelled>>

Open ==
    /\ relay = "opening"
    /\ IF cancelled THEN relay' = "stopped" /\ UNCHANGED <<tty, dead, reading>>
       ELSE IF ~plugged THEN relay' = "asleep" /\ UNCHANGED <<tty, dead, reading>>
       ELSE /\ relay' = "pumping" /\ tty' = <<>> /\ dead' = FALSE
            /\ chunk' = <<>> /\ line' = <<>> /\ discarding' = FALSE
            /\ heard' = <<>> /\ sends' = <<>>
    /\ UNCHANGED <<board, plugged, cancelled>>

\* sleep: the timer, or the end of the context.
Wake ==
    /\ relay = "asleep"
    /\ relay' = IF cancelled THEN "stopped" ELSE "opening"
    /\ UNCHANGED <<board, plugged, tty, cancelled, dead, reading>>

Cancel ==
    /\ ~cancelled
    /\ cancelled' = TRUE
    /\ UNCHANGED <<board, plugged, tty, relay, dead, reading>>

\* Mutant: nobody closes the port, and the reader waits for a quiet board.
LeavesPort == FALSE /\ UNCHANGED vars

\* The goroutine beside the pump: a read blocked on a quiet port ends because
\* the port is closed under it.
ClosePort ==
    /\ relay = "pumping" /\ cancelled /\ ~dead
    /\ dead' = TRUE
    /\ UNCHANGED <<board, plugged, tty, relay, cancelled, reading>>

---------------------------------------------------------------------------
(* pump                                                                    *)

Read ==
    /\ relay = "pumping" /\ chunk = <<>> /\ ~dead
    /\ \E k \in 1..Len(tty) :
          /\ chunk' = SubSeq(tty, 1, k)
          /\ tty' = SubSeq(tty, k + 1, Len(tty))
          /\ heard' = heard \o SubSeq(tty, 1, k)
    /\ UNCHANGED <<board, plugged, relay, cancelled, dead, line, discarding, sends>>

\* The read fails: the port was closed under it, or its device is gone, even
\* if the device is back by now.
ReadFails ==
    /\ relay = "pumping" /\ chunk = <<>> /\ dead
    /\ relay' = IF cancelled THEN "stopped" ELSE "asleep"
    /\ UNCHANGED <<board, plugged, tty, cancelled, dead, reading>>

HandleLine(l) == sends' = IF IsLine(l) /\ Parses(l) THEN Append(sends, l) ELSE sends

EndAt == CHOOSE k \in DOMAIN chunk :
            IsEnd(chunk[k]) /\ \A j \in 1..(k - 1) : ~IsEnd(chunk[j])

LineEnds ==
    /\ relay = "pumping"
    /\ \E k \in DOMAIN chunk : IsEnd(chunk[k])
    /\ IF discarding THEN UNCHANGED sends
       ELSE HandleLine(line \o SubSeq(chunk, 1, EndAt - 1))
    /\ discarding' = FALSE
    /\ line' = <<>>
    /\ chunk' = SubSeq(chunk, EndAt + 1, Len(chunk))
    /\ UNCHANGED <<board, plugged, tty, relay, cancelled, dead, heard>>

LineGrows ==
    /\ relay = "pumping"
    /\ chunk # <<>> /\ \A k \in DOMAIN chunk : ~IsEnd(chunk[k])
    /\ IF discarding THEN UNCHANGED <<line, discarding>>
       ELSE LET longer == line \o chunk
            IN  /\ discarding' = (Len(longer) > MaxLine)
                /\ line' = IF Len(longer) > MaxLine THEN <<>> ELSE longer
    /\ chunk' = <<>>
    /\ UNCHANGED <<board, plugged, tty, relay, cancelled, dead, heard, sends>>

---------------------------------------------------------------------------

Fresh ==
    /\ board = [left |-> <<>>, lines |-> 0, drops |-> 0, resets |-> 0, losses |-> 0]
    /\ tty = <<>>
    /\ cancelled = FALSE /\ dead = FALSE
    /\ chunk = <<>> /\ line = <<>> /\ discarding = FALSE
    /\ heard = <<>> /\ sends = <<>>

Init == Fresh /\ relay = "opening" /\ plugged \in BOOLEAN

\* A relay that has ended, which nothing starts again.
Ended == Fresh /\ relay = "stopped" /\ plugged = FALSE

World == StartLine \/ Emit \/ DropEnd \/ Reset \/ Vanish \/ Appear \/ Cancel
Works == Open \/ Wake \/ ClosePort \/ Read \/ ReadFails \/ LineEnds \/ LineGrows

Next == World \/ Works

\* The relay's goroutines run; the board need not print another byte.
Fairness == WF_vars(Open) /\ WF_vars(Wake) /\ WF_vars(ClosePort)
            /\ WF_vars(ReadFails) /\ WF_vars(LineEnds) /\ WF_vars(LineGrows)

Spec == Init /\ [][Next]_vars /\ Fairness

---------------------------------------------------------------------------
(* What the relay promises                                                 *)

\* The samples among the lines that end in a text, however it was cut when it was
\* read, and the line that has not ended.
Taken(a, p) ==
    IF ~IsEnd(p) THEN [sent |-> a.sent, open |-> Append(a.open, p)]
    ELSE [sent |-> IF IsLine(a.open) /\ Parses(a.open) THEN Append(a.sent, a.open)
                   ELSE a.sent,
          open |-> <<>>]

Told(text) ==
    LET at[k \in 0..Len(text)] ==
          IF k = 0 THEN [sent |-> <<>>, open |-> <<>>] ELSE Taken(at[k - 1], text[k])
    IN  at[Len(text)]

\* Every payload is one sample as the board printed it, never the beginning of
\* one glued to the end of another (sample.go: "a garbled serial line can never
\* become a number on a ground station"), although the shape of two halves
\* would pass every test the relay makes.
OnlyWholeSamples ==
    \A k \in DOMAIN sends : \E n \in 1..MaxLines : sends[k] \o <<Piece(n, "end")>> = Sample(n)

\* What is forwarded does not depend on how the reads were cut, on noise and
\* over-long lines before it, or on anything heard over an earlier port: it is
\* exactly the samples among the lines read since the port was opened.
ForwardsWhatItHeard ==
    sends = Told(SubSeq(heard, 1, Len(heard) - Len(chunk))).sent

\* A cancelled relay ends, from any point and although the board may never
\* print again (main.go: "A read blocked on a quiet port is ended by closing the
\* port when ctx is cancelled").
RelayEnds == cancelled ~> relay = "stopped"
=============================================================================
