------------------------------ MODULE DeviceChat -----------------------------
(***************************************************************************)
(* The device's side of a chat turn: send_current_input of main.cpp,       *)
(* chat_client::send and http_sse::post_sse.  The firmware runs one loop   *)
(* task, so a turn blocks everything else on the device until it returns.  *)
(*                                                                         *)
(* Time is counted in ticks (5 s on the device: read_line waits 10 s for   *)
(* the status line and for each header, 5 s for a body line, and the body  *)
(* may take 60 s in all).                                                  *)
(***************************************************************************)
EXTENDS ChatWire

CONSTANTS
  HeadTicks,    \* read_line timeout of the status line and the headers
  LineTicks,    \* read_line timeout of a body line
  OverallTicks, \* overall_timeout_ms
  LineCap       \* units of text that fit in line[512] after the JSON prefix

ASSUME TickAssumption ==
  /\ HeadTicks \in Nat \ {0} /\ LineTicks \in Nat \ {0}
  /\ OverallTicks \in Nat \ {0} /\ LineCap \in Nat \ {0}

VARIABLES
  history,  \* s_history of chat_client
  active,   \* s_active_profile
  pc,       \* where post_sse is; "idle" outside a turn
  turn,     \* sends so far, the number of the current connection
  code,     \* Result.status_code
  reply,    \* assistant_out: what on_delta has put on the screen this turn
  ended,    \* r.ok of the body loop: [DONE] was read
  status,   \* chat_view status after send_current_input
  wait,     \* ticks spent in the current read_line
  elapsed   \* ticks since the body loop's deadline was set

deviceVars == <<history, active, pc, turn, code, reply, ended, status, wait, elapsed>>

Reading == {"status", "headers", "line"}

DeviceTypeOK ==
  /\ history \in Seq(Message)
  /\ active  \in Profiles
  /\ pc      \in {"idle", "connect", "status", "headers", "body", "line"}
  /\ turn    \in 0..MaxTurns
  /\ pc # "idle" => turn \in Turns
  /\ code    \in Codes
  /\ reply   \in Text
  /\ ended   \in BOOLEAN
  /\ status  \in {"ready", "sending", "error"}
  /\ wait    \in Nat
  /\ elapsed \in Nat

DeviceInit ==
  /\ history = << >> /\ active \in Profiles /\ pc = "idle" /\ turn = 0
  /\ code = 200 /\ reply = << >> /\ ended = FALSE /\ status = "ready"
  /\ wait = 0 /\ elapsed = 0

----------------------------------------------------------------------------
(* How a turn ends.  post_sse's locals end with it.                        *)

Return ==
  /\ pc' = "idle" /\ code' = 200 /\ wait' = 0 /\ elapsed' = 0

\* Mutant: the pop_back is forgotten.
FailKeepsTurn == UNCHANGED history /\ Return /\ status' = "error"

\* post_sse returned !ok: the half-sent turn is popped and an error shown.
Fail ==
  /\ history' = SubSeq(history, 1, Len(history) - 1)
  /\ Return /\ status' = "error"

\* post_sse returned ok, with whatever text arrived.
Succeed ==
  /\ history' = Append(history, AssistantMessage(reply))
  /\ Return /\ status' = "ready"

\* cx.stop(): what was not read is gone.
CloseSocket ==
  /\ sock' = [sock EXCEPT ![turn] = "closed"]
  /\ wire' = [wire EXCEPT ![turn] = << >>]

----------------------------------------------------------------------------
(* A turn, step by step.                                                   *)

\* Mutant: assistant_out still holds the last turn's reply.
SendKeepsReply ==
  /\ pc = "idle" /\ turn < MaxTurns
  /\ turn' = turn + 1
  /\ history' = Append(history, UserMessage(turn + 1))
  /\ pc' = "connect" /\ status' = "sending" /\ ended' = FALSE
  /\ UNCHANGED <<active, code, reply, wait, elapsed, wireVars>>

\* The user presses Enter: push the user message and build the body.
Send ==
  /\ pc = "idle" /\ turn < MaxTurns
  /\ turn' = turn + 1
  /\ history' = Append(history, UserMessage(turn + 1))
  /\ pc' = "connect" /\ status' = "sending" /\ reply' = << >> /\ ended' = FALSE
  /\ UNCHANGED <<active, code, wait, elapsed, wireVars>>

\* cx.connect failed: "connect host:port failed".
ConnectFails ==
  /\ pc = "connect"
  /\ Fail
  /\ UNCHANGED <<active, turn, reply, ended, wireVars>>

\* Mutant: the body is built before the question is pushed.
ConnectStaleBody ==
  /\ pc = "connect"
  /\ sock'  = [sock EXCEPT ![turn] = "open"]
  /\ asked' = [asked EXCEPT ![turn] = SubSeq(history, 1, Len(history) - 1)]
  /\ via'   = [via EXCEPT ![turn] = active]
  /\ pc' = "status"
  /\ UNCHANGED <<history, active, turn, code, reply, ended, status, wait, elapsed, wire>>

\* Connected, and the request is written.
Connect ==
  /\ pc = "connect"
  /\ sock'  = [sock EXCEPT ![turn] = "open"]
  /\ asked' = [asked EXCEPT ![turn] = history]
  /\ via'   = [via EXCEPT ![turn] = active]
  /\ pc' = "status"
  /\ UNCHANGED <<history, active, turn, code, reply, ended, status, wait, elapsed, wire>>

\* read_line fails: its deadline has passed, or the peer is gone and
\* nothing is left to read.
NoLine(limit) ==
  \/ wait >= limit
  \/ sock[turn] = "eof" /\ wire[turn] = << >>

\* read_line succeeds with the oldest line.
HasLine(limit) == wait < limit /\ wire[turn] # << >>

Consume == wire' = [wire EXCEPT ![turn] = Tail(@)]

ReadStatus ==
  /\ pc = "status" /\ HasLine(HeadTicks)
  /\ code' = Head(wire[turn]).code
  /\ Consume
  /\ pc' = "headers" /\ wait' = 0
  /\ UNCHANGED <<history, active, turn, reply, ended, status, elapsed, sock, asked, via>>

NoStatusLine ==
  /\ pc = "status" /\ NoLine(HeadTicks)
  /\ Fail /\ CloseSocket
  /\ UNCHANGED <<active, turn, reply, ended, asked, via>>

\* The header loop is over: by the blank line, or because read_line failed.
\* Only the status code decides what happens next.  The header lines before
\* the blank one, each with a read_line of its own, are one step.
ReadHeaders ==
  /\ pc = "headers"
  /\ \/ HasLine(HeadTicks) /\ Head(wire[turn]).kind = "blank"
     \/ NoLine(HeadTicks)
  /\ IF code = 200
       THEN /\ IF HasLine(HeadTicks) THEN Consume ELSE UNCHANGED wire
            /\ pc' = "body" /\ wait' = 0 /\ elapsed' = 0
            /\ UNCHANGED <<history, code, status, sock>>
       ELSE Fail /\ CloseSocket
  /\ UNCHANGED <<active, turn, reply, ended, asked, via>>

\* Mutant: the overall deadline is forgotten.
BodyLoopForever ==
  /\ pc = "body"
  /\ pc' = "line" /\ wait' = 0
  /\ UNCHANGED <<history, active, turn, code, reply, ended, status, elapsed, wireVars>>

\* The head of the body loop: the overall deadline is looked at only here.
BodyLoop ==
  /\ pc = "body" /\ elapsed < OverallTicks
  /\ pc' = "line" /\ wait' = 0
  /\ UNCHANGED <<history, active, turn, code, reply, ended, status, elapsed, wireVars>>

\* Mutant: an answer without [DONE] is a failure.
FinishBodyStrict ==
  /\ IF ended' THEN Succeed ELSE Fail
  /\ CloseSocket
  /\ UNCHANGED <<active, turn, reply, asked, via>>

\* After the loop any 2xx answer counts as a success, [DONE] or not.
FinishBody ==
  /\ Succeed /\ CloseSocket
  /\ UNCHANGED <<active, turn, reply, asked, via>>

BodyDeadline == pc = "body" /\ elapsed >= OverallTicks /\ UNCHANGED ended /\ FinishBody

BodyQuiet == pc = "line" /\ NoLine(LineTicks) /\ UNCHANGED ended /\ FinishBody

ReadDone ==
  /\ pc = "line" /\ HasLine(LineTicks) /\ Head(wire[turn]).kind = "done"
  /\ ended' = TRUE
  /\ FinishBody

\* Mutant: a line that did not fit is read again from its beginning.
ReadDataAgain ==
  LET line == Head(wire[turn]) IN
  /\ pc = "line" /\ HasLine(LineTicks) /\ line.kind = "data"
  /\ reply' = reply \o Shown(turn, line, LineCap)
  /\ wire' = IF line.hi - line.lo + 1 > LineCap THEN wire ELSE [wire EXCEPT ![turn] = Tail(@)]
  /\ pc' = "body" /\ wait' = 0
  /\ UNCHANGED <<history, active, turn, code, ended, status, elapsed, sock, asked, via>>

\* A line longer than the buffer comes back in pieces; only the first
\* begins with "data: ".
ReadData ==
  LET line == Head(wire[turn])
      tail == IF line.hi - line.lo + 1 > LineCap THEN <<Other("rest")>> ELSE << >>
  IN
  /\ pc = "line" /\ HasLine(LineTicks) /\ line.kind = "data"
  /\ reply' = reply \o Shown(turn, line, LineCap)
  /\ wire' = [wire EXCEPT ![turn] = tail \o Tail(@)]
  /\ pc' = "body" /\ wait' = 0
  /\ UNCHANGED <<history, active, turn, code, ended, status, elapsed, sock, asked, via>>

SkipLine ==
  /\ pc = "line" /\ HasLine(LineTicks)
  /\ Head(wire[turn]).kind \in {"status", "blank", "rest"}
  /\ Consume
  /\ pc' = "body" /\ wait' = 0
  /\ UNCHANGED <<history, active, turn, code, reply, ended, status, elapsed, sock, asked, via>>

----------------------------------------------------------------------------
(* The rest of the device's world.                                         *)

\* A tick passes: inside read_line while no whole line has come, or while
\* the loop paints what the last line brought.
Tick ==
  LET limit == IF pc = "line" THEN LineTicks ELSE HeadTicks IN
  /\ \/ pc \in Reading /\ sock[turn] = "open" /\ wire[turn] = << >> /\ wait < limit
     \/ pc = "body" /\ elapsed < OverallTicks
  /\ wait'    = IF pc \in Reading THEN wait + 1 ELSE wait
  /\ elapsed' = IF pc \in {"body", "line"} THEN elapsed + 1 ELSE elapsed
  /\ UNCHANGED <<history, active, pc, turn, code, reply, ended, status, wireVars>>

\* open_picker; the conversation is kept across profiles.
PickProfile ==
  /\ pc = "idle"
  /\ \E p \in Profiles \ {active} : active' = p
  /\ UNCHANGED <<history, pc, turn, code, reply, ended, status, wait, elapsed, wireVars>>

\* The device loses power and boots: the conversation lives in RAM only.
Reboot ==
  /\ history # << >>
  /\ history' = << >> /\ Return /\ status' = "ready"
  /\ reply' = << >> /\ ended' = FALSE
  /\ IF pc \in {"status", "headers", "body", "line"} THEN CloseSocket ELSE UNCHANGED <<sock, wire>>
  /\ UNCHANGED <<active, turn, asked, via>>

TurnStep ==
  \/ ConnectFails \/ Connect
  \/ ReadStatus \/ NoStatusLine \/ ReadHeaders
  \/ BodyLoop \/ BodyDeadline \/ BodyQuiet \/ ReadDone \/ ReadData \/ SkipLine

DeviceNext == TurnStep \/ Tick \/ Send \/ PickProfile \/ Reboot
=============================================================================
