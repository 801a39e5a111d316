------------------------------- MODULE Intake -------------------------------
(***************************************************************************)
(* The Intake Server of ukabu-trackerd (pkg/socket/server.go) and the      *)
(* shutdown sequence of main.go that stops it.                             *)
(*                                                                         *)
(* Three kinds of actor interleave: the accept loop (Server.Start), one    *)
(* handler goroutine per accepted connection (handleConnection), and the   *)
(* main goroutine, which on a signal cancels the context, calls            *)
(* Server.Stop (close the listener, wg.Wait, remove the socket) and        *)
(* returns, ending the process.  Clients are the front-end's connections:  *)
(* they connect, write newline-terminated lines and hang up.               *)
(*                                                                         *)
(* A line is abstracted to its kind.  A request line (well-formed JSON of  *)
(* any type, or malformed JSON) gets one response; its handling, the call  *)
(* into the Strike Tracker included, is one step because it runs under the *)
(* Tracker's lock and touches no state of this module.  Empty lines are    *)
(* skipped; a line longer than bufio.Scanner's 64 KiB limit ends the scan. *)
(***************************************************************************)
EXTENDS Naturals, Sequences, FiniteSets

CONSTANTS
    Conn,        \* client connections
    LineKind,    \* kinds of line a client may write
    Valid,       \* a JSON message ("failure", "success" or another type)
    Malformed,   \* a line json.Unmarshal rejects
    Empty,       \* an empty line
    Oversized,   \* a line longer than bufio.MaxScanTokenSize
    MaxLines     \* model bound on the lines a client writes

ASSUME IntakeAssumption ==
    /\ IsFiniteSet(Conn)
    /\ LineKind \subseteq {Valid, Malformed, Empty, Oversized}
    /\ MaxLines \in Nat

(* The lines a handler answers. *)
Request == {Valid, Malformed}

(* Connection stages: not yet connected, in the listen backlog, returned *)
(* by Accept, served by a handler, closed by its handler, or reset when  *)
(* the listener closed with the connection still in the backlog.         *)
Stage == {"none", "backlog", "accepted", "open", "closed", "refused"}

VARIABLES
    mainPc,    \* main: "running", "cancelled", "waiting", "returning", "exited"
    acceptPc,  \* Start's loop: "top", "accept", "spawn", "returned"
    wg,        \* the counter of s.wg
    stage,     \* stage[c]
    sent,      \* sent[c]: the lines client c has written
    eof,       \* eof[c]: client c has hung up
    read,      \* read[c]: how many of those lines the scanner has consumed
    hold,      \* hold[c]: index of the request being handled, 0 if none
    resp       \* resp[c]: indices of the lines answered, in write order

vars == <<mainPc, acceptPc, wg, stage, sent, eof, read, hold, resp>>

(* The context is cancelled from the signal on; the listener is closed by  *)
(* Stop; when main has returned, no goroutine runs any more.               *)
CtxDone == mainPc # "running"
Listening == mainPc \in {"running", "cancelled"}
Alive == mainPc # "exited"

(* A client may write on a connection it has not hung up, until accepted  *)
(* and after.                                                              *)
Connected(c) == stage[c] \in {"backlog", "accepted", "open"}

Init ==
    /\ mainPc = "running"
    /\ acceptPc = "top"
    /\ wg = 0
    /\ stage = [c \in Conn |-> "none"]
    /\ sent = [c \in Conn |-> << >>]
    /\ eof = [c \in Conn |-> FALSE]
    /\ read = [c \in Conn |-> 0]
    /\ hold = [c \in Conn |-> 0]
    /\ resp = [c \in Conn |-> << >>]

-----------------------------------------------------------------------------
(* Clients. *)
Connect(c) ==
    /\ Alive /\ Listening
    /\ stage[c] = "none"
    /\ stage' = [stage EXCEPT ![c] = "backlog"]
    /\ UNCHANGED <<mainPc, acceptPc, wg, sent, eof, read, hold, resp>>

Send(c, k) ==
    /\ Alive /\ Connected(c) /\ ~eof[c]
    /\ Len(sent[c]) < MaxLines
    /\ sent' = [sent EXCEPT ![c] = Append(@, k)]
    /\ UNCHANGED <<mainPc, acceptPc, wg, stage, eof, read, hold, resp>>

HangUp(c) ==
    /\ Alive /\ Connected(c) /\ ~eof[c]
    /\ eof' = [eof EXCEPT ![c] = TRUE]
    /\ UNCHANGED <<mainPc, acceptPc, wg, stage, sent, read, hold, resp>>

-----------------------------------------------------------------------------
(* Server.Start's loop: the select on ctx.Done() with a default branch. *)
LoopTop ==
    /\ Alive /\ acceptPc = "top"
    /\ acceptPc' = IF CtxDone THEN "returned" ELSE "accept"
    /\ UNCHANGED <<mainPc, wg, stage, sent, eof, read, hold, resp>>

(* listener.Accept returns the next connection of the backlog. *)
Accept(c) ==
    /\ Alive /\ acceptPc = "accept" /\ Listening
    /\ stage[c] = "backlog"
    /\ stage' = [stage EXCEPT ![c] = "accepted"]
    /\ acceptPc' = "spawn"
    /\ UNCHANGED <<mainPc, wg, sent, eof, read, hold, resp>>

(* Accept fails on the closed listener: return if the context is done,     *)
(* else log and loop.                                                      *)
AcceptError ==
    /\ Alive /\ acceptPc = "accept" /\ ~Listening
    /\ acceptPc' = IF CtxDone THEN "returned" ELSE "top"
    /\ UNCHANGED <<mainPc, wg, stage, sent, eof, read, hold, resp>>

(* s.wg.Add(1); go s.handleConnection(conn) *)
Spawn(c) ==
    /\ Alive /\ acceptPc = "spawn"
    /\ stage[c] = "accepted"
    /\ wg' = wg + 1
    /\ stage' = [stage EXCEPT ![c] = "open"]
    /\ acceptPc' = "top"
    /\ UNCHANGED <<mainPc, sent, eof, read, hold, resp>>

-----------------------------------------------------------------------------
(* Mutant: the scan loop ends without the deferred s.wg.Done. *)
FinishNoDone(c) ==
    /\ stage' = [stage EXCEPT ![c] = "closed"]
    /\ wg' = wg

(* Mutant: an error path calls s.wg.Done besides the deferred one. *)
FinishDoneTwice(c) ==
    /\ stage' = [stage EXCEPT ![c] = "closed"]
    /\ wg' = wg - 2

(* handleConnection.  The deferred conn.Close and s.wg.Done run whenever   *)
(* the scan loop ends.                                                     *)
Finish(c) ==
    /\ stage' = [stage EXCEPT ![c] = "closed"]
    /\ wg' = wg - 1

(* scanner.Scan() returns the next line: an empty one is skipped, a       *)
(* request is taken into handling, an oversized one ends the scan with an  *)
(* error (logged), and the handler returns.                                *)
ScanLine(c) ==
    /\ Alive /\ stage[c] = "open" /\ hold[c] = 0
    /\ read[c] < Len(sent[c])
    /\ LET i == read[c] + 1
           k == sent[c][i]
       IN  IF k = Oversized
           THEN /\ Finish(c)
                /\ UNCHANGED <<read, hold>>
           ELSE /\ read' = [read EXCEPT ![c] = i]
                /\ hold' = [hold EXCEPT ![c] = IF k \in Request THEN i ELSE 0]
                /\ UNCHANGED <<stage, wg>>
    /\ UNCHANGED <<mainPc, acceptPc, sent, eof, resp>>

(* Mutant: the response is written but the request is kept in handling. *)
RespondKeepHold(c) ==
    /\ Alive /\ stage[c] = "open" /\ hold[c] # 0
    /\ resp' = [resp EXCEPT ![c] = Append(@, hold[c])]
    /\ UNCHANGED <<mainPc, acceptPc, wg, stage, sent, eof, read, hold>>

(* json.Unmarshal and handleMessage (or the "invalid JSON" answer), with   *)
(* the Tracker call and sendResponse: exactly one response is written.     *)
Respond(c) ==
    /\ Alive /\ stage[c] = "open" /\ hold[c] # 0
    /\ resp' = [resp EXCEPT ![c] = Append(@, hold[c])]
    /\ hold' = [hold EXCEPT ![c] = 0]
    /\ UNCHANGED <<mainPc, acceptPc, wg, stage, sent, eof, read>>

(* Mutant: the handler returns only once it has written a response per   *)
(* line read, blank lines included.                                        *)
EndOfStreamAllAnswered(c) ==
    /\ Alive /\ stage[c] = "open" /\ hold[c] = 0
    /\ read[c] = Len(sent[c]) /\ eof[c]
    /\ Len(resp[c]) = read[c]
    /\ Finish(c)
    /\ UNCHANGED <<mainPc, acceptPc, sent, eof, read, hold, resp>>

(* scanner.Scan() returns false at end of stream: the handler returns. *)
EndOfStream(c) ==
    /\ Alive /\ stage[c] = "open" /\ hold[c] = 0
    /\ read[c] = Len(sent[c]) /\ eof[c]
    /\ Finish(c)
    /\ UNCHANGED <<mainPc, acceptPc, sent, eof, read, hold, resp>>

-----------------------------------------------------------------------------
(* main: the signal arrives and cancel() runs. *)
Signal ==
    /\ mainPc = "running"
    /\ mainPc' = "cancelled"
    /\ UNCHANGED <<acceptPc, wg, stage, sent, eof, read, hold, resp>>

(* Stop: listener.Close(); connections still in the backlog are reset. *)
CloseListener ==
    /\ mainPc = "cancelled"
    /\ mainPc' = "waiting"
    /\ stage' = [c \in Conn |-> IF stage[c] = "backlog" THEN "refused" ELSE stage[c]]
    /\ UNCHANGED <<acceptPc, wg, sent, eof, read, hold, resp>>

(* Stop: s.wg.Wait() returns once the counter is zero. *)
WaitReturns ==
    /\ mainPc = "waiting" /\ wg = 0
    /\ mainPc' = "returning"
    /\ UNCHANGED <<acceptPc, wg, stage, sent, eof, read, hold, resp>>

(* os.Remove, the log line, main's return and its deferred calls; then the *)
(* process ends and every other goroutine with it.                         *)
Exit ==
    /\ mainPc = "returning"
    /\ mainPc' = "exited"
    /\ UNCHANGED <<acceptPc, wg, stage, sent, eof, read, hold, resp>>

-----------------------------------------------------------------------------
(* The daemon's own steps: goroutines the Go scheduler keeps running. *)
DaemonStep ==
    \/ LoopTop \/ AcceptError
    \/ \E c \in Conn : Accept(c) \/ Spawn(c)
    \/ \E c \in Conn : ScanLine(c) \/ Respond(c) \/ EndOfStream(c)
    \/ CloseListener \/ WaitReturns \/ Exit

Next ==
    \/ \E c \in Conn : Connect(c) \/ HangUp(c)
    \/ \E c \in Conn, k \in LineKind : Send(c, k)
    \/ Signal
    \/ DaemonStep

(* Every runnable goroutine of the daemon is scheduled.  Clients and the   *)
(* signal are the environment and get no fairness.                        *)
Fairness ==
    /\ WF_vars(LoopTop) /\ WF_vars(AcceptError)
    /\ \A c \in Conn :
          /\ WF_vars(Accept(c)) /\ WF_vars(Spawn(c))
          /\ WF_vars(ScanLine(c)) /\ WF_vars(Respond(c)) /\ WF_vars(EndOfStream(c))
    /\ WF_vars(CloseListener) /\ WF_vars(WaitReturns) /\ WF_vars(Exit)

Spec == Init /\ [][Next]_vars
FairSpec == Spec /\ Fairness

-----------------------------------------------------------------------------
(* Every variable has its type. *)
TypeOK ==
    /\ mainPc \in {"running", "cancelled", "waiting", "returning", "exited"}
    /\ acceptPc \in {"top", "accept", "spawn", "returned"}
    /\ wg \in Nat
    /\ stage \in [Conn -> Stage]
    /\ sent \in [Conn -> Seq(LineKind)]
    /\ eof \in [Conn -> BOOLEAN]
    /\ read \in [Conn -> Nat]
    /\ hold \in [Conn -> Nat]
    /\ resp \in [Conn -> Seq(Nat)]

(***************************************************************************)
(* s.wg counts exactly the connections whose handler has been spawned and *)
(* has not returned: Spawn's wg.Add and every exit path's deferred        *)
(* wg.Done balance, so the counter never goes negative (a panic) and      *)
(* Stop's wg.Wait cannot return while a counted handler still runs.       *)
(***************************************************************************)
WaitGroupAccounting ==
    wg = Cardinality({c \in Conn : stage[c] = "open"})

(***************************************************************************)
(* The spec's protocol round-trip (9, and 4.5): every request line gets    *)
(* exactly one response, in the order the lines were written; an empty    *)
(* line gets none; malformed JSON is answered and the connection is kept. *)
(* So the answered lines are, in increasing order, the requests read so   *)
(* far except the one in handling, and a connection its handler closed    *)
(* has had every request answered.                                         *)
(***************************************************************************)
Requests(c, n) == {i \in 1 .. n : sent[c][i] \in Request}
Answered(c) == {resp[c][j] : j \in 1 .. Len(resp[c])}

AnsweredInOrder ==
    \A c \in Conn :
        /\ \A j \in 1 .. Len(resp[c]) - 1 : resp[c][j] < resp[c][j + 1]
        /\ Answered(c) = Requests(c, read[c]) \ {hold[c]}
        /\ stage[c] = "closed" => Answered(c) = Requests(c, Len(sent[c]))

(***************************************************************************)
(* The spec (5, Cancellation): on shutdown the listener stops accepting,  *)
(* in-flight handlers are allowed to complete and only then does the      *)
(* process exit.  So when the process ends no connection has been         *)
(* accepted without its handler having returned.  It is about Start's     *)
(* wg.Add(1) racing Stop's wg.Wait().                                      *)
(***************************************************************************)
ExitDrainsHandlers ==
    mainPc = "exited" => \A c \in Conn : stage[c] \notin {"accepted", "open"}

(***************************************************************************)
(* The spec (5, Cancellation): after a shutdown signal the process exits. *)
(* It is about Stop's wg.Wait() waiting for handlers that only return at   *)
(* their client's end of stream.                                           *)
(***************************************************************************)
ShutdownCompletes ==
    (mainPc = "cancelled") ~> (mainPc = "exited")

(***************************************************************************)
(* Shutdown completes whenever the clients hang up: if eventually every    *)
(* connected client has hung up for good, a signal leads to the exit.  It  *)
(* is about every path out of handleConnection releasing s.wg and about   *)
(* the accept loop leaving once the listener is closed.                    *)
(***************************************************************************)
ClientsHungUp == \A c \in Conn : Connected(c) => eof[c]

ShutdownWhenClientsHangUp ==
    (<>[]ClientsHungUp) => ((mainPc = "cancelled") ~> (mainPc = "exited"))

=============================================================================
