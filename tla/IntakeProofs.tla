---------------------------- MODULE IntakeProofs ----------------------------
(***************************************************************************)
(* Proofs about the Intake Server, for every finite set of connections.   *)
(*                                                                         *)
(* The wait-group counter is Nat-valued only because it counts the open   *)
(* connections: Finish decrements it for a connection that is open, so    *)
(* the set it counts is not empty.  TypeOK and WaitGroupAccounting are    *)
(* therefore proved together as IInv.                                      *)
(***************************************************************************)
EXTENDS Intake, FiniteSetTheorems, TLAPS

USE IntakeAssumption

(* The connections a handler is serving. *)
OpenSet == {c \in Conn : stage[c] = "open"}

IInv == TypeOK /\ WaitGroupAccounting

LEMMA OpenSetFinite ==
    ASSUME TypeOK PROVE IsFiniteSet(OpenSet)
BY FS_Subset DEF OpenSet

(***************************************************************************)
(* A step that changes the stage of one connection c only, and neither    *)
(* from nor to "open", leaves the set of open connections as it was.      *)
(***************************************************************************)
LEMMA OpenSetKept ==
    ASSUME TypeOK, NEW c \in Conn, NEW s \in Stage,
           stage[c] # "open", s # "open",
           stage' = [stage EXCEPT ![c] = s]
    PROVE  OpenSet' = OpenSet
BY DEF OpenSet, TypeOK

(* Spawn: the counter and the set of open connections both grow by one. *)
LEMMA SpawnIInv ==
    ASSUME IInv, NEW c \in Conn, Spawn(c) PROVE IInv'
<1>1. OpenSet' = OpenSet \cup {c} /\ c \notin OpenSet
  BY DEF Spawn, OpenSet, IInv, TypeOK
<1>2. Cardinality(OpenSet') = Cardinality(OpenSet) + 1
  BY <1>1, OpenSetFinite, FS_AddElement DEF IInv
<1>3. WaitGroupAccounting'
  BY <1>2 DEF Spawn, IInv, WaitGroupAccounting, OpenSet
<1>4. TypeOK'
  BY DEF Spawn, IInv, TypeOK, Stage
<1>. QED  BY <1>3, <1>4 DEF IInv

(* Finish, on every path out of handleConnection: both shrink by one, and *)
(* the counter stays a natural number.                                     *)
LEMMA FinishIInv ==
    ASSUME IInv, NEW c \in Conn, stage[c] = "open", Finish(c)
    PROVE  /\ wg' \in Nat
           /\ stage' \in [Conn -> Stage]
           /\ WaitGroupAccounting'
<1>1. OpenSet' = OpenSet \ {c} /\ c \in OpenSet
  BY DEF Finish, OpenSet, IInv, TypeOK
<1>2. /\ Cardinality(OpenSet') = Cardinality(OpenSet) - 1
      /\ Cardinality(OpenSet) \in Nat \ {0}
  BY <1>1, OpenSetFinite, FS_RemoveElement, FS_CardinalityType, FS_EmptySet DEF IInv
<1>3. wg' = Cardinality(OpenSet')
  BY <1>2 DEF Finish, IInv, WaitGroupAccounting, OpenSet
<1>. QED  BY <1>2, <1>3 DEF Finish, IInv, TypeOK, Stage, WaitGroupAccounting, OpenSet

LEMMA InitIInv == Init => IInv
<1>. SUFFICES ASSUME Init PROVE IInv  OBVIOUS
<1>1. OpenSet = {}  BY DEF Init, OpenSet
<1>. QED  BY <1>1, FS_EmptySet DEF Init, IInv, TypeOK, WaitGroupAccounting, Stage

LEMMA NextIInv == IInv /\ [Next]_vars => IInv'
<1>. SUFFICES ASSUME IInv, [Next]_vars PROVE IInv'  OBVIOUS
<1>. USE DEF IInv
(* Steps that leave the stage of every connection and the counter alone. *)
<1>0. ASSUME stage' = stage, wg' = wg, TypeOK' PROVE IInv'
  BY <1>0 DEF WaitGroupAccounting, OpenSet
<1>1. ASSUME NEW c \in Conn, Connect(c) PROVE IInv'
  <2>1. OpenSet' = OpenSet  BY <1>1, OpenSetKept DEF Connect, Stage
  <2>. QED  BY <1>1, <2>1 DEF Connect, TypeOK, Stage, WaitGroupAccounting
<1>2. ASSUME NEW c \in Conn, NEW k \in LineKind, Send(c, k) PROVE IInv'
  BY <1>2, <1>0 DEF Send, TypeOK
<1>3. ASSUME NEW c \in Conn, HangUp(c) PROVE IInv'
  BY <1>3, <1>0 DEF HangUp, TypeOK
<1>4. CASE LoopTop \/ AcceptError
  BY <1>4, <1>0 DEF LoopTop, AcceptError, TypeOK
<1>5. ASSUME NEW c \in Conn, Accept(c) PROVE IInv'
  <2>1. OpenSet' = OpenSet  BY <1>5, OpenSetKept DEF Accept, Stage
  <2>. QED  BY <1>5, <2>1 DEF Accept, TypeOK, Stage, WaitGroupAccounting
<1>6. ASSUME NEW c \in Conn, Spawn(c) PROVE IInv'
  BY <1>6, SpawnIInv
<1>7. ASSUME NEW c \in Conn, ScanLine(c) PROVE IInv'
  <2>. DEFINE i == read[c] + 1
  <2>1. CASE sent[c][i] = Oversized
    <3>1. /\ wg' \in Nat /\ stage' \in [Conn -> Stage] /\ WaitGroupAccounting'
      BY <1>7, <2>1, FinishIInv DEF ScanLine
    <3>. QED  BY <1>7, <2>1, <3>1 DEF ScanLine, TypeOK
  <2>2. CASE sent[c][i] # Oversized
    <3>1. /\ read' = [read EXCEPT ![c] = i]
          /\ hold' \in [Conn -> Nat]
          /\ UNCHANGED <<stage, wg>>
      BY <1>7, <2>2 DEF ScanLine, TypeOK
    <3>. QED  BY <1>7, <3>1, <1>0 DEF ScanLine, TypeOK
  <2>. QED  BY <2>1, <2>2
<1>8. ASSUME NEW c \in Conn, Respond(c) PROVE IInv'
  BY <1>8, <1>0 DEF Respond, TypeOK
<1>9. ASSUME NEW c \in Conn, EndOfStream(c) PROVE IInv'
  <2>1. /\ wg' \in Nat /\ stage' \in [Conn -> Stage] /\ WaitGroupAccounting'
    BY <1>9, FinishIInv DEF EndOfStream
  <2>. QED  BY <1>9, <2>1 DEF EndOfStream, TypeOK
<1>10. CASE Signal \/ WaitReturns \/ Exit
  BY <1>10, <1>0 DEF Signal, WaitReturns, Exit, TypeOK
<1>11. CASE CloseListener
  <2>1. OpenSet' = OpenSet  BY <1>11 DEF CloseListener, OpenSet, TypeOK
  <2>. QED  BY <1>11, <2>1 DEF CloseListener, TypeOK, Stage, WaitGroupAccounting
<1>12. CASE UNCHANGED vars
  BY <1>12, <1>0 DEF vars, TypeOK
<1>. QED
  BY <1>1, <1>2, <1>3, <1>4, <1>5, <1>6, <1>7, <1>8, <1>9, <1>10, <1>11, <1>12
     DEF Next, DaemonStep

-----------------------------------------------------------------------------
(***************************************************************************)
(* s.wg always counts exactly the handlers that are running, for any      *)
(* number of connections: Spawn's wg.Add and the deferred wg.Done of every *)
(* way out of handleConnection balance, so the counter never goes         *)
(* negative and Stop's wg.Wait returns only when no counted handler runs.  *)
(***************************************************************************)
THEOREM WaitGroupBalanced == Spec => []WaitGroupAccounting
<1>1. Spec => []IInv  BY InitIInv, NextIInv, PTL DEF Spec
<1>. QED  BY <1>1, PTL DEF IInv

(* Every variable of the Intake Server keeps its type. *)
THEOREM IntakeTypeOK == Spec => []TypeOK
<1>1. Spec => []IInv  BY InitIInv, NextIInv, PTL DEF Spec
<1>. QED  BY <1>1, PTL DEF IInv

-----------------------------------------------------------------------------
(***************************************************************************)
(* The protocol round-trip.  AnsweredInOrder is inductive together with    *)
(* what the scan loop keeps of its position: the scanner never reads past *)
(* what was written, the request in handling is the last line read, a     *)
(* connection with a request in handling is open, and a handler closes a  *)
(* connection only at the end of its stream, after its last answer.  The  *)
(* last holds only without oversized lines (see the oversized run).        *)
(***************************************************************************)
ScanInv ==
    \A c \in Conn :
        /\ read[c] <= Len(sent[c])
        /\ hold[c] # 0 => /\ hold[c] = read[c]
                          /\ sent[c][read[c]] \in Request
                          /\ stage[c] = "open"
        /\ stage[c] = "closed" => read[c] = Len(sent[c]) /\ hold[c] = 0

RInv == IInv /\ ScanInv /\ AnsweredInOrder

(* ScanInv and AnsweredInOrder, for one connection. *)
ConnOK(c) ==
    /\ read[c] <= Len(sent[c])
    /\ hold[c] # 0 => /\ hold[c] = read[c]
                      /\ sent[c][read[c]] \in Request
                      /\ stage[c] = "open"
    /\ stage[c] = "closed" => read[c] = Len(sent[c]) /\ hold[c] = 0
    /\ \A j \in 1 .. Len(resp[c]) - 1 : resp[c][j] < resp[c][j + 1]
    /\ Answered(c) = Requests(c, read[c]) \ {hold[c]}
    /\ stage[c] = "closed" => Answered(c) = Requests(c, Len(sent[c]))

LEMMA ConnOKAll == ScanInv /\ AnsweredInOrder <=> \A c \in Conn : ConnOK(c)
BY DEF ScanInv, AnsweredInOrder, ConnOK

(* A connection none of whose variables a step changes stays correct. *)
LEMMA ConnFrame ==
    ASSUME NEW c, ConnOK(c),
           sent'[c] = sent[c], read'[c] = read[c], hold'[c] = hold[c],
           resp'[c] = resp[c], stage'[c] = stage[c]
    PROVE  ConnOK(c)'
<1>1. Answered(c)' = Answered(c)  BY DEF Answered
<1>2. \A n : Requests(c, n)' = Requests(c, n)  BY DEF Requests
<1>. QED  BY <1>1, <1>2 DEF ConnOK

(* Nor does one that only moves a connection between stages that are     *)
(* neither "open" nor "closed", or into "open".                           *)
LEMMA ConnStageFrame ==
    ASSUME NEW c, ConnOK(c),
           sent'[c] = sent[c], read'[c] = read[c], hold'[c] = hold[c],
           resp'[c] = resp[c],
           stage[c] \notin {"open", "closed"}, stage'[c] # "closed"
    PROVE  ConnOK(c)'
BY DEF ConnOK, Answered, Requests

(* The step's effect on the other connections is nil. *)
LEMMA OthersFrame ==
    ASSUME RInv, NEW c \in Conn, ConnOK(c)',
           \A d \in Conn \ {c} :
               /\ sent'[d] = sent[d] /\ read'[d] = read[d] /\ hold'[d] = hold[d]
               /\ resp'[d] = resp[d] /\ stage'[d] = stage[d]
    PROVE  ScanInv' /\ AnsweredInOrder'
<1>1. \A d \in Conn : ConnOK(d)  BY ConnOKAll DEF RInv
<1>2. \A d \in Conn : ConnOK(d)'  BY <1>1, ConnFrame
<1>. QED  BY <1>2 DEF ScanInv, AnsweredInOrder, ConnOK

LEMMA InitRInv == Init => RInv
<1>. SUFFICES ASSUME Init PROVE RInv  OBVIOUS
<1>1. IInv  BY InitIInv
<1>2. ScanInv /\ AnsweredInOrder
  BY DEF Init, ScanInv, AnsweredInOrder, Answered, Requests
<1>. QED  BY <1>1, <1>2 DEF RInv

(* Send: the line is appended after everything the scanner has read. *)
LEMMA SendConn ==
    ASSUME RInv, NEW c \in Conn, NEW k \in LineKind, Send(c, k) PROVE ConnOK(c)'
<1>1. ConnOK(c)  BY ConnOKAll DEF RInv
<1>2. /\ sent'[c] = Append(sent[c], k)
      /\ sent[c] \in Seq(LineKind) /\ read[c] \in Nat /\ hold[c] \in Nat
      /\ stage[c] # "closed"
      /\ UNCHANGED <<read, hold, resp, stage>>
  BY DEF Send, Connected, RInv, IInv, TypeOK
<1>3. \A i \in 1 .. read[c] : sent'[c][i] = sent[c][i]
  BY <1>1, <1>2 DEF ConnOK
<1>4. Requests(c, read[c])' = Requests(c, read[c])
  BY <1>3, <1>2 DEF Requests
<1>. QED  BY <1>1, <1>2, <1>3, <1>4 DEF ConnOK, Answered

(* ScanLine: one more line read, a request taken into handling. *)
LEMMA ScanLineConn ==
    ASSUME RInv, Oversized \notin LineKind, NEW c \in Conn, ScanLine(c)
    PROVE  ConnOK(c)'
<1>. DEFINE i == read[c] + 1
<1>1. ConnOK(c)  BY ConnOKAll DEF RInv
<1>2. /\ sent[c] \in Seq(LineKind) /\ read[c] \in Nat /\ i \in 1 .. Len(sent[c])
      /\ hold[c] = 0 /\ stage[c] = "open"
  BY DEF ScanLine, RInv, IInv, TypeOK
<1>3. sent[c][i] # Oversized
  BY <1>2
<1>4. /\ read' = [read EXCEPT ![c] = i]
      /\ hold' = [hold EXCEPT ![c] = IF sent[c][i] \in Request THEN i ELSE 0]
      /\ UNCHANGED <<stage, sent, resp>>
  BY <1>3, Zenon DEF ScanLine
<1>5. Requests(c, i) \ {hold'[c]} = Requests(c, read[c])
  <2>1. hold'[c] = IF sent[c][i] \in Request THEN i ELSE 0
    BY <1>4 DEF RInv, IInv, TypeOK
  <2>2. CASE sent[c][i] \in Request
    BY <1>2, <2>1, <2>2 DEF Requests
  <2>3. CASE sent[c][i] \notin Request
    BY <1>2, <2>1, <2>3 DEF Requests
  <2>. QED  BY <2>2, <2>3
<1>6. /\ read'[c] = i
      /\ hold'[c] = IF sent[c][i] \in Request THEN i ELSE 0
      /\ sent'[c] = sent[c] /\ resp'[c] = resp[c] /\ stage'[c] = "open"
  BY <1>2, <1>4 DEF RInv, IInv, TypeOK
<1>7. (Answered(c) = Requests(c, read[c]) \ {hold[c]})'
  <2>1. Answered(c)' = Answered(c)  BY <1>6 DEF Answered
  <2>2. Answered(c) = Requests(c, read[c])  BY <1>1, <1>2 DEF ConnOK, Requests
  <2>3. Requests(c, read[c])' = Requests(c, i)  BY <1>6 DEF Requests
  <2>. QED  BY <1>5, <2>1, <2>2, <2>3
<1>8. \A j \in 1 .. Len(resp'[c]) - 1 : resp'[c][j] < resp'[c][j + 1]
  BY <1>1, <1>6 DEF ConnOK
<1>. QED  BY <1>2, <1>6, <1>7, <1>8 DEF ConnOK

(* Respond: the request in handling is answered after all earlier ones. *)
LEMMA RespondConn ==
    ASSUME RInv, NEW c \in Conn, Respond(c) PROVE ConnOK(c)'
<1>. DEFINE h == hold[c]  r == resp[c]
<1>1. ConnOK(c)  BY ConnOKAll DEF RInv
<1>2. /\ resp'[c] = Append(r, h)
      /\ hold'[c] = 0
      /\ h # 0 /\ r \in Seq(Nat) /\ read[c] \in Nat
      /\ UNCHANGED <<stage, sent, read>>
  BY DEF Respond, RInv, IInv, TypeOK
<1>3. /\ h = read[c]
      /\ h \in Requests(c, read[c])
      /\ Answered(c) = Requests(c, read[c]) \ {h}
      /\ \A j \in 1 .. Len(r) - 1 : r[j] < r[j + 1]
  BY <1>1, <1>2 DEF ConnOK, Requests
<1>4. \A j \in 1 .. Len(r) : r[j] < h
  <2>1. \A j \in 1 .. Len(r) : r[j] \in Requests(c, read[c]) \ {h}
    BY <1>3 DEF Answered
  <2>. QED  BY <2>1, <1>2, <1>3 DEF Requests
<1>5. Answered(c)' = Answered(c) \cup {h}
  BY <1>2 DEF Answered
<1>6. \A j \in 1 .. Len(resp'[c]) - 1 : resp'[c][j] < resp'[c][j + 1]
  <2>1. /\ h \in Nat
        /\ Len(resp'[c]) = Len(r) + 1
        /\ \A j \in 1 .. Len(r) : resp'[c][j] = r[j]
        /\ resp'[c][Len(r) + 1] = h
    BY <1>2 DEF RInv, IInv, TypeOK
  <2>2. Len(r) \in Nat  BY DEF RInv, IInv, TypeOK
  <2>3. SUFFICES ASSUME NEW j \in 1 .. Len(r) PROVE resp'[c][j] < resp'[c][j + 1]
    BY <2>1, <2>2
  <2>4. CASE j < Len(r)  BY <2>1, <2>2, <2>4, <1>3
  <2>5. CASE j = Len(r)  BY <2>1, <2>2, <2>5, <1>4
  <2>. QED  BY <2>2, <2>4, <2>5
<1>7. (Answered(c) = Requests(c, read[c]) \ {hold[c]})'
  BY <1>2, <1>3, <1>5 DEF Requests
<1>8. Requests(c, Len(sent[c]))' = Requests(c, Len(sent[c]))
  BY <1>2 DEF Requests
<1>. QED  BY <1>1, <1>2, <1>3, <1>6, <1>7 DEF ConnOK

(* EndOfStream: the connection closes with its last request answered. *)
LEMMA EndOfStreamConn ==
    ASSUME RInv, NEW c \in Conn, EndOfStream(c) PROVE ConnOK(c)'
<1>1. ConnOK(c)  BY ConnOKAll DEF RInv
<1>2. /\ stage'[c] = "closed"
      /\ hold[c] = 0 /\ read[c] = Len(sent[c])
      /\ UNCHANGED <<sent, read, hold, resp>>
  BY DEF EndOfStream, Finish, RInv, IInv, TypeOK
<1>. QED  BY <1>1, <1>2 DEF ConnOK, Answered, Requests

LEMMA NextRInv ==
    ASSUME Oversized \notin LineKind
    PROVE  RInv /\ [Next]_vars => RInv'
<1>. SUFFICES ASSUME RInv, [Next]_vars PROVE RInv'  OBVIOUS
<1>0. IInv'  BY NextIInv DEF RInv
<1>. SUFFICES ScanInv' /\ AnsweredInOrder'  BY <1>0 DEF RInv
<1>a. \A d \in Conn : ConnOK(d)  BY ConnOKAll DEF RInv
<1>b. TypeOK  BY DEF RInv, IInv
(* Steps that change no connection's scan variables, nor its stage into *)
(* or out of "open" or "closed".                                         *)
<1>1. ASSUME UNCHANGED <<sent, read, hold, resp>>,
             \A d \in Conn : \/ stage'[d] = stage[d]
                             \/ stage[d] \notin {"open", "closed"} /\ stage'[d] # "closed"
      PROVE  ScanInv' /\ AnsweredInOrder'
  <2>1. \A d \in Conn : ConnOK(d)'  BY <1>1, <1>a, ConnFrame, ConnStageFrame
  <2>. QED  BY <2>1 DEF ScanInv, AnsweredInOrder, ConnOK
<1>2. CASE \E c \in Conn : Connect(c) \/ HangUp(c) \/ Accept(c) \/ Spawn(c)
  BY <1>2, <1>1, <1>b DEF Connect, HangUp, Accept, Spawn, TypeOK
<1>3. CASE LoopTop \/ AcceptError \/ Signal \/ CloseListener \/ WaitReturns \/ Exit
  BY <1>3, <1>1, <1>b DEF LoopTop, AcceptError, Signal, CloseListener, WaitReturns, Exit,
                        TypeOK
<1>4. CASE UNCHANGED vars
  BY <1>4, <1>1 DEF vars
<1>5. ASSUME NEW c \in Conn, NEW k \in LineKind, Send(c, k) PROVE ScanInv' /\ AnsweredInOrder'
  BY <1>5, <1>b, SendConn, OthersFrame DEF Send, TypeOK
<1>6. ASSUME NEW c \in Conn, ScanLine(c) PROVE ScanInv' /\ AnsweredInOrder'
  <2>1. ConnOK(c)'  BY <1>6, ScanLineConn
  <2>2. \A d \in Conn \ {c} :
           /\ sent'[d] = sent[d] /\ read'[d] = read[d] /\ hold'[d] = hold[d]
           /\ resp'[d] = resp[d] /\ stage'[d] = stage[d]
    BY <1>6, <1>b DEF ScanLine, Finish, TypeOK
  <2>. QED  BY <2>1, <2>2, OthersFrame
<1>7. ASSUME NEW c \in Conn, Respond(c) PROVE ScanInv' /\ AnsweredInOrder'
  BY <1>7, <1>b, RespondConn, OthersFrame DEF Respond, TypeOK
<1>8. ASSUME NEW c \in Conn, EndOfStream(c) PROVE ScanInv' /\ AnsweredInOrder'
  BY <1>8, <1>b, EndOfStreamConn, OthersFrame DEF EndOfStream, Finish, TypeOK
<1>. QED  BY <1>2, <1>3, <1>4, <1>5, <1>6, <1>7, <1>8 DEF Next, DaemonStep

(***************************************************************************)
(* The protocol round-trip, for any number of connections and lines, when *)
(* no line exceeds bufio.Scanner's limit: every request line (valid or    *)
(* malformed JSON) is answered exactly once and in the order written, an  *)
(* empty line is not answered, and a connection handleConnection closed   *)
(* had all its requests answered.                                          *)
(***************************************************************************)
THEOREM AnswersExactlyOnce ==
    ASSUME Oversized \notin LineKind
    PROVE  Spec => []AnsweredInOrder
<1>1. Spec => []RInv  BY InitRInv, NextRInv, PTL DEF Spec
<1>. QED  BY <1>1, PTL DEF RInv

=============================================================================
