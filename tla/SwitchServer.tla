----------------------------- MODULE SwitchServer -----------------------------
(***************************************************************************)
(* server.js: one process that is an MQTT broker for the phone and an HTTP *)
(* server for the board.  Its whole memory is a one-slot mailbox (flag, op) *)
(* and the list of registered devices.  JavaScript runs each handler to    *)
(* its end, so a handler is one action.                                    *)
(*                                                                         *)
(* An MQTT payload is a record with at least the fields action and target. *)
(***************************************************************************)
EXTENDS Naturals, Sequences, SequencesExt

VARIABLES
  flag,        (* is there a message in op?                                *)
  op,          (* the last message on topic 'arc', or NoOp                 *)
  regDevices   (* targets registered, in order of registration             *)

serverVars == <<flag, op, regDevices>>

NoOp == [action |-> "none", target |-> "none"]

Init ==
  /\ flag = FALSE
  /\ op = NoOp
  /\ regDevices = <<>>

\* Array.prototype.indexOf: positions count from 0 as in JavaScript, -1 if absent.
indexOf(s, x) == SelectInSeq(s, LAMBDA v : v = x) - 1

\* Mutant of splice: it takes positions to count from 1.
spliceFromOne(s, pos) ==
  LET at == IF pos < 0 THEN Len(s) + pos ELSE pos
  IN IF at \in 1 .. Len(s) THEN RemoveAt(s, at) ELSE s

\* Array.prototype.splice(pos, 1): a negative position counts from the end.
splice(s, pos) ==
  LET at == IF pos < 0 THEN Len(s) + pos ELSE pos
  IN IF at \in 0 .. Len(s) - 1 THEN RemoveAt(s, at + 1) ELSE s

\* The 'init' branch: a device already registered is not added again.
WithDevice(s, x) == IF indexOf(s, x) = -1 THEN Append(s, x) ELSE s

\* server.on('published') for topic 'arc'.
PublishedArc(m) ==
  /\ flag' = TRUE
  /\ op' = m
  /\ regDevices' = CASE m.action = "reg" -> Append(regDevices, m.target)
                     [] m.action = "del" -> splice(regDevices, indexOf(regDevices, m.target))
                     [] OTHER -> regDevices

\* server.on('published') for topic 'init'.
PublishedInit(m) ==
  /\ regDevices' = WithDevice(regDevices, m.target)
  /\ UNCHANGED <<flag, op>>

\* Mutant of HttpRoot: the mailbox is not emptied by the poll that reads it.
HttpRootKeepsOp ==
  /\ flag' = FALSE
  /\ UNCHANGED <<op, regDevices>>

\* http.createServer handler for any path but /all: the response carries op
\* (a 200 if flag is set; a 204 has no body), and the mailbox is emptied.
HttpRoot ==
  /\ flag' = FALSE
  /\ op' = NoOp
  /\ UNCHANGED regDevices

ResponseBody == IF flag THEN op ELSE NoOp

\* A restart of the process: nothing is kept on disk.
Restart ==
  /\ flag' = FALSE
  /\ op' = NoOp
  /\ regDevices' = <<>>
===============================================================================
