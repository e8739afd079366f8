------------------------------- MODULE TurnLog -------------------------------
(***************************************************************************)
(* What the header of edge/src/session.ts and edge/README.md promise of a  *)
(* session: durable per-session state with "single-writer turn ordering".  *)
(* The log of a session is absent or a sequence of exchanges; it is        *)
(* created, dropped, and otherwise grows by one exchange at a time, whose  *)
(* answer was computed on exactly the log it is appended to.               *)
(***************************************************************************)
EXTENDS Naturals, Sequences

CONSTANTS TurnIds, Absent

VARIABLE log

Exchanges == [turn : TurnIds, on : Seq(TurnIds)]

(* The turns of a log, the part of it a model is shown *)
Asked(l) == [i \in 1 .. Len(l) |-> l[i].turn]

LogInit == log = Absent

Create == log' = <<>>

Drop == log' = Absent

AppendTurn(t) ==
    LET l == IF log = Absent THEN <<>> ELSE log IN
    log' = Append(l, [turn |-> t, on |-> Asked(l)])

LogNext == Create \/ Drop \/ \E t \in TurnIds : AppendTurn(t)

LogSpec == LogInit /\ [][LogNext]_log
=============================================================================
