------------------------------ MODULE AuditLog ------------------------------
(***************************************************************************)
(* What the audit trail promises: entries are only ever added, at the end. *)
(* A transaction adds all its entries in one step, or none.                *)
(***************************************************************************)
EXTENDS Naturals, Sequences

CONSTANT Entries

VARIABLE log

LogInit == log = <<>>

Extends(longer, shorter) ==
  /\ Len(shorter) <= Len(longer)
  /\ \A i \in 1..Len(shorter) : longer[i] = shorter[i]

LogNext == log' \in Seq(Entries) /\ Extends(log', log)

LogSpec == LogInit /\ [][LogNext]_log
=============================================================================
