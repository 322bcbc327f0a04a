------------------------------ MODULE EscalationMC ------------------------------
(***************************************************************************)
(* Small instances of Escalation for TLC.                                  *)
(***************************************************************************)
EXTENDS Escalation

Now0   == {0}
\* The way through the statuses and back to the first, past "investigating".
Round == {"mitigated", "resolved", "postmortem_in_progress", "postmortem_complete", "open"}

\* Due as soon as a minute has passed.
JustOn == {[enabled |-> TRUE, threshold |-> 0]}

\* What the scan has read matters only where it can still make s due; its first state, and
\* what it leaves in bare when it ends, no longer do.
Promising(s) ==
    /\ scan.read[s] # Nil
    /\ scan.read[s].row.escalatedAt = Nil /\ scan.read[s].row.startedAt # Nil
    /\ scan.read[s].limit.enabled /\ s \notin scan.hasIC

\* Of the two counters, how far they are apart and whether there was an alarm.
View ==
    <<rows, ics, lastRole, config, now, assign, faults, scan.pc, scan.todo, scan.due,
      [s \in SevId |-> IF Promising(s)
                       THEN <<scan.read[s].row.startedAt, scan.read[s].limit>> ELSE Nil],
      [s \in SevId |-> alarms[s] - rearmed[s]], {s \in SevId : alarms[s] > 0},
      IF scan.pc = "idle" THEN {} ELSE bare, told, stale>>

===============================================================================
