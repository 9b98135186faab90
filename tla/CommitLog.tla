----------------------------- MODULE CommitLog -----------------------------
(***************************************************************************)
(* What the ingest side of the gateway promises to a host that sends its   *)
(* records: per host one log that grows by the next record at a time and   *)
(* is never cut, and acknowledgements that never go back and never cover a *)
(* record that is not in the log.  Crashes are not visible here: they must *)
(* change neither the logs nor what has been acknowledged.                 *)
(***************************************************************************)
EXTENDS Naturals

CONSTANT Hosts

VARIABLES
  length,   \* number of records in the log of each host
  promised  \* largest acknowledgement given to each host

LogInit ==
  /\ length = [h \in Hosts |-> 0]
  /\ promised = [h \in Hosts |-> 0]

Store(h) ==
  /\ length' = [length EXCEPT ![h] = @ + 1]
  /\ UNCHANGED promised

Acknowledge(h) ==
  /\ \E n \in promised[h] .. length[h] : promised' = [promised EXCEPT ![h] = n]
  /\ UNCHANGED length

LogNext == \E h \in Hosts : Store(h) \/ Acknowledge(h)

LogSpec == LogInit /\ [][LogNext]_<<length, promised>>
=============================================================================
