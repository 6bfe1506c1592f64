------------------------------- MODULE Mirror -------------------------------
(* What a mirror of a remote ledger promises while both go on: every item   *)
(* only moves forward at the source, and what the mirror shows of it only   *)
(* moves forward too and is never ahead of the source. It does not promise  *)
(* that the mirror has caught up at any moment.                             *)
EXTENDS Integers

CONSTANTS Items, Status, AtMost

VARIABLES remote, shown

MirrorInit ==
  /\ remote \in [Items -> Status]
  /\ shown \in [Items -> Status]
  /\ \A i \in Items : <<shown[i], remote[i]>> \in AtMost

SourceMoves ==
  /\ remote' \in [Items -> Status]
  /\ \A i \in Items : <<remote[i], remote'[i]>> \in AtMost
  /\ UNCHANGED shown

Refresh ==
  /\ shown' \in [Items -> Status]
  /\ \A i \in Items : /\ <<shown[i], shown'[i]>> \in AtMost
                      /\ <<shown'[i], remote[i]>> \in AtMost
  /\ UNCHANGED remote

MirrorNext == SourceMoves \/ Refresh

MirrorSpec == MirrorInit /\ [][MirrorNext]_<<remote, shown>>
=============================================================================
