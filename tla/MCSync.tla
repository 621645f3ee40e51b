------------------------------- MODULE MCSync -------------------------------
(* Values for checking Sync: devices are interchangeable.          *)
EXTENDS Sync, TLC

Symmetry == Permutations(Devices)

\* The group's own row is pushed and patched to delete it, and not otherwise: its
\* other edits are like those of any record.
GroupIsOnlyDeleted ==
    \A d \in Devices : Exists(req[d].todo[Group]) => req[d].todo[Group].del

=============================================================================
