--------------------------- MODULE SnapshotArchive ---------------------------
(***************************************************************************)
(* What the scans of a vault promise, with no manifests, files or partial  *)
(* writes: a scan sees the whole vault at one moment, and puts the packet  *)
(* and then the report of what it saw in an archive that only grows.       *)
(* FreshnessScan implements this.                                          *)
(***************************************************************************)

CONSTANTS
  Name,       \* names of notes
  Look,       \* what a note can look like
  Manifest,   \* the vaults a scan accepts
  Scan,       \* processes that scan
  Packet(_),  \* the work packet of a manifest
  Report(_)   \* the report of a manifest

VARIABLES
  vault,      \* what each note looks like
  seen,       \* the vault each scan has seen, if it has: a set of at most one
  archive     \* what is published

vars == <<vault, seen, archive>>

Init ==
  /\ vault \in [Name -> Look]
  /\ seen = [s \in Scan |-> {}]
  /\ archive = {}

\* Users change notes as they like.
Edit ==
  /\ vault' \in [Name -> Look]
  /\ UNCHANGED <<seen, archive>>

\* The whole vault, at once.
See(s) ==
  /\ seen[s] = {}
  /\ seen' = [seen EXCEPT ![s] = {vault}]
  /\ UNCHANGED <<vault, archive>>

PublishPacket(s) ==
  /\ \E m \in seen[s] \intersect Manifest : archive' = archive \union {Packet(m)}
  /\ UNCHANGED <<vault, seen>>

\* The report comes last, and names a packet that is there.
PublishReport(s) ==
  /\ \E m \in seen[s] \intersect Manifest :
       /\ Packet(m) \in archive
       /\ archive' = archive \union {Report(m)}
  /\ seen' = [seen EXCEPT ![s] = {}]
  /\ UNCHANGED vault

\* The scan ends without publishing more.
Leave(s) ==
  /\ seen' = [seen EXCEPT ![s] = {}]
  /\ UNCHANGED <<vault, archive>>

Next ==
  \/ Edit
  \/ \E s \in Scan : See(s) \/ PublishPacket(s) \/ PublishReport(s) \/ Leave(s)

Spec == Init /\ [][Next]_vars

=============================================================================
