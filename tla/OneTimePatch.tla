---------------------------- MODULE OneTimePatch ----------------------------
(***************************************************************************)
(* What a one-time approval promises, with no files, locks or clocks: it   *)
(* is granted for one patch of one note that says one thing; it patches    *)
(* that note so, once, or it becomes void; and only an approval that was   *)
(* used is ever confirmed.  ApprovedPatch implements this.                 *)
(***************************************************************************)

CONSTANTS
  Note, Body, Managed, Tx,  \* as in AtomicPatch
  Terminal,  \* where a patch is shown and approved
  Approval   \* approvals

VARIABLES
  text, typed, applied,  \* the vault, as in AtomicPatch
  grant                  \* what has become of each approval

vault == <<text, typed, applied>>
vars == <<text, typed, applied, grant>>

Patches == INSTANCE AtomicPatch

\* What an approval is for.
Binding == [note : Note, update : Managed, preimage : Patches!Text, terminal : Terminal]

None == [state |-> "none"]

Init ==
  /\ Patches!Init
  /\ grant = [a \in Approval |-> None]

Becomes(a, state) == grant' = [grant EXCEPT ![a].state = state]

Grant(a) ==
  /\ grant[a] = None
  /\ \E b \in Binding : grant' = [grant EXCEPT ![a] = [state |-> "open", binding |-> b]]
  /\ UNCHANGED vault

\* The one patch of a, of the text its user was shown.
Redeem(a) ==
  LET b == grant[a].binding IN
  /\ grant[a].state = "open"
  /\ text[b.note] = b.preimage
  /\ \E t \in Tx : Patches!Patch(t, b.note, b.update)
  /\ Becomes(a, "used")

Void(a) ==
  /\ grant[a].state = "open"
  /\ Becomes(a, "void")
  /\ UNCHANGED vault

Confirm(a) ==
  /\ grant[a].state = "used"
  /\ Becomes(a, "confirmed")
  /\ UNCHANGED vault

\* The user saves c.
Save(n, c) == Patches!Save(n, c) /\ UNCHANGED grant

Next ==
  \/ \E n \in Note, c \in Patches!Text : Save(n, c)
  \/ \E a \in Approval : Grant(a) \/ Redeem(a) \/ Void(a) \/ Confirm(a)

Spec == Init /\ [][Next]_vars

=============================================================================
