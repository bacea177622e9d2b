----------------------------- MODULE AtomicPatch -----------------------------
(***************************************************************************)
(* What a managed write promises, with no files, locks or journals: a note *)
(* has one text, a user saves over it, and a patch replaces the managed    *)
(* part of the text it finds, in one step, at most once per transaction.   *)
(* Nothing else ever changes a note.  ManagedApply implements this.        *)
(***************************************************************************)

CONSTANTS
  Note,      \* notes of the vault
  Body,      \* source material: everything outside the managed keys
  Managed,   \* values of the managed frontmatter keys
  Tx         \* transaction identifiers

VARIABLES
  text,      \* what each note says
  typed,     \* what the user last saved in each note
  applied    \* transactions whose patch took effect

vars == <<text, typed, applied>>

Text == [body : Body, managed : Managed]

\* The text with the managed keys rewritten and every other byte kept.
Render(c, u) == [c EXCEPT !.managed = u]

Init ==
  /\ text \in [Note -> Text]
  /\ typed = text
  /\ applied = {}

\* The user saves c.
Save(n, c) ==
  /\ text' = [text EXCEPT ![n] = c]
  /\ typed' = [typed EXCEPT ![n] = c]
  /\ UNCHANGED applied

\* Transaction t patches the text it finds in note n.
Patch(t, n, u) ==
  /\ t \notin applied
  /\ text' = [text EXCEPT ![n] = Render(text[n], u)]
  /\ applied' = applied \union {t}
  /\ UNCHANGED typed

Next ==
  \E n \in Note :
    \/ \E c \in Text : Save(n, c)
    \/ \E t \in Tx, u \in Managed : Patch(t, n, u)

Spec == Init /\ [][Next]_vars

=============================================================================
