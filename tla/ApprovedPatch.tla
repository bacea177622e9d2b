---------------------------- MODULE ApprovedPatch ----------------------------
(***************************************************************************)
(* latticemind_core/approval.py and the freshness actions of cli.py: a     *)
(* user is shown a one-time code for one patch of one note (challenge),    *)
(* and later redeems it (apply): reserve the approval, patch the note,     *)
(* consume the approval.  Each approval is a file of its own; every change *)
(* of one is load, check, save under .approval.lock.                       *)
(*                                                                         *)
(* apply_file is taken at its word, as the atomic Patch of AtomicPatch:    *)
(* ManagedApply implements that.  The actor, the install id and the run id *)
(* of a binding are those of the one installation; the terminal varies.    *)
(***************************************************************************)
EXTENDS Integers

CONSTANTS
  Note, Body, Managed, Tx,  \* as in AtomicPatch
  Approval,    \* approval ids (128 random bits); each stands for its code too
  Proc,        \* runs of the command line
  Terminal,    \* terminals
  TerminalOf,  \* the terminal each run has
  TTL,         \* lifetime of a challenge (600 s)
  MaxTime,     \* bound on the clock
  Faults,      \* what the environment does in this instance
  NoProc       \* nobody holds the lock

FaultKinds == {
  "crash",  \* a run is killed
  "io",     \* a write raises OSError, before or after it took effect
  "save"}   \* a user saves a note

VARIABLES
  text, typed, applied,  \* the vault, as in AtomicPatch
  approvals,  \* the approval files
  known,      \* approvals whose code was printed
  lock,       \* holder of .approval.lock
  clock,      \* wall clock, in units that divide TTL
  pc,         \* next step of each run
  req,        \* what the run was asked to do, with the digest it read first
  loaded,     \* the approval record it has loaded and accepted
  outcome,    \* how it ended
  wrote,      \* history: whether the run has patched its note
  spent       \* history: the transactions each approval has authorised

vault == <<text, typed, applied>>
vars == <<text, typed, applied, approvals, known, lock, clock, pc, req, loaded, outcome, wrote, spent>>

history == <<wrote, spent>>

Patches == INSTANCE AtomicPatch

Text == Patches!Text

ASSUME ConstantsAssumption ==
  /\ Faults \subseteq FaultKinds
  /\ TTL \in Nat \ {0} /\ MaxTime \in Nat
  /\ TerminalOf \in [Proc -> Terminal]
  /\ NoProc \notin Proc

\* What a challenge binds: the patch, the note, its text and the terminal.
Binding == [note : Note, update : Managed, preimage : Text, terminal : Terminal]

Absent == [state |-> "absent"]
Record == [state : {"issued", "reserved", "consumed"}, expires : Nat, binding : Binding]

NoRequest == [op |-> "none"]
Request ==
  [op : {"challenge"}, binding : Binding, expires : Nat]
    \union [op : {"apply"}, binding : Binding, approval : Approval, code : Approval]

Waiting == {"issue", "reserve", "consume"}
Holding == {"issuing", "reserving", "save_reserved", "consuming", "save_consumed"}

\* The exit code classes: 0, 73 (PermissionError), 75 (TimeoutError), others.
Outcomes == {"none", "ok", "denied", "contended", "failed"}

Init ==
  /\ Patches!Init
  /\ approvals = [a \in Approval |-> Absent]
  /\ known = {}
  /\ lock = NoProc
  /\ clock = 0
  /\ pc = [p \in Proc |-> "idle"]
  /\ req = [p \in Proc |-> NoRequest]
  /\ loaded = [p \in Proc |-> Absent]
  /\ outcome = [p \in Proc |-> "none"]
  /\ wrote = [p \in Proc |-> FALSE]
  /\ spent = [a \in Approval |-> {}]

Goto(p, label) == pc' = [pc EXCEPT ![p] = label]
Release(p) == lock' = IF lock = p THEN NoProc ELSE lock

\* The run ends; leaving the with block, or dying, releases the lock.
End(p, how) ==
  /\ Goto(p, "idle")
  /\ Release(p)
  /\ req' = [req EXCEPT ![p] = NoRequest]
  /\ loaded' = [loaded EXCEPT ![p] = Absent]
  /\ outcome' = [outcome EXCEPT ![p] = how]

Raise(p, how) == End(p, how) /\ UNCHANGED <<vault, approvals, known, clock, history>>

BindingOf(p, n, u) ==
  [note |-> n, update |-> u, preimage |-> text[n], terminal |-> TerminalOf[p]]

(***************************************************************************)
(* freshness challenge: digest the note, read the clock, save a record     *)
(* under a new id and print the code.                                      *)
(***************************************************************************)
Challenge(p) ==
  /\ pc[p] = "idle"
  /\ \E n \in Note, u \in Managed :
       req' = [req EXCEPT ![p] =
                 [op |-> "challenge", binding |-> BindingOf(p, n, u), expires |-> clock + TTL]]
  /\ outcome' = [outcome EXCEPT ![p] = "none"]
  /\ wrote' = [wrote EXCEPT ![p] = FALSE]
  /\ Goto(p, "issue")
  /\ UNCHANGED <<vault, approvals, known, lock, clock, loaded, spent>>

Issue(p) ==
  /\ pc[p] = "issuing"
  /\ \E a \in Approval :
       \/ /\ approvals[a] # Absent
          /\ Raise(p, "failed")
       \/ /\ approvals[a] = Absent
          /\ approvals' = [approvals EXCEPT ![a] =
               [state |-> "issued", expires |-> req[p].expires, binding |-> req[p].binding]]
          /\ known' = known \union {a}
          /\ End(p, "ok")
          /\ UNCHANGED <<vault, clock, history>>

(***************************************************************************)
(* freshness apply: digest the note, ask the user, reserve, patch, consume.*)
(***************************************************************************)
\* The user enters an approval id and a code that was printed.
Apply(p) ==
  /\ pc[p] = "idle"
  /\ \E n \in Note, u \in Managed, a \in Approval, c \in known :
       req' = [req EXCEPT ![p] =
                 [op |-> "apply", binding |-> BindingOf(p, n, u), approval |-> a, code |-> c]]
  /\ outcome' = [outcome EXCEPT ![p] = "none"]
  /\ wrote' = [wrote EXCEPT ![p] = FALSE]
  /\ Goto(p, "reserve")
  /\ UNCHANGED <<vault, approvals, known, lock, clock, loaded, spent>>

\* Mutant: the lock excludes nobody.
TakeLockAnyway(p) ==
  /\ pc[p] \in Waiting
  /\ lock' = p
  /\ Goto(p, CASE pc[p] = "issue" -> "issuing"
               [] pc[p] = "reserve" -> "reserving"
               [] OTHER -> "consuming")
  /\ UNCHANGED <<vault, approvals, known, clock, req, loaded, outcome, history>>

TakeLock(p) ==
  /\ pc[p] \in Waiting
  /\ lock = NoProc
  /\ lock' = p
  /\ Goto(p, CASE pc[p] = "issue" -> "issuing"
               [] pc[p] = "reserve" -> "reserving"
               [] OTHER -> "consuming")
  /\ UNCHANGED <<vault, approvals, known, clock, req, loaded, outcome, history>>

\* FileLock polls for five seconds, then raises TimeoutError.
GiveUp(p) ==
  /\ pc[p] \in Waiting
  /\ lock # NoProc
  /\ Raise(p, "contended")

\* Mutant: a reservation is accepted whatever patch it was issued for.
RedeemableUnbound(p, r) ==
  /\ r.state = "issued"
  /\ clock < r.expires
  /\ req[p].code = req[p].approval

\* Mutant: a reservation that came to nothing may be made again.
RedeemableAgain(p, r) ==
  /\ r.state \in {"issued", "reserved"}
  /\ clock < r.expires
  /\ req[p].code = req[p].approval
  /\ r.binding = req[p].binding

\* What reserve() demands of the record.
Redeemable(p, r) ==
  /\ r.state = "issued"
  /\ clock < r.expires
  /\ req[p].code = req[p].approval
  /\ r.binding = req[p].binding

LoadIssued(p) ==
  LET r == approvals[req[p].approval] IN
  /\ pc[p] = "reserving"
  /\ \/ /\ r = Absent
        /\ Raise(p, "failed")
     \/ /\ r # Absent
        /\ ~Redeemable(p, r)
        /\ Raise(p, "denied")
     \/ /\ r # Absent
        /\ Redeemable(p, r)
        /\ loaded' = [loaded EXCEPT ![p] = r]
        /\ Goto(p, "save_reserved")
        /\ UNCHANGED <<vault, approvals, known, lock, clock, req, outcome, history>>

\* Mutant: one save does for both steps.
SaveReservedAsConsumed(p) ==
  /\ pc[p] = "save_reserved"
  /\ approvals' = [approvals EXCEPT ![req[p].approval] = [loaded[p] EXCEPT !.state = "consumed"]]
  /\ Release(p)
  /\ Goto(p, "patch")
  /\ UNCHANGED <<vault, known, clock, req, loaded, outcome, history>>

SaveReserved(p) ==
  /\ pc[p] = "save_reserved"
  /\ approvals' = [approvals EXCEPT ![req[p].approval] = [loaded[p] EXCEPT !.state = "reserved"]]
  /\ Release(p)
  /\ Goto(p, "patch")
  /\ UNCHANGED <<vault, known, clock, req, loaded, outcome, history>>

\* apply_file patches the note it was asked to, if it still says what it said.
Patched(p) ==
  LET b == req[p].binding IN
  /\ text[b.note] = b.preimage
  /\ \E t \in Tx :
       /\ Patches!Patch(t, b.note, b.update)
       /\ spent' = [spent EXCEPT ![req[p].approval] = @ \union {t}]
       /\ wrote' = [wrote EXCEPT ![p] = TRUE]

PatchNote(p) ==
  /\ pc[p] = "patch"
  /\ Patched(p)
  /\ Goto(p, "consume")
  /\ UNCHANGED <<approvals, known, lock, clock, req, loaded, outcome>>

\* apply_file raises: the note has changed, its lock is held, or an earlier
\* transaction of its log no longer matches the vault.
PatchFails(p) ==
  /\ pc[p] = "patch"
  /\ \/ /\ text[req[p].binding.note] # req[p].binding.preimage
        /\ Raise(p, "failed")
     \/ /\ \E q \in Proc \ {p} : pc[q] = "patch"
        /\ Raise(p, "contended")
     \/ /\ applied # {}
        /\ Raise(p, "denied")

LoadReserved(p) ==
  LET r == approvals[req[p].approval] IN
  /\ pc[p] = "consuming"
  /\ \/ /\ \/ r.state # "reserved"
           \/ clock >= r.expires
           \/ r.binding.terminal # TerminalOf[p]
        /\ Raise(p, "denied")
     \/ /\ r.state = "reserved"
        /\ clock < r.expires
        /\ r.binding.terminal = TerminalOf[p]
        /\ loaded' = [loaded EXCEPT ![p] = r]
        /\ Goto(p, "save_consumed")
        /\ UNCHANGED <<vault, approvals, known, lock, clock, req, outcome, history>>

SaveConsumed(p) ==
  /\ pc[p] = "save_consumed"
  /\ approvals' = [approvals EXCEPT ![req[p].approval] = [loaded[p] EXCEPT !.state = "consumed"]]
  /\ End(p, "ok")
  /\ UNCHANGED <<vault, known, clock, history>>

(***************************************************************************)
(* The environment.                                                        *)
(***************************************************************************)
Crash(p) ==
  /\ "crash" \in Faults
  /\ pc[p] # "idle"
  /\ Raise(p, "none")

\* write_json_atomic raises if the directory cannot be synced, after the
\* rename; apply_file raises if it cannot drop its backup, after the commit.
WriteFails(p) ==
  /\ "io" \in Faults
  /\ End(p, "failed")
  /\ UNCHANGED <<known, clock>>
  /\ \/ /\ pc[p] # "idle"
        /\ UNCHANGED <<vault, approvals, history>>
     \/ /\ pc[p] = "issuing"
        /\ \E a \in Approval :
             /\ approvals[a] = Absent
             /\ approvals' = [approvals EXCEPT ![a] =
                  [state |-> "issued", expires |-> req[p].expires, binding |-> req[p].binding]]
        /\ UNCHANGED <<vault, history>>
     \/ /\ pc[p] \in {"save_reserved", "save_consumed"}
        /\ approvals' = [approvals EXCEPT ![req[p].approval] =
             [loaded[p] EXCEPT !.state = IF pc[p] = "save_reserved" THEN "reserved" ELSE "consumed"]]
        /\ UNCHANGED <<vault, history>>
     \/ /\ pc[p] = "patch"
        /\ Patched(p)
        /\ UNCHANGED approvals

Save ==
  /\ "save" \in Faults
  /\ \E n \in Note, c \in Text : c # text[n] /\ Patches!Save(n, c)
  /\ UNCHANGED <<approvals, known, lock, clock, pc, req, loaded, outcome, history>>

Tick ==
  /\ clock < MaxTime
  /\ clock' = clock + 1
  /\ UNCHANGED <<vault, approvals, known, lock, pc, req, loaded, outcome, history>>

-----------------------------------------------------------------------------
Step(p) ==
  \/ Challenge(p) \/ Issue(p) \/ Apply(p) \/ TakeLock(p) \/ GiveUp(p)
  \/ LoadIssued(p) \/ SaveReserved(p) \/ PatchNote(p) \/ PatchFails(p)
  \/ LoadReserved(p) \/ SaveConsumed(p)

Next == Save \/ Tick \/ \E p \in Proc : Step(p) \/ Crash(p) \/ WriteFails(p)

Spec == Init /\ [][Next]_vars

-----------------------------------------------------------------------------
(***************************************************************************)
(* Properties.                                                             *)
(***************************************************************************)
\* Every variable keeps its type; the lock is held exactly while an approval
\* file is read, checked and rewritten (lines 69, 88 and 111).
TypeOK ==
  /\ text \in [Note -> Text] /\ typed \in [Note -> Text] /\ applied \in SUBSET Tx
  /\ approvals \in [Approval -> Record \union {Absent}]
  /\ known \in SUBSET Approval
  /\ lock \in Proc \union {NoProc}
  /\ clock \in Nat
  /\ pc \in [Proc -> {"idle", "patch"} \union Waiting \union Holding]
  /\ req \in [Proc -> Request \union {NoRequest}]
  /\ loaded \in [Proc -> Record \union {Absent}]
  /\ outcome \in [Proc -> Outcomes]
  /\ wrote \in [Proc -> BOOLEAN]
  /\ spent \in [Approval -> SUBSET Tx]
  /\ \A p \in Proc : lock = p <=> pc[p] \in Holding

\* "one-time approval challenges" (approval.py:1): however many runs redeem an
\* approval, and whatever crashes, fails or is retried, it authorises at most
\* one patch (reserve is what spends it, line 102, before apply_file runs).
AppliedOnce ==
  \A a \in Approval : \A t, u \in spent[a] : t = u

\* A note is patched only as its user was shown: the step that patches it
\* redeems a reservation made from the same terminal for that note, that patch
\* and that text, and no other note changes (lines 97-101, cli.py:291).
PatchedAsApproved ==
  [][\A t \in Tx : t \notin applied /\ t \in applied' =>
       \E p \in Proc, a \in Approval : LET b == approvals[a].binding IN
         /\ pc[p] = "patch" /\ req[p].approval = a
         /\ approvals[a].state = "reserved"
         /\ b.preimage = text[b.note]
         /\ b.terminal = TerminalOf[p]
         /\ text' = [text EXCEPT ![b.note] = Patches!Render(b.preimage, b.update)]]_vars

\* A consumed approval has had its patch: the last state of an approval file is
\* evidence that the note was written (cli.py:291: reserve, apply, consume).
ConsumedWasApplied ==
  \A a \in Approval : approvals[a].state = "consumed" => spent[a] # {}

Rank(state) ==
  CASE state = "absent" -> 0 [] state = "issued" -> 1 [] state = "reserved" -> 2 [] OTHER -> 3

\* An approval never comes back to life: its file only moves from issued to
\* reserved to consumed, although runs load it, think, and save it (the lock of
\* lines 69, 88 and 111 spans each load and save).
ForwardOnly ==
  [][\A a \in Approval : Rank(approvals'[a].state) - Rank(approvals[a].state) \in {0, 1}]_vars

(***************************************************************************)
(* The one-time approval.  It is open until it is reserved, and while the  *)
(* run that reserved it is about to patch; it is used once it has a patch, *)
(* void when that run has ended without one, and confirmed once its file   *)
(* says "consumed".                                                        *)
(***************************************************************************)
Standing(a) ==
  CASE approvals[a].state = "consumed" -> "confirmed"
    [] approvals[a].state # "consumed" /\ spent[a] # {} -> "used"
    [] /\ approvals[a].state # "consumed" /\ spent[a] = {}
       /\ \/ approvals[a].state = "issued"
          \/ \E p \in Proc : pc[p] = "patch" /\ req[p].approval = a -> "open"
    [] OTHER -> "void"

Grants ==
  [a \in Approval |->
     IF approvals[a] = Absent THEN [state |-> "none"]
     ELSE [state |-> Standing(a), binding |-> approvals[a].binding]]

OneTime == INSTANCE OneTimePatch WITH grant <- Grants

\* Every behaviour is one of OneTimePatch: an approval patches the note, text
\* and patch it was issued for, once; if its run is killed, denied or fails
\* before that, it is void, although its file still says "reserved"; and only a
\* used one is ever consumed (approval.py:88-117, cli.py:291).
ImplementsOneTimePatch == OneTime!Spec

\* "73 | permission denied" (README.md:206): a run that ends so has not patched
\* the note it was asked to patch.
DeniedChangesNothing ==
  \A p \in Proc : outcome[p] = "denied" => ~wrote[p]

=============================================================================
