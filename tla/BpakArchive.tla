------------------------------ MODULE BpakArchive ------------------------------
(***************************************************************************)
(* What the package commands promise, as an archive-level state machine:  *)
(* an archive is the list of its parts (id and size, in the order the     *)
(* header lists them) and whether `bpak verify` accepts it.  A command    *)
(* either appends fresh parts at once (and the old signature no longer    *)
(* verifies), or signs, or leaves the archive as it was; `bpak create`    *)
(* starts an empty archive.  An interrupted header write may leave no     *)
(* archive at all (valid = FALSE).  Nothing else ever happens to a listed part:  *)
(* no command removes, reorders, resizes or duplicates one.               *)
(***************************************************************************)
EXTENDS Naturals, Sequences, SequencesExt

CONSTANTS
    Ids,      \* part ids
    Sizes,    \* part sizes
    N_PARTS   \* capacity of the part table

VARIABLE arch

Part == [id : Ids, size : Sizes]

IdsOf(ps) == {ps[k].id : k \in DOMAIN ps}

\* A part list as a header holds it: distinct ids, at most N_PARTS.
IsPartList(ps) ==
    /\ Len(ps) <= N_PARTS
    /\ \A j, k \in DOMAIN ps : j # k => ps[j].id # ps[k].id

Empty == [valid |-> TRUE, parts |-> <<>>, sealed |-> FALSE]

\* No valid header: nothing can be opened.
NoArchive == [valid |-> FALSE, parts |-> <<>>, sealed |-> FALSE]

Init == arch \in {a \in [valid : {TRUE}, parts : Seq(Part), sealed : {FALSE}] : IsPartList(a.parts)}

\* bpak create: archive b, whatever a was.
Create(a, b) == b = Empty

\* add_file / add_key / add_file_with_merkle_tree committed: fresh parts
\* appended behind the old ones in one header write.
Add(a, b) ==
    /\ a.valid
    /\ b \in [valid : {TRUE}, parts : Seq(Part), sealed : {FALSE}]
    /\ Len(b.parts) > Len(a.parts)
    /\ IsPrefix(a.parts, b.parts)
    /\ IsPartList(b.parts)

\* bpak sign committed.
Sign(a, b) ==
    /\ a.valid
    /\ b = [a EXCEPT !.sealed = TRUE]

\* A header write cut short: no valid header is left.
Tear(a, b) == b = NoArchive

\* The step from archive a to archive b.
Step(a, b) == Create(a, b) \/ Add(a, b) \/ Sign(a, b) \/ Tear(a, b)

Next == Step(arch, arch')

Spec == Init /\ [][Next]_arch

=============================================================================
