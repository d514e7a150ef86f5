---------------------------- MODULE TransparencyLog ----------------------------
(***************************************************************************)
(* The live halves of S29 (s29_transparency_log.py) and S31                *)
(* (s31_witness_cosigning.py), and the conformance probe of /log/proof     *)
(* (probe_log_proof_inclusion_and_consistency), against one registry log   *)
(* that others go on publishing to.  Every answer of the registry is taken *)
(* at a moment of its own, so the heads that a run compares are heads of   *)
(* different moments.  The registry may also rewrite its log or sign with  *)
(* another key than its receipt key.                                       *)
(*                                                                         *)
(* The root of a tree stands for the tree, that is for the sequence of its *)
(* leaves: hashes do not collide.                                          *)
(***************************************************************************)
EXTENDS Naturals, Sequences, SequencesExt

\* What may happen together: runs, those of "s29", "s31" and "probe" that run;
\* others, a bound on the contexts that others publish; faults, a bound on the
\* rewrites of the log and changes of the key.
CONSTANT Mixes

VARIABLES
    mix,     \* one of them
    log,     \* the log of the registry
    key,     \* the key that signs its checkpoints
    others,  \* contexts that others published
    faults,  \* rewrites and changes of the key so far
    at,      \* at[r]: the request that run r awaits, or how it ended
    view     \* view[r]: the checkpoints the run was served

logVars == <<mix, log, key, others, faults, at, view>>
registry == <<mix, log, key, others, faults>>

NoHead == [size |-> 0, root |-> << >>, key |-> "none"]
LogEnds == {"done", "failed", "gone"}

-------------------------------------------------------------------------------
(* What the registry serves and what the SDK verifies *)

HeadAt(n) == [size |-> n, root |-> SubSeq(log, 1, n), key |-> key]
Latest == HeadAt(Len(log))

Signed(c) == c.key = "receipt"
Includes(c, ctx) == \E i \in 1..c.size : c.root[i] = ctx
Extends(c, retained) == IsPrefix(retained.root, c.root)

\* The checkpoint in a consistency proof: none of its own, the tree the proof
\* is about, or the latest one.
Embedded(b) == {b, Latest} \cup (IF b.size <= Len(log) THEN {HeadAt(b.size)} ELSE {})

-------------------------------------------------------------------------------
(* The run *)

Moves(r, from, to) == at[r] = from /\ at' = [at EXCEPT ![r] = to]
Publishes(r, n) == log' = Append(log, <<r, n>>) /\ UNCHANGED <<mix, key, others, faults>>
Saw(r, name, c) == view' = [view EXCEPT ![r][name] = c] /\ UNCHANGED registry

Publish1(r) ==
    /\ Moves(r, "publish1", "checkpoint_a")
    /\ Publishes(r, 1)
    /\ UNCHANGED view

\* S31 goes on without a look at the head; S29 retrieves its context first.
CheckpointA(r) ==
    /\ Moves(r, "checkpoint_a", IF r = "s31" THEN "publish2" ELSE "retrieve")
    /\ Saw(r, "a", Latest)

\* The body and the receipt of the first context verify; otherwise GoesAway.
Retrieve(r) ==
    /\ Moves(r, "retrieve", "inclusion")
    /\ UNCHANGED <<registry, view>>

InclusionProof(r) ==
    /\ Moves(r, "inclusion", "publish2")
    /\ \E c \in {view[r].a, Latest} : Saw(r, "p", c)

Publish2(r) ==
    /\ Moves(r, "publish2", "checkpoint_b")
    /\ Publishes(r, 2)
    /\ UNCHANGED view

CheckpointB(r) ==
    /\ Moves(r, "checkpoint_b", "consistency")
    /\ Saw(r, "b", Latest)

\* S31 mints its cosignature over the embedded checkpoint, c, here.
ConsistencyProof(r) ==
    /\ Moves(r, "consistency", "done")
    /\ \E c \in Embedded(view[r].b) : Saw(r, "c", c)

\* The exception handlers: a status of the registry, no answer, or a rejection
\* by the SDK ends the live half.
GoesAway(r) ==
    /\ r # "probe" /\ at[r] \notin LogEnds
    /\ at' = [at EXCEPT ![r] = "gone"]
    /\ UNCHANGED <<registry, view>>

\* Mutant: the head the tree is compared with is the new one.
Forgetful(v) ==
    /\ Signed(v.b) /\ Signed(v.c)
    /\ v.c.size = v.b.size /\ v.b.size > v.a.size
    /\ Extends(v.c, v.b)

\* Mutant: the log grows by the second context and nothing else.
OneLeafMore(v) ==
    /\ Signed(v.b) /\ Signed(v.c)
    /\ v.c.size = v.b.size /\ v.b.size = v.a.size + 1
    /\ Extends(v.c, v.a)

\* live_consistency_verified of S29, live_obligation_ok of S31.
Consistent(v) ==
    /\ Signed(v.b) /\ Signed(v.c)
    /\ v.c.size = v.b.size /\ v.b.size > v.a.size
    /\ Extends(v.c, v.a)

S29Live(v) == Signed(v.a) /\ Signed(v.p) /\ Includes(v.p, <<"s29", 1>>) /\ Consistent(v)

\* The cosignature is minted and counted whatever Consistent says.
S31Live(v) == Consistent(v)

LiveOK(r) == at[r] = "done" /\ IF r = "s29" THEN S29Live(view[r]) ELSE S31Live(view[r])

-------------------------------------------------------------------------------
(* The probe *)

\* The log profile is not advertised.
ProbeSkipped ==
    /\ Moves("probe", "publish", "done")
    /\ UNCHANGED <<registry, view>>

\* With a fixed idempotency key: an earlier publish of the probe is replayed.
ProbePublish ==
    /\ Moves("probe", "publish", "checkpoint")
    /\ IF Includes(Latest, <<"probe", 1>>) THEN UNCHANGED registry ELSE Publishes("probe", 1)
    /\ UNCHANGED view

ProbeCheckpoint ==
    /\ at["probe"] = "checkpoint"
    /\ at' = [at EXCEPT !["probe"] = IF Latest.size >= 1 THEN "proof_of_ctx" ELSE "failed"]
    /\ Saw("probe", "b", Latest)

\* The proof and the checkpoint in it come in one answer.
ProbeInclusion ==
    /\ Moves("probe", "proof_of_ctx", "proof_of_sizes")
    /\ Saw("probe", "p", Latest)

ProbeConsistency ==
    /\ at["probe"] = "proof_of_sizes"
    /\ \E c \in Embedded(view["probe"].b) :
           /\ at' = [at EXCEPT !["probe"] =
                        IF c.size >= view["probe"].b.size THEN "done" ELSE "failed"]
           /\ Saw("probe", "c", c)

-------------------------------------------------------------------------------
(* The registry and the others *)

OtherPublish ==
    /\ others < mix.others
    /\ others' = others + 1
    /\ log' = Append(log, <<"other", others'>>)
    /\ UNCHANGED <<mix, key, faults, at, view>>

\* From entry k on: another entry in its place, or none.
Rewrite ==
    /\ faults < mix.faults
    /\ faults' = faults + 1
    /\ \E k \in 1..Len(log) :
           log' \in {[log EXCEPT ![k] = <<"rewrite", faults'>>], SubSeq(log, 1, k - 1)}
    /\ UNCHANGED <<mix, key, others, at, view>>

ChangeKey ==
    /\ faults < mix.faults
    /\ faults' = faults + 1
    /\ key' = IF key = "receipt" THEN "another" ELSE "receipt"
    /\ UNCHANGED <<mix, log, others, at, view>>

-------------------------------------------------------------------------------
LogInit ==
    /\ mix \in Mixes
    /\ log \in {<< >>, <<<<"probe", 1>>>>}
    /\ key = "receipt" /\ others = 0 /\ faults = 0
    /\ at = [r \in mix.runs |-> IF r = "probe" THEN "publish" ELSE "publish1"]
    /\ view = [r \in mix.runs |-> [a |-> NoHead, p |-> NoHead, b |-> NoHead, c |-> NoHead]]

LogStep(r) ==
    \/ Publish1(r) \/ CheckpointA(r) \/ Retrieve(r) \/ InclusionProof(r)
    \/ Publish2(r) \/ CheckpointB(r) \/ ConsistencyProof(r) \/ GoesAway(r)

ProbeStep == ProbeSkipped \/ ProbePublish \/ ProbeCheckpoint \/ ProbeInclusion \/ ProbeConsistency

LogNext ==
    \/ \E r \in mix.runs \ {"probe"} : LogStep(r)
    \/ "probe" \in mix.runs /\ ProbeStep
    \/ OtherPublish \/ Rewrite \/ ChangeKey

LogSpec == LogInit /\ [][LogNext]_logVars

-------------------------------------------------------------------------------
(* Properties *)

\* A registry that rewrote the tree the run had retained, at any time before it
\* served the second head, is not reported as verified: the entries the run saw
\* at the first head are the first entries of the second.
RewriteIsNoticed ==
    \A r \in mix.runs \ {"probe"} : LiveOK(r) => Extends(view[r].b, view[r].a)

\* Publishes of others leave an honest run verified at every moment but one,
\* between its second head and the proof that goes with it, and never fail the
\* probe: "The embedded checkpoint must *cover* what the proof claims - not equal
\* it".
GrowthIsHarmless ==
    faults = 0 => \A r \in mix.runs :
        /\ r # "probe" /\ at[r] = "done" /\ view[r].c.size = view[r].b.size => LiveOK(r)
        /\ r = "probe" => at[r] # "failed"

================================================================================
