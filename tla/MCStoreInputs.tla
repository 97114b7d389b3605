---------------------------- MODULE MCStoreInputs ----------------------------
(***************************************************************************)
(* One instance for the four modules of what comes into the live store and *)
(* where it is kept: transcripts, the proposal queue, promotion batches and *)
(* the backends.  They share no state here, so a behaviour moves one of    *)
(* them, the focus, and the other three stay where they started.           *)
(***************************************************************************)
EXTENDS PromotionBatch, StoreBackend, ProposalQueue, Ingestion, TLC

VARIABLE focus

inputVars == <<focus, vars, backendVars, queueVars, ingestVars>>

Symmetry == Permutations(Procs)

Verbatim == [t \in Texts |-> t]

(* Typed; written on a channel; spoken, with and without a caption; spoken  *)
(* by somebody else; an engine's frame.                                    *)
SomeFrames ==
    {[channel |-> c[1], allowed |-> c[2], writes |-> c[3], voice |-> c[4]] :
        c \in {<<"none", FALSE, TRUE, FALSE>>, <<"telegram", TRUE, FALSE, TRUE>>,
               <<"telegram", TRUE, TRUE, TRUE>>, <<"telegram", FALSE, TRUE, TRUE>>,
               <<"nockcc", FALSE, TRUE, FALSE>>, <<"engine", FALSE, TRUE, FALSE>>}}

-----------------------------------------------------------------------------
InputsInit ==
    /\ focus \in {"batches", "backend", "queue", "transcripts"}
    /\ Init
    /\ BackendInit
    /\ focus # "backend" => /\ hasKey /\ jsonFile = Fresh([e \in Entries |-> e], {}, "plain")
                            /\ window = [e \in Entries |-> "open"]
    /\ QueueInit
    /\ focus # "queue" => said = {}
    /\ IngestInit

InputsNext ==
    /\ UNCHANGED focus
    /\ \/ focus = "batches" /\ Next /\ UNCHANGED <<backendVars, queueVars, ingestVars>>
       \/ focus = "backend" /\ BackendNext /\ UNCHANGED <<vars, queueVars, ingestVars>>
       \/ focus = "queue" /\ QueueNext /\ UNCHANGED <<vars, backendVars, ingestVars>>
       \/ focus = "transcripts" /\ IngestNext /\ UNCHANGED <<vars, backendVars, queueVars>>

InputsSpec == InputsInit /\ [][InputsNext]_inputVars

(* Every component is in states of its type. *)
InputsTypeOK ==
    /\ focus = "batches" => BTypeOK
    /\ focus = "backend" => BackendTypeOK
    /\ focus = "queue" => QueueTypeOK
    /\ focus = "transcripts" => IngestTypeOK

=============================================================================
