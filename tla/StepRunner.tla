----------------------------- MODULE StepRunner -----------------------------
(***************************************************************************)
(* One step of a profile run on prepared evidence: run_step, _candidates,  *)
(* _run_tool and _run_action of orchestrator/steps.py, composed with       *)
(* Preparation, whose record names the locations.                          *)
(*                                                                         *)
(* A tool step tries its candidates (its tool, then its fallbacks) at each *)
(* location of its input until one completes.  A Dissect fallback reads    *)
(* the original target as a whole, and ends the step when it completes.    *)
(* The executor (Dag) calls the runner again after a failure, MaxAttempts  *)
(* times in all.                                                           *)
(***************************************************************************)
EXTENDS Preparation, Sequences

CONSTANTS
    Steps,         \* profile steps: [chain, input, fallback, action]
    Engines,       \* the engines a run may ask for
    MaxAttempts    \* 1 + the retries of the step

(* A tool of a chain: "tool" (the step's own, an EZ tool), "native" (in    *)
(* Python), "plugin" (dissect_plugin as the step's tool), "dissect" (as a  *)
(* fallback on the target), "engine" (what the service of an action runs). *)
Tool == {"tool", "native", "plugin", "dissect", "engine"}
Selector == {"evtx_dir", "step", "target", "base"}

ASSUME StepAssumption ==
    /\ Steps \subseteq [chain : Seq(Tool), input : Selector,
                        fallback : Selector \cup {None}, action : BOOLEAN]
    /\ \A s \in Steps : s.chain # <<>>
    /\ Engines \subseteq {"auto", "ez", "dissect"}
    /\ MaxAttempts \in Nat \ {0}

VARIABLES
    step,       \* the step of the profile, None when the run has none
    engine,     \* its engine
    avail,      \* the tools that are installed
    outputs,    \* where the step it needs wrote files ("step:<id>" input)
    run,        \* the call of run_step
    parsed      \* location or target -> how often a completed run parsed it

stepvars == <<step, engine, avail, outputs, run, parsed>>
vars == <<prepvars, stepvars>>

Places == Items \cup {"output", "target", "base"}
Nowhere == "nowhere"     \* the single pass of a step with no location

ASSUME PlacesApart ==
    /\ Items \cap {"output", "target", "base", Nowhere} = {}
    /\ None \notin Places \cup {Nowhere}

Off(n) == [pc |-> "off", todo |-> {}, at |-> None, left |-> <<>>, ran |-> {},
           dissect |-> FALSE, failures |-> {}, attempt |-> n]

StepInit ==
    /\ step \in Steps \cup {None}
    /\ engine \in IF step = None THEN {"auto"} ELSE Engines
    /\ avail \in IF step = None THEN {{}}
                ELSE SUBSET {step.chain[i] : i \in DOMAIN step.chain}
    /\ outputs \in IF step # None /\ step.input = "step" THEN SUBSET {"output"} ELSE {{}}
    /\ run = Off(1)
    /\ parsed = [x \in Places |-> 0]

(* StepContext.locations: selectors that locate_artifacts found, among the *)
(* first MAX_SCAN_FILES (50000) files of the base; here in all of them.    *)
Locations(selector) ==
    CASE selector = "step" -> outputs
      [] selector = "target" -> IF record.found = "logs" THEN {} ELSE {"target"}
      [] selector = "base" -> {"base"}
      [] selector = "evtx_dir" -> OfKind(record.items, {"logs", "tree"})

(* _candidates: which tools of the chain the engine lets the step use.     *)
Candidates ==
    LET chain == step.chain
        dissect == {"dissect"} \cap {chain[i] : i \in DOMAIN chain}
    IN  CASE chain[1] \in {"plugin", "engine"} -> SubSeq(chain, 1, 1)
          [] engine = "dissect" /\ chain[1] = "tool" ->
                IF dissect # {} THEN <<"dissect">> ELSE SubSeq(chain, 1, 1)
          [] engine = "ez" /\ chain[1] = "tool" ->
                SelectSeq(chain, LAMBDA t : t # "dissect")
          [] OTHER -> chain

Located == {i \in DOMAIN Candidates : Candidates[i] # "dissect"}

(* The locations of this call: the input's, or those of input_fallback.    *)
Input ==
    IF Located = {} THEN {}
    ELSE IF Locations(step.input) = {} /\ step.fallback # None
         THEN Locations(step.fallback) ELSE Locations(step.input)

End(status, r) == [r EXCEPT !.pc = status, !.todo = {}, !.at = None, !.left = <<>>]

StepBegin ==
    /\ step # None /\ record # None
    /\ Resting
    /\ run.pc = "off"
    /\ run' = IF Input = {} /\ Located # {} /\ (step.action \/ engine # "dissect")
              THEN End("skipped", run)
              ELSE [run EXCEPT !.pc = "try",
                        !.todo = IF Input = {} THEN {Nowhere} ELSE Input]
    /\ UNCHANGED <<prepvars, step, engine, avail, outputs, parsed>>

NextLocation ==
    /\ run.pc = "try" /\ run.at = None /\ ~run.dissect
    /\ \E l \in run.todo :
        run' = [run EXCEPT !.at = l, !.todo = @ \ {l}, !.left = Candidates]
    /\ UNCHANGED <<prepvars, step, engine, avail, outputs, parsed>>

(* Where the next candidate reads: the whole target, or the location.      *)
Target == IF Head(run.left) = "dissect" THEN Locations("target")
          ELSE {run.at} \ {Nowhere}

Trying == run.pc = "try" /\ run.at # None /\ run.left # <<>>

Attempt(status) == [tool |-> Head(run.left), at |-> run.at, status |-> status]

Available == Head(run.left) \in avail

(* A candidate without input, and one whose tool is not installed; an      *)
(* action does not ask whether its engine is.                              *)
SkipCandidate ==
    /\ Trying /\ (Target = {} \/ (~step.action /\ ~Available))
    /\ run' = [run EXCEPT !.left = Tail(@),
                 !.ran = IF Target = {} THEN @ ELSE @ \cup {Attempt("unavailable")}]
    /\ UNCHANGED <<prepvars, step, engine, avail, outputs, parsed>>

(* run_tool_and_normalize completes: the location is done, and after a     *)
(* Dissect fallback every location is.                                     *)
CandidateCompletes ==
    /\ Trying /\ Target # {} /\ Available
    /\ run' = [run EXCEPT !.at = None, !.left = <<>>,
                          !.dissect = @ \/ Head(run.left) = "dissect",
                          !.ran = @ \cup {Attempt("completed")}]
    /\ parsed' = [x \in Places |-> IF x \in Target THEN parsed[x] + 1 ELSE parsed[x]]
    /\ UNCHANGED <<prepvars, step, engine, avail, outputs>>

(* It fails, exits with an error or raises: the next candidate's turn.  An *)
(* action stops at its first failure, a missing engine included.           *)
CandidateFails ==
    /\ Trying /\ Target # {} /\ (Available \/ step.action)
    /\ run' = LET r == [run EXCEPT !.left = Tail(@), !.ran = @ \cup {Attempt("failed")}]
              IN  IF step.action
                  THEN [r EXCEPT !.at = None, !.todo = {}, !.left = <<>>,
                                 !.failures = @ \cup {run.at}]
                  ELSE r
    /\ UNCHANGED <<prepvars, step, engine, avail, outputs, parsed>>

NoneSucceeded ==
    /\ run.pc = "try" /\ run.at # None /\ run.left = <<>>
    /\ run' = [run EXCEPT !.at = None, !.failures = @ \cup {run.at}]
    /\ UNCHANGED <<prepvars, step, engine, avail, outputs, parsed>>

(* Mutant: failed locations forgotten.                                     *)
VerdictMutant ==
    IF \A r \in run.ran : r.status = "unavailable" THEN "skipped" ELSE "completed"

(* The verdict, and the executor's next attempt after a StepFailed.        *)
Verdict ==
    IF \A r \in run.ran : r.status = "unavailable" THEN "skipped"
    ELSE IF run.failures # {} THEN "failed" ELSE "completed"

StepEnd ==
    /\ run.pc = "try" /\ run.at = None
    /\ run.todo = {} \/ run.dissect
    /\ run' = IF Verdict = "failed" /\ run.attempt < MaxAttempts
              THEN Off(run.attempt + 1) ELSE End(Verdict, run)
    /\ UNCHANGED <<prepvars, step, engine, avail, outputs, parsed>>

StepNext == \/ StepBegin \/ NextLocation \/ SkipCandidate \/ CandidateCompletes
            \/ CandidateFails \/ NoneSucceeded \/ StepEnd

Init == PrepInit /\ StepInit
(* The run prepares its evidence before its first step, and its steps work *)
(* on the record it read then.                                             *)
Next == (run = Off(1) /\ PrepNext /\ UNCHANGED stepvars) \/ StepNext
Spec == Init /\ [][Next]_vars

------------------------------------------------------------------------------
(* Type correctness of the preparation and of the step.                    *)
TypeOK ==
    /\ PrepTypeOK
    /\ run \in [pc : {"off", "try", "completed", "failed", "skipped"},
                todo : SUBSET (Places \cup {Nowhere}), at : Places \cup {Nowhere, None},
                left : {SubSeq(s.chain, i, Len(s.chain)) : s \in Steps, i \in 1..5}
                        \cup UNION {[1..n -> Tool] : n \in 0..2},
                ran : SUBSET [tool : Tool, at : Places \cup {Nowhere},
                              status : {"completed", "failed", "unavailable"}],
                dissect : BOOLEAN, failures : SUBSET (Places \cup {Nowhere}),
                attempt : 1..MaxAttempts]
    /\ parsed \in [Places -> Nat]

(* A step is completed only when each of its locations was parsed, or the  *)
(* target that holds them all (steps.py:155, 171).                         *)
StepCovers ==
    run.pc = "completed" =>
        parsed["target"] > 0 \/ (Input # {} /\ \A l \in Input : parsed[l] > 0)

(* A skipped step has parsed nothing: what depends on it may start without *)
(* it (steps.py:166-170).                                                  *)
SkippedParsedNothing == run.pc = "skipped" => \A x \in Places : parsed[x] = 0

(* engine=ez never runs Dissect, and engine=dissect runs nothing else where*)
(* the step has a Dissect alternative (steps.py:6-9).                      *)
EngineRespected ==
    LET tools == {r.tool : r \in run.ran}
        has == step # None /\ "dissect" \in {step.chain[i] : i \in DOMAIN step.chain}
    IN  /\ engine = "ez" => "dissect" \notin tools
        /\ engine = "dissect" /\ has => tools \subseteq {"dissect"}

(* "A tool step runs once per location" and a Dissect plugin "once per     *)
(* step" (steps.py:3, 12): no location is parsed a second time, neither by *)
(* a retry of the step nor by a Dissect plugin that reads all of them.     *)
OncePerLocation ==
    \A l \in Items : parsed[l] + parsed["target"] <= 1
=============================================================================
