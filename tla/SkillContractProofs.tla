------------------------ MODULE SkillContractProofs ------------------------
(***************************************************************************)
(* What the prompt hook derives from a SKILL.md, for every frontmatter     *)
(* over any tools, artifacts and sections, however it is edited between    *)
(* prompts.                                                                *)
(***************************************************************************)
EXTENDS MCSkillContract, TLAPS

\* An inferred type answers the signals it was inferred from.
LEMMA InferenceFollowsSignals ==
    ASSUME NEW fm \in Frontmatter, fm.contract_type = ""
    PROVE  /\ InferContractType(fm) \in {"workflow", "output", "hybrid", "analysis"}
           /\ WorkflowSignals(fm) => InferContractType(fm) \in {"workflow", "hybrid"}
           /\ OutputSignals(fm) => InferContractType(fm) \in {"output", "hybrid"}
<1>1. CASE WorkflowSignals(fm) /\ OutputSignals(fm)
  BY <1>1 DEF InferContractType
<1>2. CASE WorkflowSignals(fm) /\ ~OutputSignals(fm)
  BY <1>2 DEF InferContractType
<1>3. CASE ~WorkflowSignals(fm) /\ OutputSignals(fm)
  BY <1>3 DEF InferContractType
<1>4. CASE ~WorkflowSignals(fm) /\ ~OutputSignals(fm)
  BY <1>4 DEF InferContractType
<1> QED
  BY <1>1, <1>2, <1>3, <1>4

\* The type is the one frontmatter key that crosses get_skill_config whole.
LEMMA ConfigKeepsType ==
    ASSUME NEW fm
    PROVE  DerivedContract(SkillConfig(fm)).type =
               MapContractType(InferContractType(fm))
<1>1. /\ "contract_type" \in DOMAIN SkillConfig(fm)
      /\ SkillConfig(fm).contract_type = InferContractType(fm)
  BY DEF SkillConfig, Discovered
<1>2. Get(SkillConfig(fm), "contract_type", "analysis") = InferContractType(fm)
  BY <1>1 DEF Get
<1> QED
  BY <1>2 DEF DerivedContract

LEMMA DerivedCoversDemands ==
    ASSUME NEW fm \in Frontmatter, fm.contract_type = ""
    PROVE  LET type == DerivedContract(SkillConfig(fm)).type
           IN  /\ fm.required_phase_artifacts # {} =>
                      type \in {"workflow-execution", "hybrid"}
               /\ fm.required_sections # {} =>
                      type \in {"structured-output", "hybrid"}
<1> DEFINE inferred == InferContractType(fm)
<1>1. DerivedContract(SkillConfig(fm)).type = MapContractType(inferred)
  BY ConfigKeepsType
<1>2. /\ inferred \in {"workflow", "hybrid"} =>
             MapContractType(inferred) \in {"workflow-execution", "hybrid"}
      /\ inferred \in {"output", "hybrid"} =>
             MapContractType(inferred) \in {"structured-output", "hybrid"}
  BY DEF MapContractType
<1>3. /\ fm.required_phase_artifacts # {} => WorkflowSignals(fm)
      /\ fm.required_sections # {} => OutputSignals(fm)
  BY DEF WorkflowSignals, OutputSignals
<1> QED
  BY <1>1, <1>2, <1>3, InferenceFollowsSignals

\* The contract of the last prompt is the one the file on disk now gives: an
\* edit makes the module forget it, since the next prompt derives another.
CInv ==
    /\ file \in Frontmatter
    /\ contract # NoContract => contract = DerivedContract(SkillConfig(file))

LEMMA ContractInit == Init => CInv
BY DEF Init, CInv

LEMMA ContractStep == CInv /\ [Next]_vars => CInv'
BY DEF CInv, Next, Edit, Prompt, vars

\* For every frontmatter: where no type is written down, _infer_contract_type
\* and _map_contract_type together pick a contract that evaluates whatever the
\* frontmatter asks for.
THEOREM DemandsAreEvaluated == Spec => []InferredTypeCoversDemands
<1>1. CInv => InferredTypeCoversDemands
  BY DerivedCoversDemands DEF CInv, InferredTypeCoversDemands
<1> QED
  BY ContractInit, ContractStep, <1>1, PTL DEF Spec
=============================================================================
