CONSTANTS
    art = art
    sec = sec
    ToolNames <- MCTools
    ArtifactNames <- MCArtifacts
    SectionNames <- MCSections
SPECIFICATION Spec
INVARIANT InferredTypeCoversDemands
