CONSTANTS
    solvent = solvent
    oxidizer = oxidizer
    cheese = cheese
    paper = paper
    far = far
    near = near
    cold = cold
    gate1 = gate1
    gate2 = gate2
    freezer = freezer
    NoClass = NoClass
    Location = {far, near, cold, gate1, gate2, freezer}
    Sku = {solvent, oxidizer, cheese, paper}
    Site <- MCSite
    Class <- MCClass
    Needs <- MCNeeds
    DoorCoords <- MCDoorCoords
    MoveWeight = 1
    IdleWeight = 1
    Handling = 2
    Opportunity = 1
    Warehouses <- MCWarehouses
    Paths = {"greedy", "or", "rl"}
    MinScore = 1
    MaxCandidates = 3
    BatchSize = 2
    Resources = 3
    FallbackResources = 2
    MaxDistance = 24
    PolicyActions = 2
    Planners <- MCPlanners
    None = None
SPECIFICATION RoutesSpec
INVARIANTS
    NothingBetterIsLeftOut
    TasksSuitTheirPlace
    CutLosesNothing
    CandidatesApproachTheirTruck
    EachTaskIsRouted
    OneStopAtATime
CHECK_DEADLOCK FALSE
