SPECIFICATION ControlSpec
CONSTANTS
    k1 = k1
    k2 = k2
    m1 = m1
    LedgerCameras = {k1, k2}
    homeOf <- MCHomeOf
    Machines = {m1}
    NoMachine = NoMachine
    Amounts = {20, 22}
    Crew = {1, 2, 3}
    Requests = {c1, c2}
    MaxPoints = 2
    LastMoment = 1
    dayOf <- MCDayOf
    shiftOf <- MCShiftOf
    RosterChoices <- MCRosters
    SkillChoices <- MCSkills
    ZoneChoices <- MCZones
    Offices <- MCOffices
    Molds = {mold}
    Groups = {g1, g2}
    LineConfigured = TRUE
    Thresholds = {2}
    ShotReports <- MCShots
    Keep = Keep
    Desks = {c1, c2}
    MaxTasks = 4
    MaxSlips = 1
    rA = rA
    rB = rB
    tA = tA
    tB = tB
    sA = sA
    sB = sB
    mA = mA
    mB = mB
    Routes = {rA, rB}
    Templates = {tA, tB}
    Schedules = {sA, sB}
    Missions = {mA, mB}
    Premises = {"A", "B"}
    placeOf <- MCPlaceOf
    None = None
    Clerks = {c1, c2}
    MaxDispatches = 2
    Agendas <- MCAgendas
INVARIANTS VerdictWasEarned AlertWasHeard LinksStayHome EvidenceOpens
SYMMETRY ControlSymmetry
CHECK_DEADLOCK FALSE
