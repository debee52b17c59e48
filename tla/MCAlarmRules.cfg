CONSTANTS
    m1 = m1
    m2 = m2
    t1 = t1
    t2 = t2
    TopicOf <- MCTopicOf
    r1 = r1
    AlarmIds = {a1, a2}
    Sources <- MCSources
    Triggers = {m1, m2, m3}
    Msgs = {m1, m2}
    Nil = Nil
    Topics = {t1, t2}
    MaxAttempts = 1
    MaxLog = 1
    MaxCrashes = 1
    Rules = {r1}
    Direct = Direct
    Others = {r1Elsewhere}
    RuleOf <- MCRuleOf
    Matching <- MCMatching
    Recovering <- MCRecovering
    Reports = {m1}
    Clears = {m2}
    Duration <- MCDuration
    Operators = {o1, o2}
    BatchSize = 1
    MaxTime = 1
    MaxEdits = 2
SPECIFICATION FewSpec
SYMMETRY Sym
CHECK_DEADLOCK FALSE
 
PROPERTIES DeletionCloses EndedStaysEnded
