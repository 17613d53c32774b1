\* One analyzer on every document of a set of small heaps, and two analyzers,
\* with replacement of the artifact and kills, on documents that differ.
CONSTANTS
    a1 = a1
    a2 = a2
    None = None
    Analyzers = {a1, a2}
    MaxU32 = 9
    MaxString = 3
    MaxShort = 1
    Magic = 9
    MaxReplace = 1
    Scenarios <- MCScenarios
SPECIFICATION Spec
INVARIANTS ReadsWhatWasWritten CacheFits ReportTrue CacheCostsNothing
