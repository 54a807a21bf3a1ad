\* Two threads, a signal, failing thread creation and a script that stops threads.
CONSTANTS
    N = 2
    MaxResponses = 2
    MayScriptStop = TRUE
    MayFail = TRUE
SPECIFICATION FairSpec
CHECK_DEADLOCK FALSE
INVARIANTS ReportExact LastIntervalRecorded
PROPERTIES CfgFixedBeforeStart Ends
