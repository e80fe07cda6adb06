SPECIFICATION Spec
INVARIANTS
    PlaysTheProfile SweepIsGentle RateIsShown
    SlowWhereNarrow FittedLaneIsClear StationsHoldTheSpacing MergeKeepsBothMaps
    PoseBelongsToMap HoleIsFound EveryBatchOnce AuditAccusesNoReader ArrivesAtOwnGoal
    ReplayIsMeasured DrillIsAsAsked NarrowViewIsAWedge
CHECK_DEADLOCK FALSE
