SPECIFICATION Spec
CONSTANTS
    Requests <- MCRequests
    Firmware <- MCFirmware
    Lines <- MCLines
    Answers <- MCAnswers
    Days <- MCDays
    Times <- MCTimes
    Angles <- MCAngles
    IndiCommands <- MCIndiCommands
    Documents <- MCDocuments
    NaN = NaN
INVARIANTS CommandsDistinct VerifyOnlyAdds EventsForwardCompatible AnswersTrue TimeOfTheCalendar CoordinatesOnTheSky BusTellsTheTruth DiscoveryComplete
CHECK_DEADLOCK FALSE
