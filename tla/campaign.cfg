\* The views of the four campaigns, and the report about a job over one.
SPECIFICATION SpecReport
CONSTANTS
  Tasks = {"t1", "t2"}
  Overlays = {"t2"}
  Builders = {"b1", "b2"}
  Dirs = {1, 2, 3}
  Setups <- AllSetups
INVARIANTS
  PublishedWhole
  ReportSound
  VerifyDetects
\* Materialisers and reports come to an end.
CHECK_DEADLOCK FALSE
