SPECIFICATION FairSurvey
CONSTANTS
  Byte = 4
  Networks <- AllNetworks
  MaxHosts = 3
  Permits = 2
  OurPort <- Port
  ListenIP <- Local
  AnyIP <- Zero
  Senders <- TwoSenders
  Sizes = {0, 3}
  SampleCap = 2
  MaxDatagrams = 3
  Jobs <- AllJobs
  OwnIPs <- Interfaces
  RouteIPs <- Route
  LoopbackNet = 1
CHECK_DEADLOCK FALSE
INVARIANTS SurveyTypeOK HostsExact ProbeComplete PortVerdict TrafficReported RedactedReport
PROPERTIES SurveyEnds
